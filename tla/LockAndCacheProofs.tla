------------------------- MODULE LockAndCacheProofs -------------------------
(***************************************************************************)
(* Proofs about RWLock, for every set of threads and every width of the    *)
(* counter, and about TimedLRU, whose calls it guards.                     *)
(*                                                                         *)
(* The lock.  LockNext contains two kinds of steps that matter to the      *)
(* count: a CAS that adds a reader or the sign bit, and a fetch_sub or     *)
(* store that removes them.  IndInv says that l is exactly the sum of the  *)
(* two, that the flag has one owner, and that a reader's CAS starts from a *)
(* count without the sign bit; mutual exclusion follows.                   *)
(*                                                                         *)
(* The cache, for any number of threads and keys.  Unless one of the two   *)
(* hazards that TimedLRU records has occurred, its list holds every entry  *)
(* once, linked in both directions, no call follows a link to freed        *)
(* memory, and the Gets do not all wait for one another; the cache then    *)
(* never holds more than half of max_size_ entries, and no Put makes it    *)
(* larger once its counter has reached max_size_, for on a list PopHead    *)
(* takes an entry away.                                                    *)
(***************************************************************************)
EXTENDS RWLock, TimedLRU, SequenceTheorems, FiniteSetTheorems, ChainLemmas, TLAPS

\* A pending reader CAS expects a count without the sign bit.
CasReader == \A p \in Proc : at[p] \in {"rCas", "tryRCas"} => cnt[p] >= 0

\* Nobody reads while somebody writes.
ReadersOut == Writers # {} => Readers = {}

IndInv == LockTypeOK /\ CountExact /\ FlagOwned /\ CasReader /\ ReadersOut

-----------------------------------------------------------------------------
(* How the number of readers changes. *)

\* The readers fit below the sign bit.
LEMMA ReadersFit ==
    /\ IsFiniteSet(Readers)
    /\ Cardinality(Readers) \in Nat
    /\ Cardinality(Readers) < Bit
    /\ Cardinality(Readers) = 0 <=> Readers = {}
    /\ Bit \in Nat
<1>1. Readers \subseteq Proc
  BY DEF Readers
<1>2. IsFiniteSet(Readers) /\ Cardinality(Readers) <= Cardinality(Proc)
  BY <1>1, ProcAssumption, FS_Subset
<1>3. Cardinality(Readers) \in Nat /\ Cardinality(Proc) \in Nat
  BY <1>2, ProcAssumption, FS_CardinalityType
<1>4. Cardinality(Readers) = 0 <=> Readers = {}
  BY <1>2, FS_EmptySet
<1> QED
  BY <1>2, <1>3, <1>4, BitAssumption

\* A thread that starts reading adds one to the readers.
LEMMA ReaderEnters ==
    ASSUME NEW p \in Proc, at \in [Proc -> Labels],
           at[p] # "reading", at' = [at EXCEPT ![p] = "reading"]
    PROVE  Cardinality(Readers') = Cardinality(Readers) + 1
<1>1. Readers' = Readers \cup {p} /\ p \notin Readers
  BY DEF Readers, Step, Local
<1> QED
  BY <1>1, ReadersFit, FS_AddElement

\* A thread that stops reading takes one from the readers.
LEMMA ReaderLeaves ==
    ASSUME NEW p \in Proc, at \in [Proc -> Labels],
           at[p] = "reading", at' = [at EXCEPT ![p] = "idle"]
    PROVE  Cardinality(Readers') = Cardinality(Readers) - 1
<1>1. Readers' = Readers \ {p} /\ p \in Readers
  BY DEF Readers, Step, Local
<1> QED
  BY <1>1, ReadersFit, FS_RemoveElement

\* Any other change of place leaves the readers alone.
LEMMA ReadersStay ==
    ASSUME NEW p \in Proc, at \in [Proc -> Labels], NEW label \in Labels,
           at[p] # "reading", label # "reading", at' = [at EXCEPT ![p] = label]
    PROVE  Readers' = Readers
  BY DEF Readers, Step, Local

\* The sign of l tells whether a writer has announced itself.
LEMMA SignBit ==
    ASSUME CountExact
    PROVE  /\ Marked = {} => l = Cardinality(Readers) /\ l >= 0
           /\ Marked # {} => l = Cardinality(Readers) - Bit /\ l < 0
  BY ReadersFit DEF CountExact

-----------------------------------------------------------------------------
(* The invariant is inductive. *)

LEMMA InitIndInv == LockInit => IndInv
<1> SUFFICES ASSUME LockInit PROVE IndInv
  OBVIOUS
<1>1. Readers = {} /\ Writers = {} /\ Marked = {} /\ Holders = {}
  BY DEF LockInit, Readers, Writers, Marked, Holders
<1>2. LockTypeOK
  <2>1. 0 \in Int32
    BY ReadersFit DEF Int32
  <2>2. at \in [Proc -> Labels]
    BY DEF LockInit, Labels
  <2> QED
    BY <2>1, <2>2 DEF LockInit, LockTypeOK
<1>3. CountExact
  BY <1>1, FS_EmptySet DEF LockInit, CountExact
<1>4. FlagOwned /\ CasReader /\ ReadersOut
  BY <1>1 DEF FlagOwned, CasReader, ReadersOut, LockInit
<1> QED
  BY <1>2, <1>3, <1>4 DEF IndInv

\* The flag has one owner after every step.
LEMMA FlagOwnedStep ==
    ASSUME LockTypeOK, FlagOwned, [LockNext]_lockVars
    PROVE  FlagOwned'
<1>1. CASE UNCHANGED lockVars
  BY <1>1 DEF FlagOwned, Holders, lockVars
<1>2. CASE LockNext
  <2> PICK p \in Proc : Call(p) \/ ReaderStep(p) \/ WriterStep(p)
    BY <1>2 DEF LockNext
  <2>1. CASE Call(p)
    <3>1. Holders' = Holders
      BY <2>1 DEF Calls, Call, Step, Local, Holders, LockTypeOK
    <3> QED
      BY <2>1, <3>1 DEF FlagOwned, Call
  <2>2. CASE ReaderStep(p)
    <3>1. Holders' = Holders /\ w' = w
      BY <2>2 DEF ReaderStep, ReadLoad, ReadCas, ReadCasFails, TryReadLoad,
                  TryReadCas, DoneRead, Step, Local, Holders, LockTypeOK
    <3> QED
      BY <3>1 DEF FlagOwned
  <2>3. CASE WriterStep(p)
    <3>1. CASE WriteTas(p) \/ TryWriteTas(p)
      <4>1. w' = TRUE
        BY <3>1 DEF WriteTas, TryWriteTas
      <4>2. IF w THEN Holders' = Holders
                 ELSE Holders = {} /\ Holders' \subseteq {p}
        BY <3>1 DEF WriteTas, TryWriteTas, TasWins, Step, Local, Holders, LockTypeOK, FlagOwned
      <4> QED
        BY <4>1, <4>2 DEF FlagOwned
    <3>2. CASE \/ WriteLoad(p) \/ WriteCas(p) \/ WriteCasFails(p)
               \/ WriteWait(p) \/ TryWriteLoad(p) \/ TryWriteCas(p)
               \/ DoneWriteStore(p)
      <4>1. Holders' \subseteq Holders /\ w' = w
        BY <3>2 DEF WriteLoad, WriteCas, WriteCasFails, WriteWait,
                    TryWriteLoad, TryWriteCas, DoneWriteStore, Step, Local, Holders, LockTypeOK
      <4> QED
        BY <4>1 DEF FlagOwned
    <3>3. CASE DoneWriteClear(p)
      <4>1. p \in Holders /\ Holders' = Holders \ {p}
        BY <3>3 DEF DoneWriteClear, Step, Local, Holders, LockTypeOK
      <4>2. Holders' = {}
        BY <4>1 DEF FlagOwned
      <4> QED
        BY <4>2 DEF FlagOwned
    <3> QED
      BY <2>3, <3>1, <3>2, <3>3 DEF WriterStep
  <2> QED
    BY <2>1, <2>2, <2>3
<1> QED
  BY <1>1, <1>2

\* One step keeps the types, the count and the two facts that explain it.
LEMMA CountStep ==
    ASSUME IndInv, NEW p \in Proc, Call(p) \/ ReaderStep(p) \/ WriterStep(p)
    PROVE  LockTypeOK' /\ CountExact' /\ CasReader' /\ ReadersOut'
<1> USE ReadersFit DEF IndInv
<1>a. at \in [Proc -> Labels] /\ l \in Int32 /\ cnt \in [Proc -> Int32]
  BY DEF LockTypeOK
<1>b. Cardinality(Readers') \in Nat /\ Cardinality(Readers') < Bit
      /\ (Cardinality(Readers') = 0 <=> Readers' = {})
  <2>1. Readers' \subseteq Proc
    BY DEF Readers
  <2> QED
    BY <2>1, ProcAssumption, BitAssumption, FS_Subset, FS_CardinalityType, FS_EmptySet
<1>1. CASE Call(p)
  <2>1. Readers' = Readers /\ Marked' = Marked /\ Writers' = Writers
    BY <1>1, <1>a DEF Calls, Call, Step, Local, Readers, Marked, Writers
  <2>2. LockTypeOK' /\ CasReader'
    BY <1>1 DEF Calls, Call, Step, Local, LockTypeOK, CasReader, Labels
  <2> QED
    BY <1>1, <2>1, <2>2 DEF Call, CountExact, ReadersOut
<1>2. CASE ReadLoad(p) \/ ReadCasFails(p)
  <2>1. Readers' = Readers /\ Marked' = Marked /\ Writers' = Writers /\ l' = l
    BY <1>2, <1>a DEF ReadLoad, ReadCasFails, Step, Local, Readers, Marked, Writers
  <2>2. LockTypeOK' /\ CasReader'
    BY <1>2 DEF ReadLoad, ReadCasFails, ReaderMayEnter, Step, Local, LockTypeOK, CasReader,
                Labels, Int32
  <2> QED
    BY <2>1, <2>2 DEF CountExact, ReadersOut
<1>3. CASE TryReadLoad(p)
  <2>1. Readers' = Readers /\ Marked' = Marked /\ Writers' = Writers /\ l' = l
    BY <1>3, <1>a DEF TryReadLoad, Step, Local, Readers, Marked, Writers
  <2>2. LockTypeOK' /\ CasReader'
    BY <1>3 DEF TryReadLoad, ReaderMayEnter, Step, Local, LockTypeOK, CasReader, Labels, Int32
  <2> QED
    BY <2>1, <2>2 DEF CountExact, ReadersOut
<1>4. ASSUME at[p] \in {"rCas", "tryRCas"}, CasMatches(p), l' = cnt[p] + 1,
             cnt' = [cnt EXCEPT ![p] = 0], at' = [at EXCEPT ![p] = "reading"], UNCHANGED w
      PROVE  LockTypeOK' /\ CountExact' /\ CasReader' /\ ReadersOut'
  <2>1. l >= 0
    BY <1>4 DEF CasReader, CasMatches
  <2>2. Marked = {} /\ l = Cardinality(Readers)
    BY <2>1, SignBit
  <2>3. Cardinality(Readers') = Cardinality(Readers) + 1
    BY <1>4, <1>a, ReaderEnters
  <2>4. l' = Cardinality(Readers')
    BY <1>4, <2>2, <2>3 DEF CasMatches
  <2>5. Marked' = {} /\ Writers' = {}
    BY <1>4, <1>a, <2>2 DEF Step, Local, Marked, Writers
  <2>6. l' \in Int32
    BY <1>b, <2>4 DEF Int32
  <2>7. LockTypeOK'
    BY <1>4, <2>6 DEF Step, Local, LockTypeOK, Labels, Int32
  <2>8. CasReader'
    BY <1>4, <1>a DEF Step, Local, CasReader, Int32
  <2> QED
    BY <1>b, <2>4, <2>5, <2>7, <2>8 DEF CountExact, ReadersOut
<1>5. CASE ReadCas(p)
  BY <1>5, <1>4 DEF ReadCas, Step, Local
<1>6. CASE TryReadCas(p)
  <2>1. CASE CasMatches(p)
    BY <1>6, <2>1, <1>4 DEF TryReadCas, Step, Local
  <2>2. CASE ~CasMatches(p)
    <3>1. Readers' = Readers /\ Marked' = Marked /\ Writers' = Writers /\ l' = l
      BY <1>6, <2>2, <1>a DEF TryReadCas, Step, Local, Readers, Marked, Writers
    <3>2. LockTypeOK' /\ CasReader'
      BY <1>6, <2>2 DEF TryReadCas, Step, Local, LockTypeOK, CasReader, Labels, Int32
    <3> QED
      BY <3>1, <3>2 DEF CountExact, ReadersOut
  <2> QED
    BY <2>1, <2>2
<1>7. CASE DoneRead(p)
  <2>1. Cardinality(Readers') = Cardinality(Readers) - 1
    BY <1>7, <1>a, ReaderLeaves DEF DoneRead, Step
  <2>2. Marked' = Marked /\ Writers' = Writers /\ Readers' \subseteq Readers
    BY <1>7, <1>a DEF DoneRead, Step, Local, Readers, Marked, Writers
  <2>3. l' = l - 1 /\ l' \in Int32
    BY <1>7, <1>a, <1>b, <2>1 DEF DoneRead, Decrement, CountExact, Int32
  <2>4. LockTypeOK' /\ CasReader'
    BY <1>7, <2>3 DEF DoneRead, Step, Local, LockTypeOK, CasReader, Labels
  <2> QED
    BY <1>b, <2>1, <2>2, <2>3, <2>4 DEF CountExact, ReadersOut
<1>8. CASE \/ WriteTas(p) \/ WriteLoad(p) \/ WriteCasFails(p)
           \/ TryWriteTas(p) \/ TryWriteLoad(p)
  <2>1. Readers' = Readers /\ Marked' = Marked /\ Writers' = Writers /\ l' = l
    BY <1>8, <1>a DEF WriteTas, WriteLoad, WriteCasFails, TryWriteTas,
                      TryWriteLoad, Step, Local, Readers, Marked, Writers
  <2>2. LockTypeOK' /\ CasReader'
    BY <1>8 DEF WriteTas, WriteLoad, WriteCasFails, TryWriteTas, TryWriteLoad,
                Step, Local, LockTypeOK, CasReader, Labels
  <2> QED
    BY <2>1, <2>2 DEF CountExact, ReadersOut
<1>9. ASSUME at[p] \in {"wCas", "tryWCas"}, CasMatches(p), l' = SetBit(cnt[p]),
             cnt' = [cnt EXCEPT ![p] = 0], at' = [at EXCEPT ![p] = "wWait"], UNCHANGED w
      PROVE  LockTypeOK' /\ CountExact' /\ CasReader' /\ ReadersOut'
  <2>1. Marked = {} /\ Writers = {}
    BY <1>9 DEF FlagOwned, Holders, Marked, Writers
  <2>2. l = Cardinality(Readers) /\ l >= 0
    BY <2>1, SignBit
  <2>3. l' = Cardinality(Readers) - Bit
    BY <1>9, <2>2 DEF CasMatches, SetBit
  <2>4. Readers' = Readers /\ Marked' = {p} /\ Writers' = {}
    BY <1>9, <1>a, <2>1 DEF Step, Local, Readers, Marked, Writers
  <2>5. l' \in Int32
    BY <2>3 DEF Int32
  <2>6. LockTypeOK' /\ CasReader'
    BY <1>9, <2>5 DEF Step, Local, LockTypeOK, CasReader, Labels, Int32
  <2> QED
    BY <2>3, <2>4, <2>6 DEF CountExact, ReadersOut
<1>10. CASE WriteCas(p)
  BY <1>10, <1>9 DEF WriteCas, Step, Local
<1>11. CASE TryWriteCas(p)
  <2>1. CASE CasMatches(p)
    BY <1>11, <2>1, <1>9 DEF TryWriteCas, Step, Local
  <2>2. CASE ~CasMatches(p)
    <3>1. Readers' = Readers /\ Marked' = Marked /\ Writers' = Writers /\ l' = l
      BY <1>11, <2>2, <1>a DEF TryWriteCas, Step, Local, Readers, Marked, Writers
    <3>2. LockTypeOK' /\ CasReader'
      BY <1>11, <2>2 DEF TryWriteCas, Step, Local, LockTypeOK, CasReader, Labels, Int32
    <3> QED
      BY <3>1, <3>2 DEF CountExact, ReadersOut
  <2> QED
    BY <2>1, <2>2
<1>12. CASE WriteWait(p)
  <2>1. p \in Marked /\ Marked' = Marked /\ Readers' = Readers
    BY <1>12, <1>a DEF WriteWait, Step, Local, Marked, Readers
  <2>2. l = Cardinality(Readers) - Bit /\ l < 0
    BY <2>1, SignBit
  <2>3. Readers = {}
    BY <1>12, <2>2 DEF WriteWait, Drained, Unsigned
  <2>4. LockTypeOK' /\ CasReader'
    BY <1>12 DEF WriteWait, Step, Local, LockTypeOK, CasReader, Labels
  <2> QED
    BY <1>12, <2>1, <2>3, <2>4 DEF WriteWait, CountExact, ReadersOut
<1>13. CASE DoneWriteStore(p)
  <2>1. Readers = {}
    BY <1>13 DEF DoneWriteStore, Step, ReadersOut, Writers
  <2>2. Readers' = {}
    BY <1>13, <1>a, <2>1 DEF DoneWriteStore, Step, Local, Readers
  <2>3. Marked' = {}
    BY <1>13, <1>a DEF DoneWriteStore, Step, Local, FlagOwned, Holders, Marked
  <2>4. LockTypeOK' /\ CasReader'
    BY <1>13 DEF DoneWriteStore, Step, Local, LockTypeOK, CasReader, Labels, Int32
  <2> QED
    BY <1>13, <1>b, <2>2, <2>3, <2>4 DEF DoneWriteStore, CountExact, ReadersOut
<1>14. CASE DoneWriteClear(p)
  <2>1. Readers' = Readers /\ Marked' = Marked /\ Writers' = Writers /\ l' = l
    BY <1>14, <1>a DEF DoneWriteClear, Step, Local, Readers, Marked, Writers
  <2>2. LockTypeOK' /\ CasReader'
    BY <1>14 DEF DoneWriteClear, Step, Local, LockTypeOK, CasReader, Labels
  <2> QED
    BY <2>1, <2>2 DEF CountExact, ReadersOut
<1> QED
  BY <1>1, <1>2, <1>3, <1>5, <1>6, <1>7, <1>8, <1>10, <1>11, <1>12, <1>13,
     <1>14 DEF ReaderStep, WriterStep

LEMMA IndInvStep == IndInv /\ [LockNext]_lockVars => IndInv'
<1> SUFFICES ASSUME IndInv, [LockNext]_lockVars PROVE IndInv'
  OBVIOUS
<1>1. FlagOwned'
  BY FlagOwnedStep DEF IndInv
<1>2. CASE UNCHANGED lockVars
  BY <1>1, <1>2 DEF IndInv, lockVars, LockTypeOK, CountExact, CasReader, ReadersOut,
                    Readers, Writers, Marked
<1>3. CASE LockNext
  <2> PICK p \in Proc : Call(p) \/ ReaderStep(p) \/ WriterStep(p)
    BY <1>3 DEF LockNext
  <2> QED
    BY <1>1, CountStep DEF IndInv
<1> QED
  BY <1>2, <1>3

THEOREM IndInvHolds == LockSpec => []IndInv
<1> QED
  BY InitIndInv, IndInvStep, PTL DEF LockSpec

-----------------------------------------------------------------------------
(* What a user of the lock relies on. *)

\* The values of the variables stay in their types: l_ never overflows.
THEOREM TypeCorrect == LockSpec => []LockTypeOK
<1>1. IndInv => LockTypeOK
  BY DEF IndInv
<1> QED
  BY <1>1, IndInvHolds, PTL

\* Read, Write: a writer's critical section is exclusive.
THEOREM Exclusion == LockSpec => []MutualExclusion
<1>1. IndInv => MutualExclusion
  BY DEF IndInv, ReadersOut, FlagOwned, MutualExclusion, Writers, Holders
<1> QED
  BY <1>1, IndInvHolds, PTL

\* l_ counts the readers and carries the sign bit of an announced writer.
THEOREM Counting == LockSpec => []CountExact
<1>1. IndInv => CountExact
  BY DEF IndInv
<1> QED
  BY <1>1, IndInvHolds, PTL

\* The writer flag has at most one owner.
THEOREM Ownership == LockSpec => []FlagOwned
<1>1. IndInv => FlagOwned
  BY DEF IndInv
<1> QED
  BY <1>1, IndInvHolds, PTL

\* Write: no reader enters while a writer that announced itself is waiting or
\* writing, because every reader CAS needs a count without the sign bit.
THEOREM WriterPreference == LockSpec => NoOvertaking
<1>1. IndInv /\ [LockNext]_lockVars
        => [Marked # {} /\ Marked' # {} => Readers' \subseteq Readers]_lockVars
  <2> SUFFICES ASSUME IndInv, LockNext, Marked # {}
               PROVE  Readers' \subseteq Readers
    BY DEF lockVars
  <2>1. l < 0
    BY SignBit DEF IndInv
  <2>2. PICK p \in Proc : Call(p) \/ ReaderStep(p) \/ WriterStep(p)
    BY DEF LockNext
  <2>3. ~ReadCas(p) /\ (TryReadCas(p) => ~CasMatches(p))
    <3>1. at[p] \in {"rCas", "tryRCas"} => cnt[p] >= 0 /\ l # cnt[p]
      BY <2>1 DEF IndInv, CasReader, LockTypeOK, Int32
    <3> QED
      BY <3>1 DEF ReadCas, TryReadCas, Step, CasMatches
  <2>4. CASE Call(p)
    BY <2>4 DEF Calls, Call, Step, Local, Readers, IndInv, LockTypeOK
  <2>5. CASE ReaderStep(p)
    BY <2>5, <2>3 DEF ReaderStep, ReadLoad, ReadCasFails, TryReadLoad, TryReadCas,
                      DoneRead, Step, Local, Readers, IndInv, LockTypeOK
  <2>6. CASE WriterStep(p)
    BY <2>6 DEF WriterStep, WriteTas, WriteLoad, WriteCas, WriteCasFails, WriteWait,
                TryWriteTas, TryWriteLoad, TryWriteCas, DoneWriteStore,
                DoneWriteClear, Step, Local, Readers, IndInv, LockTypeOK
  <2> QED
    BY <2>2, <2>4, <2>5, <2>6
<1> QED
  BY <1>1, IndInvHolds, PTL DEF LockSpec, NoOvertaking

\* TryWrite: once a failed call has left w_ set with nobody to clear it, it
\* stays set and no thread becomes a writer any more.
THEOREM LeakPersists == LockSpec => LeakIsForever
<1>1. LockTypeOK /\ [LockNext]_lockVars => [Leaked => Leaked' /\ Marked' = {}]_lockVars
  <2> SUFFICES ASSUME LockTypeOK, LockNext, Leaked
               PROVE  Leaked' /\ Marked' = {}
    BY DEF lockVars
  <2>1. PICK p \in Proc : Call(p) \/ ReaderStep(p) \/ WriterStep(p)
    BY DEF LockNext
  <2>2. \A q \in Proc : at[q] \notin {"wLoad", "wCas", "tryWLoad", "tryWCas",
                                      "wWait", "writing", "wClear"}
    BY DEF Leaked, Holders
  <2>3. Holders' = {} /\ w'
    <3>1. CASE Call(p)
      BY <3>1, <2>2 DEF Calls, Call, Step, Local, Leaked, Holders, LockTypeOK
    <3>2. CASE ReaderStep(p)
      BY <3>2, <2>2 DEF ReaderStep, ReadLoad, ReadCas, ReadCasFails, TryReadLoad,
                        TryReadCas, DoneRead, Step, Local, Leaked, Holders, LockTypeOK
    <3>3. CASE WriterStep(p)
      <4>1. TryWriteTas(p)
        BY <3>3, <2>2 DEF WriterStep, WriteTas, WriteLoad, WriteCas, WriteCasFails,
                          WriteWait, TryWriteLoad, TryWriteCas, DoneWriteStore,
                          DoneWriteClear, Step, Leaked, TasWins
      <4> QED
        BY <4>1, <2>2 DEF TryWriteTas, TasWins, Step, Local, Leaked, Holders, LockTypeOK
    <3> QED
      BY <2>1, <3>1, <3>2, <3>3
  <2> QED
    BY <2>3 DEF Leaked, Holders, Marked
<1> QED
  BY <1>1, TypeCorrect, PTL DEF LockSpec, LeakIsForever

\* Write, TryWrite, DoneWrite: only a failed TryWrite leaves the flag behind.
THEOREM OneWayToLeak == LockSpec => OnlyTryWriteLeaks
<1> DEFINE Fails == \E p \in Proc : at[p] = "tryWCas" /\ at'[p] = "idle" /\ l # cnt[p]
<1>1. IndInv /\ [LockNext]_lockVars => [Leaked' /\ ~Leaked => Fails]_lockVars
  <2> SUFFICES ASSUME IndInv, LockNext, Leaked', ~Leaked
               PROVE  Fails
    BY DEF lockVars
  <2>1. PICK p \in Proc : Call(p) \/ ReaderStep(p) \/ WriterStep(p)
    BY DEF LockNext
  <2>a. at \in [Proc -> Labels] /\ Holders' = {} /\ w' /\ (Holders = {} => ~w)
    BY DEF Leaked, IndInv, LockTypeOK
  <2>2. ~Call(p)
    BY <2>a DEF Calls, Call, Step, Local, Holders
  <2>3. ~ReaderStep(p)
    BY <2>a DEF ReaderStep, ReadLoad, ReadCas, ReadCasFails, TryReadLoad,
                TryReadCas, DoneRead, Step, Local, Holders
  <2>4. ~(WriteTas(p) \/ TryWriteTas(p))
    <3>1. WriteTas(p) \/ TryWriteTas(p) => p \in Holders' \/ w
      BY <2>a DEF WriteTas, TryWriteTas, TasWins, Step, Local, Holders
    <3>2. TryWriteTas(p) /\ w => Holders' = Holders
      BY <2>a DEF TryWriteTas, TasWins, Step, Local, Holders
    <3> QED
      BY <2>a, <3>1, <3>2 DEF WriteTas, TasWins
  <2>5. ~(WriteLoad(p) \/ WriteCas(p) \/ WriteCasFails(p) \/ WriteWait(p)
          \/ TryWriteLoad(p) \/ DoneWriteStore(p))
    <3>1. \/ WriteLoad(p) \/ WriteCas(p) \/ WriteCasFails(p) \/ WriteWait(p)
          \/ TryWriteLoad(p) \/ DoneWriteStore(p)
          => p \in Holders'
      BY <2>a DEF WriteLoad, WriteCas, WriteCasFails, WriteWait, TryWriteLoad,
                  DoneWriteStore, Step, Local, Holders
    <3> QED
      BY <2>a, <3>1
  <2>6. ~DoneWriteClear(p)
    BY <2>a DEF DoneWriteClear
  <2>7. TryWriteCas(p)
    BY <2>1, <2>2, <2>3, <2>4, <2>5, <2>6 DEF WriterStep
  <2>8. ~CasMatches(p)
    <3>1. TryWriteCas(p) /\ CasMatches(p) => p \in Holders'
      BY <2>a DEF TryWriteCas, Step, Local, Holders
    <3> QED
      BY <2>7, <2>a, <3>1
  <2> QED
    BY <2>7, <2>8, <2>a DEF TryWriteCas, CasMatches, Step, Local
<1> QED
  BY <1>1, IndInvHolds, PTL DEF LockSpec, OnlyTryWriteLeaks


\* Read, Write, TryWrite: the loops wait for one another in no circle.  Readers
\* wait for a marked writer, writers for the owner of the flag, and a marked
\* writer for readers that are inside and do not spin.
THEOREM NoCircle == LockSpec => []StuckOnlyByLeak
<1>1. IndInv => StuckOnlyByLeak
  <2> SUFFICES ASSUME IndInv, NEW p \in Proc, \A q \in Proc : Spins(q)
               PROVE  Leaked
    BY DEF StuckOnlyByLeak
  <2>1. Readers = {}
    BY DEF Spins, Readers
  <2>2. Marked = {}
    <3> SUFFICES ASSUME Marked # {} PROVE FALSE
      OBVIOUS
    <3>1. PICK q \in Proc : at[q] = "wWait"
      BY DEF Marked, Spins
    <3>2. ~Drained(l)
      BY <3>1 DEF Spins
    <3>3. l = -Bit
      BY <2>1, SignBit, ReadersFit DEF IndInv
    <3> QED
      BY <3>2, <3>3, ReadersFit DEF Drained, Unsigned
  <2>3. l >= 0
    BY <2>2, SignBit DEF IndInv
  <2>4. at[p] = "wTas" /\ w
    BY <2>2, <2>3 DEF Spins, Marked, ReaderMayEnter, TasWins
  <2>5. Holders = {}
    BY <2>2 DEF Spins, Holders, Marked
  <2> QED
    BY <2>4, <2>5 DEF Leaked
<1> QED
  BY <1>1, IndInvHolds, PTL

-----------------------------------------------------------------------------
(* Lists of distinct entries: which nodes are neighbours and which stand    *)
(* before which, and what removing and appending an entry does to that.     *)
\* A sequence in which every member of a finite set stands once.
LEMMA OrderIs ==
  ASSUME NEW S, IsFiniteSet(S), NEW s \in SetToSeqs(S)
  PROVE  /\ s \in Seq(S) /\ Len(s) = Cardinality(S) /\ ToSet(s) = S
         /\ \A i, j \in 1 .. Len(s) : s[i] = s[j] => i = j
<1>. DEFINE D == 1 .. Cardinality(S)
<1>1. Cardinality(S) \in Nat
  BY FS_CardinalityType
<1>2. s \in [D -> S] /\ \A i, j \in D : i # j => s[i] # s[j]
  BY DEF SetToSeqs
<1>3. IsFiniteSet(D) /\ Cardinality(D) = Cardinality(S)
  BY <1>1, FS_Interval
<1>. HIDE DEF D
<1>4. s \in Injection(D, S)
  BY <1>2 DEF Injection, IsInjective
<1>5. s \in Surjection(D, S)
  BY <1>3, <1>4, FS_Injection
<1>6. \A x \in S : \E i \in D : s[i] = x
  BY <1>5 DEF Surjection
<1>. QED
  BY <1>1, <1>2, <1>6 DEF D, ToSet

\* The reverse: such a sequence is one of the orders of its members.
LEMMA IsOrder ==
  ASSUME NEW T, NEW s \in Seq(T), \A i, j \in 1 .. Len(s) : s[i] = s[j] => i = j
  PROVE  s \in SetToSeqs(ToSet(s))
<1>. DEFINE S == ToSet(s)
<1>. DEFINE D == 1 .. Len(s)
<1>1. IsFiniteSet(D) /\ Cardinality(D) = Len(s)
  <2>1. ASSUME NEW n \in Nat PROVE IsFiniteSet(1 .. n) /\ Cardinality(1 .. n) = n
    BY FS_Interval
  <2>. QED
    BY <2>1
<1>2. s \in [D -> S]
  BY DEF ToSet
<1>3. s \in Bijection(D, S)
  BY <1>2 DEF Bijection, Injection, Surjection, IsInjective, ToSet
<1>4. Cardinality(S) = Len(s)
  BY <1>1, <1>3, FS_Bijection DEF ExistsBijection
<1>. QED
  BY <1>2, <1>4 DEF SetToSeqs

Simple(s) == s \in Seq(Key) /\ \A i, j \in 1 .. Len(s) : s[i] = s[j] => i = j

Adj(s, a, b)    == \E i \in 0 .. Len(s) : a = At(s, i) /\ b = At(s, i + 1)
Before(s, a, b) == \E i, j \in 0 .. Len(s) + 1 : i < j /\ a = At(s, i) /\ b = At(s, j)

LEMMA AtIs ==
  ASSUME NEW s, Simple(s)
  PROVE  /\ Len(s) \in Nat
         /\ At(s, 0) = Head0 /\ At(s, Len(s) + 1) = Tail0
         /\ \A i \in 1 .. Len(s) : At(s, i) = s[i] /\ s[i] \in Key
         /\ \A i \in 0 .. Len(s) + 1 : At(s, i) \in Node
BY DEF Simple, At, Node

LEMMA AtOnce ==
  ASSUME NEW s, Simple(s), NEW i \in 0 .. Len(s) + 1, NEW j \in 0 .. Len(s) + 1, At(s, i) = At(s, j)
  PROVE  i = j
<1>. USE NodesAssumption
<1>1. Len(s) \in Nat
  BY DEF Simple
<1>2. CASE i \in 1 .. Len(s) /\ j \in 1 .. Len(s)
  BY <1>2, AtIs DEF Simple
<1>3. CASE i = 0
  BY <1>1, <1>3, AtIs
<1>4. CASE i = Len(s) + 1
  BY <1>1, <1>4, AtIs
<1>5. CASE j = 0
  BY <1>1, <1>5, AtIs
<1>6. CASE j = Len(s) + 1
  BY <1>1, <1>6, AtIs
<1>. QED
  BY <1>1, <1>2, <1>3, <1>4, <1>5, <1>6

\* Every node has one neighbour on either side.
LEMMA OneNeighbour ==
  ASSUME NEW s, Simple(s), NEW a, NEW b, NEW c, NEW d, Adj(s, a, b), Adj(s, c, d)
  PROVE  a = c <=> b = d
<1>1. PICK i \in 0 .. Len(s) : a = At(s, i) /\ b = At(s, i + 1)
  BY DEF Adj
<1>2. PICK j \in 0 .. Len(s) : c = At(s, j) /\ d = At(s, j + 1)
  BY DEF Adj
<1>3. Len(s) \in Nat
  BY DEF Simple
<1>. QED
  BY <1>1, <1>2, <1>3, AtOnce

LEMMA Neighbours ==
  ASSUME NEW s, Simple(s)
  PROVE  /\ \A a, b : Adj(s, a, b) => /\ a = Head0 \/ a \in ToSet(s)
                                      /\ b = Tail0 \/ b \in ToSet(s)
                                      /\ Before(s, a, b)
         /\ \E b : Adj(s, Head0, b)
         /\ \E a : Adj(s, a, Tail0)
         /\ \A k \in ToSet(s) : (\E a : Adj(s, a, k)) /\ (\E b : Adj(s, k, b))
<1>1. Len(s) \in Nat /\ ToSet(s) = {s[i] : i \in 1 .. Len(s)}
  BY DEF Simple, ToSet
<1>2. ASSUME NEW a, NEW b, Adj(s, a, b)
      PROVE  (a = Head0 \/ a \in ToSet(s)) /\ (b = Tail0 \/ b \in ToSet(s)) /\ Before(s, a, b)
  <2>1. PICK i \in 0 .. Len(s) : a = At(s, i) /\ b = At(s, i + 1)
    BY <1>2 DEF Adj
  <2>2. a = Head0 \/ a \in ToSet(s)
    BY <1>1, <2>1 DEF At
  <2>3. b = Tail0 \/ b \in ToSet(s)
    BY <1>1, <2>1 DEF At
  <2>4. Before(s, a, b)
    BY <1>1, <2>1 DEF Before
  <2>. QED
    BY <2>2, <2>3, <2>4
<1>3. \E b : Adj(s, Head0, b)
  BY <1>1, AtIs DEF Adj
<1>4. \E a : Adj(s, a, Tail0)
  BY <1>1, AtIs DEF Adj
<1>5. ASSUME NEW k \in ToSet(s)
      PROVE  (\E a : Adj(s, a, k)) /\ (\E b : Adj(s, k, b))
  <2>1. PICK i \in 1 .. Len(s) : k = s[i]
    BY <1>1
  <2>2. k = At(s, i) /\ i \in 0 .. Len(s) /\ i - 1 \in 0 .. Len(s) /\ (i - 1) + 1 = i
    BY <1>1, <2>1, AtIs
  <2>. QED
    BY <2>2 DEF Adj
<1>. QED
  BY <1>2, <1>3, <1>4, <1>5

LEMMA AppendIs ==
  ASSUME NEW s, Simple(s), NEW k \in Key, k \notin ToSet(s)
  PROVE  LET r == Append(s, k) IN
         /\ Simple(r) /\ ToSet(r) = ToSet(s) \cup {k}
         /\ \A a, b : Adj(r, a, b) <=> \/ Adj(s, a, b) /\ b # Tail0
                                       \/ Adj(s, a, Tail0) /\ b = k
                                       \/ a = k /\ b = Tail0
         /\ \A a, b : Before(s, a, b) => Before(r, a, b)
         /\ \A a \in ToSet(s) : Before(r, a, k)
<1>. DEFINE r == Append(s, k)
            n == Len(s)
<1>1. /\ n \in Nat /\ r \in Seq(Key) /\ Len(r) = n + 1 /\ r[n + 1] = k
      /\ \A i \in 1 .. n : r[i] = s[i]
      /\ s \in Seq(Key)
  BY DEF Simple
<1>. HIDE DEF r
<1>2. ToSet(s) = {s[i] : i \in 1 .. n} /\ ToSet(r) = {r[i] : i \in 1 .. n + 1}
  BY <1>1 DEF ToSet
<1>3. Simple(r)
  BY <1>1, <1>2 DEF Simple
<1>4. ToSet(r) = ToSet(s) \cup {k}
  <2>1. ToSet(r) \subseteq ToSet(s) \cup {k}
    BY <1>1, <1>2
  <2>2. ToSet(s) \cup {k} \subseteq ToSet(r)
    BY <1>1, <1>2
  <2>. QED
    BY <2>1, <2>2
<1>5. /\ \A i \in 0 .. n : At(r, i) = At(s, i)
      /\ At(r, n + 1) = k /\ At(r, n + 2) = Tail0
      /\ At(s, n + 1) = Tail0
      /\ \A i \in 0 .. n : At(s, i) # Tail0
  <2>1. \A i \in 0 .. n : At(r, i) = At(s, i)
    BY <1>1 DEF At
  <2>2. At(r, n + 1) = k /\ At(r, n + 2) = Tail0 /\ At(s, n + 1) = Tail0
    BY <1>1 DEF At
  <2>3. \A i \in 0 .. n : At(s, i) # Tail0
    BY <1>1, AtIs, NodesAssumption
  <2>. QED
    BY <2>1, <2>2, <2>3
<1>6. ASSUME NEW a, NEW b
      PROVE  Adj(r, a, b) <=> \/ Adj(s, a, b) /\ b # Tail0
                              \/ Adj(s, a, Tail0) /\ b = k
                              \/ a = k /\ b = Tail0
  <2>1. Adj(r, a, b) <=> \/ \E i \in 0 .. n - 1 : a = At(s, i) /\ b = At(s, i + 1)
                         \/ a = At(s, n) /\ b = k
                         \/ a = k /\ b = Tail0
    <3>1. 0 .. Len(r) = (0 .. n - 1) \cup {n, n + 1}
      BY <1>1
    <3>2. Adj(r, a, b) <=> \/ \E i \in 0 .. n - 1 : a = At(r, i) /\ b = At(r, i + 1)
                           \/ a = At(r, n) /\ b = At(r, n + 1)
                           \/ a = At(r, n + 1) /\ b = At(r, (n + 1) + 1)
      BY <3>1 DEF Adj
    <3>3. \A i \in 0 .. n - 1 : At(r, i) = At(s, i) /\ At(r, i + 1) = At(s, i + 1)
      BY <1>1, <1>5
    <3>4. At(r, n) = At(s, n) /\ (n + 1) + 1 = n + 2
      BY <1>1, <1>5
    <3>. QED
      BY <1>5, <3>2, <3>3, <3>4
  <2>2. Adj(s, a, b) <=> \/ \E i \in 0 .. n - 1 : a = At(s, i) /\ b = At(s, i + 1)
                         \/ a = At(s, n) /\ b = Tail0
    <3>1. 0 .. n = (0 .. n - 1) \cup {n}
      BY <1>1
    <3>. QED
      BY <1>5, <3>1 DEF Adj
  <2>3. Adj(s, a, Tail0) <=> a = At(s, n)
    <3>1. \A i \in 0 .. n : At(s, i + 1) = Tail0 => i = n
      BY <1>1, <1>5
    <3>. QED
      BY <1>1, <1>5, <3>1 DEF Adj
  <2>4. \A i \in 0 .. n - 1 : At(s, i + 1) # Tail0
    BY <1>1, <1>5
  <2>. QED
    BY <2>1, <2>2, <2>3, <2>4
<1>7. ASSUME NEW a, NEW b, Before(s, a, b) PROVE Before(r, a, b)
  <2>1. PICK i \in 0 .. n + 1, j \in 0 .. n + 1 : i < j /\ a = At(s, i) /\ b = At(s, j)
    BY <1>7 DEF Before
  <2>2. i \in 0 .. n /\ a = At(r, i)
    BY <1>1, <1>5, <2>1
  <2>3. CASE j = n + 1
    BY <1>1, <1>5, <2>1, <2>2, <2>3 DEF Before
  <2>4. CASE j \in 0 .. n
    BY <1>1, <1>5, <2>1, <2>2, <2>4 DEF Before
  <2>. QED
    BY <1>1, <2>3, <2>4
<1>8. ASSUME NEW a \in ToSet(s) PROVE Before(r, a, k)
  <2>1. PICK i \in 1 .. n : a = s[i]
    BY <1>2
  <2>2. i \in 0 .. n + 2 /\ n + 1 \in 0 .. n + 2 /\ i < n + 1 /\ a = At(r, i)
    BY <1>1, <1>5, <2>1, AtIs
  <2>. QED
    BY <1>1, <1>5, <2>2 DEF Before
<1>. QED
  BY <1>3, <1>4, <1>6, <1>7, <1>8 DEF r
LEMMA RemoveIs ==
  ASSUME NEW s, Simple(s), NEW k \in ToSet(s)
  PROVE  \E r : /\ Simple(r) /\ ToSet(r) = ToSet(s) \ {k}
                /\ \A a, b : Adj(r, a, b) <=> \/ Adj(s, a, b) /\ a # k /\ b # k
                                              \/ Adj(s, a, k) /\ Adj(s, k, b)
                /\ \A a, b : Before(s, a, b) /\ a # k /\ b # k => Before(r, a, b)
<1>1. PICK p \in 1 .. Len(s) : k = s[p]
  BY DEF Simple, ToSet
<1>. DEFINE n == Len(s)
            Skip(i) == IF i < p THEN i ELSE i + 1
            r == [i \in 1 .. n - 1 |-> s[Skip(i)]]
<1>2. n \in Nat /\ p \in 1 .. n /\ s \in Seq(Key) /\ k = At(s, p)
  BY <1>1, AtIs DEF Simple
<1>3. r \in Seq(Key) /\ Len(r) = n - 1
  <2>1. n - 1 \in Nat
    BY <1>2
  <2>2. \A i \in 1 .. n - 1 : s[Skip(i)] \in Key
    BY <1>2
  <2>3. r \in Seq(Key)
    BY <2>1, <2>2
  <2>. QED
    BY <2>1, <2>3
<1>4. \A i \in 0 .. n : At(r, i) = At(s, Skip(i))
  <2>. SUFFICES ASSUME NEW i \in 0 .. n PROVE At(r, i) = At(s, Skip(i))
    OBVIOUS
  <2>1. CASE i = 0
    BY <1>2, <2>1 DEF At
  <2>2. CASE i \in 1 .. n - 1
    BY <1>2, <1>3, <2>2 DEF At
  <2>3. CASE i = n /\ n # 0
    BY <1>2, <1>3, <2>3 DEF At
  <2>. QED
    BY <1>2, <2>1, <2>2, <2>3
<1>. HIDE DEF r
<1>5. \A i \in 1 .. n - 1 : r[i] = s[Skip(i)] /\ Skip(i) \in 1 .. n
  BY <1>2 DEF r
<1>6. Simple(r)
  <2>1. ASSUME NEW i \in 1 .. n - 1, NEW j \in 1 .. n - 1, r[i] = r[j] PROVE i = j
    <3>1. Skip(i) = Skip(j)
      BY <1>5, <2>1 DEF Simple
    <3>. QED
      BY <1>2, <3>1
  <2>. QED
    BY <1>3, <2>1 DEF Simple
<1>7. ToSet(r) = ToSet(s) \ {k}
  <2>1. ToSet(s) = {s[i] : i \in 1 .. n} /\ ToSet(r) = {r[i] : i \in 1 .. n - 1}
    BY <1>2, <1>3 DEF ToSet
  <2>2. ASSUME NEW i \in 1 .. n - 1 PROVE r[i] \in ToSet(s) \ {k}
    <3>1. Skip(i) # p
      BY <1>2
    <3>. QED
      BY <1>1, <1>2, <1>5, <2>1, <3>1 DEF Simple
  <2>3. ASSUME NEW j \in 1 .. n, s[j] # k PROVE \E i \in 1 .. n - 1 : r[i] = s[j]
    <3>1. CASE j < p
      <4>1. j \in 1 .. n - 1 /\ Skip(j) = j
        BY <1>2, <3>1
      <4>. QED
        BY <1>5, <4>1
    <3>2. CASE j > p
      <4>1. j - 1 \in 1 .. n - 1 /\ Skip(j - 1) = j
        BY <1>2, <3>2
      <4>. QED
        BY <1>5, <4>1
    <3>3. j # p
      BY <1>1, <2>3
    <3>4. j \in Nat /\ p \in Nat
      BY <1>2
    <3>. QED
      BY <3>1, <3>2, <3>3, <3>4
  <2>4. ToSet(r) \subseteq ToSet(s) \ {k}
    BY <2>1, <2>2
  <2>5. ToSet(s) \ {k} \subseteq ToSet(r)
    BY <2>1, <2>3
  <2>. QED
    BY <2>4, <2>5
<1>8. ASSUME NEW a, NEW b
      PROVE  Adj(r, a, b) <=> \/ Adj(s, a, b) /\ a # k /\ b # k
                              \/ Adj(s, a, k) /\ Adj(s, k, b)
  <2>1. Adj(r, a, b) <=> \E i \in 0 .. n - 1 : a = At(s, Skip(i)) /\ b = At(s, Skip(i + 1))
    BY <1>2, <1>3, <1>4 DEF Adj
  <2>2. ASSUME NEW i \in 0 .. n - 1, a = At(s, Skip(i)), b = At(s, Skip(i + 1))
        PROVE  \/ Adj(s, a, b) /\ a # k /\ b # k
               \/ Adj(s, a, k) /\ Adj(s, k, b)
    <3>1. CASE i = p - 1
      <4>1. Skip(i) = p - 1 /\ Skip(i + 1) = p + 1 /\ p - 1 \in 0 .. n /\ p \in 0 .. n /\ (p - 1) + 1 = p
        BY <1>2, <3>1
      <4>2. Adj(s, a, k) /\ Adj(s, k, b)
        BY <1>2, <2>2, <4>1 DEF Adj
      <4>. QED
        BY <4>2
    <3>2. CASE i # p - 1
      <4>1. Skip(i + 1) = Skip(i) + 1 /\ Skip(i) # p /\ Skip(i) + 1 # p /\ Skip(i) \in 0 .. n
        BY <1>2, <3>2
      <4>2. Adj(s, a, b)
        BY <2>2, <4>1 DEF Adj
      <4>3. a # k /\ b # k
        <5>1. Skip(i) \in 0 .. n + 1 /\ Skip(i) + 1 \in 0 .. n + 1 /\ p \in 0 .. n + 1
          BY <1>2, <4>1
        <5>. QED
          BY <1>2, <2>2, <4>1, <5>1, AtOnce
      <4>. QED
        BY <4>2, <4>3
    <3>. QED
      BY <3>1, <3>2
  <2>3. ASSUME Adj(s, a, b), a # k, b # k
        PROVE  \E i \in 0 .. n - 1 : a = At(s, Skip(i)) /\ b = At(s, Skip(i + 1))
    <3>1. PICK j \in 0 .. n : a = At(s, j) /\ b = At(s, j + 1)
      BY <2>3 DEF Adj
    <3>2. j # p /\ j + 1 # p
      BY <1>2, <2>3, <3>1
    <3>3. CASE j < p
      <4>1. j \in 0 .. n - 1 /\ Skip(j) = j /\ Skip(j + 1) = j + 1
        BY <1>2, <3>2, <3>3
      <4>. QED
        BY <3>1, <4>1
    <3>4. CASE j > p
      <4>1. j - 1 \in 0 .. n - 1 /\ Skip(j - 1) = j /\ Skip((j - 1) + 1) = j + 1
        BY <1>2, <3>4
      <4>. QED
        BY <3>1, <4>1
    <3>. QED
      BY <1>2, <3>2, <3>3, <3>4
  <2>4. ASSUME Adj(s, a, k), Adj(s, k, b)
        PROVE  \E i \in 0 .. n - 1 : a = At(s, Skip(i)) /\ b = At(s, Skip(i + 1))
    <3>1. Adj(s, At(s, p - 1), k) /\ Adj(s, k, At(s, p + 1))
      <4>1. p - 1 \in 0 .. n /\ (p - 1) + 1 = p /\ p \in 0 .. n
        BY <1>2
      <4>. QED
        BY <1>2, <4>1 DEF Adj
    <3>2. a = At(s, p - 1) /\ b = At(s, p + 1)
      BY <2>4, <3>1, OneNeighbour
    <3>3. p - 1 \in 0 .. n - 1 /\ Skip(p - 1) = p - 1 /\ Skip((p - 1) + 1) = p + 1
      BY <1>2
    <3>. QED
      BY <3>2, <3>3
  <2>. QED
    BY <2>1, <2>2, <2>3, <2>4
<1>9. ASSUME NEW a, NEW b, Before(s, a, b), a # k, b # k PROVE Before(r, a, b)
  <2>1. PICK i \in 0 .. n + 1, j \in 0 .. n + 1 : i < j /\ a = At(s, i) /\ b = At(s, j)
    BY <1>9 DEF Before
  <2>2. i # p /\ j # p
    BY <1>2, <1>9, <2>1
  <2>. DEFINE Back(m) == IF m < p THEN m ELSE m - 1
  <2>3. /\ Back(i) \in 0 .. n /\ Back(j) \in 0 .. n /\ Back(i) < Back(j)
        /\ Skip(Back(i)) = i /\ Skip(Back(j)) = j
    BY <1>2, <2>1, <2>2
  <2>4. a = At(r, Back(i)) /\ b = At(r, Back(j))
    BY <1>4, <2>1, <2>3
  <2>. QED
    BY <1>2, <1>3, <2>3, <2>4 DEF Before
<1>. QED
  BY <1>6, <1>7, <1>8, <1>9
-----------------------------------------------------------------------------
(* The list of the timed cache: the invariant                               *)

\* Only Put changes the map, so a Get's node stays in it.
Keys == IsFiniteSet(map) /\ \A t \in Inside : key[t] \in map

\* Every link that is followed leads to a node.
LinkTypes ==
    /\ Keys
    /\ \A n \in map \cup {Head0} : next[n] \in Node
    /\ \A n \in map \cup {Tail0} : pred[n] \in Node
    /\ \A t \in Inside : pc[t] # "aimNext" => aim[t] \in Node

\* The nodes that are off the list: taken out and not yet linked again.
Moving == {"unlinkNext", "test", "takeTail", "takeSelf", "aimLast", "takeLast",
           "append", "swing", "point", "link"}
Off    == {key[t] : t \in {u \in Thread : pc[u] \in Moving}}

\* The locks of thread t
Holds(t, n) ==
    \/ pc[t] = "takeNode" /\ n = aim[t]
    \/ pc[t] \in {"aimPred", "takePred", "unlink", "unlinkNext"} /\ n \in {next[key[t]], key[t]}
    \/ pc[t] \in {"unlink", "unlinkNext", "swing", "point", "link"} /\ n = pred[key[t]]
    \/ pc[t] \in {"takeSelf", "aimLast", "takeLast", "append", "swing", "point", "link"} /\ n = Tail0
    \/ pc[t] \in {"aimLast", "takeLast", "append", "swing", "point", "link"} /\ n = key[t]
    \/ pc[t] = "append" /\ n = pred[Tail0]

\* Thread t has yet to store the link of b back to a.
Pending(t, a, b) == /\ \/ pc[t] = "unlinkNext" /\ next[key[t]] = b
                       \/ pc[t] \in {"point", "link"} /\ b = Tail0
                    /\ pred[key[t]] = a

Distinct == \A t, u \in Inside : key[t] = key[u] => t = u
Locking  == \A t \in Thread, n \in Node : owner[n] = t <=> Holds(t, n)
Aimed    == \A t \in Thread : /\ pc[t] = "takePred" => aim[t] = pred[key[t]]
                              /\ pc[t] = "takeLast" => aim[t] = pred[Tail0]

\* The entries s are linked in this order.
Forward(s)  == \A a, b \in Node : Adj(s, a, b) => next[a] = b
Backward(s) == \A a, b \in Node : Adj(s, a, b) => pred[b] = a \/ \E t \in Thread : Pending(t, a, b)
Cuts(s)     == \A t \in Thread : pc[t] = "unlinkNext" =>
                  Adj(s, pred[key[t]], next[key[t]]) /\ pred[next[key[t]]] = key[t]
Ends(s)     == \A t \in Thread :
                  /\ pc[t] \in {"swing", "point", "link"} => Adj(s, pred[key[t]], Tail0)
                  /\ pc[t] \in {"point", "link"} => pred[Tail0] = key[t]
                  /\ pc[t] = "link" => next[key[t]] = Tail0
Ahead(s)    == \A t \in Thread : pc[t] \in {"takeNext", "takeNode"} =>
                  aim[t] \in Off \/ Before(s, key[t], aim[t])

Listed(s) == /\ Simple(s) /\ ToSet(s) = map \ Off
             /\ Forward(s) /\ Backward(s) /\ Cuts(s) /\ Ends(s) /\ Ahead(s)

Sound(s) == Distinct /\ Locking /\ Aimed /\ Listed(s)

ListInv == /\ TypeOK /\ Keys
           /\ hazard = {} => ~lost /\ LinkTypes /\ \E s \in Seq(Key) : Sound(s)

LEMMA ListTypesInit == Init => TypeOK /\ LinkTypes
<1>1. Init => lost \in BOOLEAN
  BY DEF Init
<1>. QED
  BY <1>1, NodesAssumption, NullAssumption, BoundsAssumption, FS_EmptySet
     DEF Init, TypeOK, LinkTypes, Keys, Node, Inside

LEMMA GetTypes ==
  ASSUME TypeOK, Keys, NEW t \in Thread, GetFind(t) \/ GetStep(t)
  PROVE  TypeOK' /\ Keys'
<1>. USE NodesAssumption, NullAssumption, BoundsAssumption DEF TypeOK, Keys, Inside, Goto, list
<1>n. Key \subseteq Node /\ {Head0, Tail0} \subseteq Node /\ Null \notin Thread
  BY DEF Node
<1>p. {"idle", "stamp"} \cup Unlinking \cup Appending
        = {"idle", "stamp", "aimNext", "takeNext", "takeNode", "aimPred", "takePred", "unlink", "unlinkNext",
           "test", "takeTail", "takeSelf", "aimLast", "takeLast", "append", "swing", "point", "link"}
  BY DEF Unlinking, Appending
<1>l. lost' = lost /\ lost' \in BOOLEAN
  BY DEF GetFind, GetStep, AimNext, TakeNext, TakeNode, AimPred, TakePred, UnlinkPred, UnlinkNext,
         Test, TakeTail, TakeSelf, AimLast, TakeLast, SetPred, SwingTail, SetNext, LinkLast, Stamp,
         Locks, Aims, Stores
<1>1. CASE GetFind(t)
  <2>1. PICK k \in map : /\ key' = [key EXCEPT ![t] = k]
                         /\ hazard' = hazard \cup {h \in {"shared"} : \E u \in Inside : key[u] = k}
    BY <1>1 DEF GetFind
  <2>2. k \in Key /\ pc' = [pc EXCEPT ![t] = "aimNext"] /\ UNCHANGED <<now, list, owner, aim, lost>>
    BY <1>1 DEF GetFind
  <2>3. hazard' \subseteq Hazards
    BY <2>1 DEF Hazards
  <2>. QED
    BY <1>l, <1>p, <2>1, <2>2, <2>3
<1>2. CASE TakeNext(t) \/ TakePred(t) \/ TakeTail(t) \/ TakeSelf(t) \/ TakeLast(t) \/ TakeNode(t)
  <2>1. /\ pc' \in [Thread -> {"idle", "stamp"} \cup Unlinking \cup Appending]
        /\ \A u \in Thread : pc'[u] # "idle" => pc[u] # "idle"
    BY <1>2, <1>p DEF TakeNext, TakePred, TakeTail, TakeSelf, TakeLast, TakeNode, Locks
  <2>2. owner' \in [Node -> Thread \cup {Null}]
    BY <1>2 DEF TakeNext, TakePred, TakeTail, TakeSelf, TakeLast, TakeNode, Locks, Take
  <2>3. UNCHANGED <<now, size, map, next, pred, expire, key, aim>> /\ hazard' \subseteq Hazards
    BY <1>2 DEF TakeNext, TakePred, TakeTail, TakeSelf, TakeLast, TakeNode, Locks, Hazards
  <2>. QED
    BY <1>l, <2>1, <2>2, <2>3
<1>3. CASE AimNext(t) \/ AimPred(t) \/ AimLast(t) \/ Test(t)
  BY <1>3, <1>n, <1>l, <1>p DEF AimNext, AimPred, AimLast, Aims, Test
<1>4. CASE UnlinkPred(t) \/ UnlinkNext(t)
  BY <1>4, <1>n, <1>l, <1>p DEF UnlinkPred, UnlinkNext, Release
<1>5. CASE SetPred(t) \/ SwingTail(t) \/ SetNext(t) \/ LinkLast(t)
  BY <1>5, <1>n, <1>l, <1>p DEF SetPred, SwingTail, SetNext, LinkLast, Stores, Release
<1>6. CASE Stamp(t)
  BY <1>6, <1>n, <1>l, <1>p DEF Stamp
<1>. QED
  BY <1>1, <1>2, <1>3, <1>4, <1>5, <1>6 DEF GetStep

\* The steps of a Get keep the types and the map, whatever the links, and
\* follow links to nodes when all of them lead to nodes.
LEMMA GetLinks ==
  ASSUME TypeOK, LinkTypes, NEW t \in Thread, GetFind(t) \/ GetStep(t)
  PROVE  TypeOK' /\ LinkTypes'
<1>. USE NodesAssumption, NullAssumption, BoundsAssumption DEF TypeOK, LinkTypes, Keys, Inside, Goto, list
<1>n. Key \subseteq Node /\ {Head0, Tail0} \subseteq Node /\ Null \notin Thread
  BY DEF Node
<1>p. {"idle", "stamp"} \cup Unlinking \cup Appending
        = {"idle", "stamp", "aimNext", "takeNext", "takeNode", "aimPred", "takePred", "unlink", "unlinkNext",
           "test", "takeTail", "takeSelf", "aimLast", "takeLast", "append", "swing", "point", "link"}
  BY DEF Unlinking, Appending
<1>l. lost' = lost /\ lost' \in BOOLEAN
  BY DEF GetFind, GetStep, AimNext, TakeNext, TakeNode, AimPred, TakePred, UnlinkPred, UnlinkNext,
         Test, TakeTail, TakeSelf, AimLast, TakeLast, SetPred, SwingTail, SetNext, LinkLast, Stamp,
         Locks, Aims, Stores
<1>1. CASE GetFind(t)
  <2>1. PICK k \in map : /\ key' = [key EXCEPT ![t] = k]
                         /\ hazard' = hazard \cup {h \in {"shared"} : \E u \in Inside : key[u] = k}
    BY <1>1 DEF GetFind
  <2>2. k \in Key /\ pc' = [pc EXCEPT ![t] = "aimNext"] /\ UNCHANGED <<now, list, owner, aim>>
    BY <1>1 DEF GetFind
  <2>3. hazard' \subseteq Hazards
    BY <2>1 DEF Hazards
  <2>4. TypeOK'
    BY <1>l, <1>p, <2>1, <2>2, <2>3
  <2>. QED
    BY <1>n, <2>1, <2>2, <2>4
<1>2. ASSUME NEW from, NEW n, NEW to, Locks(t, from, n, to), pc[t] \notin {"idle", "aimNext"},
             to \in {"takeNode", "unlink", "takeSelf", "aimLast", "append"}
      PROVE  TypeOK' /\ LinkTypes'
  BY <1>2, <1>n, <1>l, <1>p DEF Locks, Take
<1>3. ASSUME NEW from, NEW n \in Node, NEW to, Aims(t, from, n, to), pc[t] # "idle",
             to \in {"takeNext", "takePred", "takeLast"}
      PROVE  TypeOK' /\ LinkTypes'
  BY <1>3, <1>n, <1>l, <1>p DEF Aims
<1>4. ASSUME pc[t] \notin {"idle", "aimNext"},
             \E to \in {"swing", "point", "link", "stamp"} : pc' = [pc EXCEPT ![t] = to],
             UNCHANGED <<now, size, map, expire, key, aim, hazard>>, owner' = owner \/ Release(t),
             next' \in [Node -> Node \cup {Null}], \A m \in map \cup {Head0} : next'[m] \in Node,
             pred' \in [Node -> Node \cup {Null}], \A m \in map \cup {Tail0} : pred'[m] \in Node
      PROVE  TypeOK' /\ LinkTypes'
  BY <1>4, <1>n, <1>l, <1>p DEF Release
<1>5. CASE AimNext(t)
  <2>1. next[key[t]] \in Node
    BY <1>5 DEF AimNext, Aims
  <2>. QED
    BY <1>3, <1>5, <2>1 DEF AimNext, Aims
<1>6. CASE TakeNext(t)
  BY <1>2, <1>6 DEF TakeNext, Locks
<1>7. CASE TakeNode(t)
  BY <1>7, <1>n, <1>l, <1>p DEF TakeNode, Take, Hazards
<1>8. CASE AimPred(t)
  <2>1. pred[key[t]] \in Node
    BY <1>8 DEF AimPred, Aims
  <2>. QED
    BY <1>3, <1>8, <2>1 DEF AimPred, Aims
<1>9. CASE TakePred(t)
  BY <1>2, <1>9 DEF TakePred, Locks
<1>10. CASE UnlinkPred(t)
  <2>1. next[key[t]] \in Node
    BY <1>10 DEF UnlinkPred
  <2>. QED
    BY <1>10, <1>n, <1>l, <1>p, <2>1 DEF UnlinkPred
<1>11. CASE UnlinkNext(t)
  <2>1. pred[key[t]] \in Node
    BY <1>11 DEF UnlinkNext
  <2>. QED
    BY <1>11, <1>n, <1>l, <1>p, <2>1 DEF UnlinkNext, Release
<1>12. CASE Test(t)
  BY <1>12, <1>n, <1>l, <1>p DEF Test
<1>13. CASE TakeTail(t)
  BY <1>2, <1>13 DEF TakeTail, Locks
<1>14. CASE TakeSelf(t)
  BY <1>2, <1>14 DEF TakeSelf, Locks
<1>15. CASE AimLast(t)
  <2>1. pred[Tail0] \in Node
    OBVIOUS
  <2>. QED
    BY <1>3, <1>15, <2>1 DEF AimLast, Aims
<1>16. CASE TakeLast(t)
  BY <1>2, <1>16 DEF TakeLast, Locks
<1>17. CASE SetPred(t) \/ SwingTail(t) \/ SetNext(t) \/ LinkLast(t)
  <2>1. pc[t] \notin {"idle", "aimNext"} /\ key[t] \in Node /\ key[t] \in map
    BY <1>17, <1>n DEF SetPred, SwingTail, SetNext, LinkLast, Stores
  <2>a. /\ next \in [Node -> Node \cup {Null}] /\ \A m \in map \cup {Head0} : next[m] \in Node
        /\ pred \in [Node -> Node \cup {Null}] /\ \A m \in map \cup {Tail0} : pred[m] \in Node
    OBVIOUS
  <2>b. ASSUME NEW m \in Node, NEW n \in Node
        PROVE  /\ [next EXCEPT ![m] = n] \in [Node -> Node \cup {Null}]
               /\ \A x \in map \cup {Head0} : [next EXCEPT ![m] = n][x] \in Node
               /\ [pred EXCEPT ![m] = n] \in [Node -> Node \cup {Null}]
               /\ \A x \in map \cup {Tail0} : [pred EXCEPT ![m] = n][x] \in Node
    BY <1>n
  <2>c. pred[Tail0] \in Node /\ pred[key[t]] \in Node
    BY <2>1
  <2>2. /\ \E to \in {"swing", "point", "link", "stamp"} : pc' = [pc EXCEPT ![t] = to]
        /\ UNCHANGED <<now, size, map, expire, key, aim, hazard>> /\ (owner' = owner \/ Release(t))
    BY <1>17 DEF SetPred, SwingTail, SetNext, LinkLast, Stores
  <2>3. CASE SetPred(t)
    <3>1. next' = next /\ pred' = [pred EXCEPT ![key[t]] = pred[Tail0]]
      BY <2>3 DEF SetPred, Stores
    <3>2. /\ next' \in [Node -> Node \cup {Null}] /\ \A m \in map \cup {Head0} : next'[m] \in Node
          /\ pred' \in [Node -> Node \cup {Null}] /\ \A m \in map \cup {Tail0} : pred'[m] \in Node
      BY <2>1, <2>a, <2>b, <2>c, <3>1
    <3>. QED
      BY <1>4, <2>1, <2>2, <3>2
  <2>4. CASE SwingTail(t)
    <3>1. next' = next /\ pred' = [pred EXCEPT ![Tail0] = key[t]]
      BY <2>4 DEF SwingTail, Stores
    <3>2. /\ next' \in [Node -> Node \cup {Null}] /\ \A m \in map \cup {Head0} : next'[m] \in Node
          /\ pred' \in [Node -> Node \cup {Null}] /\ \A m \in map \cup {Tail0} : pred'[m] \in Node
      BY <1>n, <2>1, <2>a, <2>b, <3>1
    <3>. QED
      BY <1>4, <2>1, <2>2, <3>2
  <2>5. CASE SetNext(t)
    <3>1. next' = [next EXCEPT ![key[t]] = Tail0] /\ pred' = pred
      BY <2>5 DEF SetNext, Stores
    <3>2. /\ next' \in [Node -> Node \cup {Null}] /\ \A m \in map \cup {Head0} : next'[m] \in Node
          /\ pred' \in [Node -> Node \cup {Null}] /\ \A m \in map \cup {Tail0} : pred'[m] \in Node
      BY <1>n, <2>1, <2>a, <2>b, <3>1
    <3>. QED
      BY <1>4, <2>1, <2>2, <3>2
  <2>6. CASE LinkLast(t)
    <3>1. next' = [next EXCEPT ![pred[key[t]]] = key[t]] /\ pred' = pred
      BY <2>6 DEF LinkLast, Stores
    <3>2. /\ next' \in [Node -> Node \cup {Null}] /\ \A m \in map \cup {Head0} : next'[m] \in Node
          /\ pred' \in [Node -> Node \cup {Null}] /\ \A m \in map \cup {Tail0} : pred'[m] \in Node
      BY <1>n, <2>1, <2>a, <2>b, <2>c, <3>1
    <3>. QED
      BY <1>4, <2>1, <2>2, <3>2
  <2>. QED
    BY <1>17, <2>3, <2>4, <2>5, <2>6
<1>18. CASE Stamp(t)
  BY <1>18, <1>n, <1>l, <1>p DEF Stamp
<1>. QED
  BY <1>1, <1>5, <1>6, <1>7, <1>8, <1>9, <1>10, <1>11, <1>12, <1>13, <1>14, <1>15, <1>16, <1>17, <1>18
     DEF GetStep

\* The rest of a list without its first m entries.
LEMMA RestIs ==
  ASSUME NEW s, Simple(s), NEW m \in 0 .. Len(s)
  PROVE  LET r == SubSeq(s, m + 1, Len(s)) IN
         /\ Simple(r) /\ ToSet(r) = ToSet(s) \ {s[i] : i \in 1 .. m}
         /\ Len(r) = Len(s) - m /\ \A i \in 1 .. Len(r) + 1 : At(r, i) = At(s, m + i)
<1>. DEFINE r == SubSeq(s, m + 1, Len(s))
<1>1. Len(s) \in Nat /\ m \in Nat /\ s \in Seq(Key)
  BY DEF Simple
<1>2. r \in Seq(Key) /\ Len(r) = Len(s) - m /\ \A i \in 1 .. Len(s) - m : r[i] = s[m + i]
  BY <1>1
<1>. HIDE DEF r
<1>3. Simple(r)
  <2>1. ASSUME NEW i \in 1 .. Len(r), NEW j \in 1 .. Len(r), r[i] = r[j] PROVE i = j
    <3>1. m + i \in 1 .. Len(s) /\ m + j \in 1 .. Len(s) /\ s[m + i] = s[m + j]
      BY <1>1, <1>2, <2>1
    <3>2. m + i = m + j
      BY <3>1 DEF Simple
    <3>. QED
      BY <1>1, <1>2, <3>2
  <2>. QED
    BY <1>2, <2>1 DEF Simple
<1>4. ToSet(s) = {s[i] : i \in 1 .. Len(s)} /\ ToSet(r) = {r[i] : i \in 1 .. Len(s) - m}
  <2>1. DOMAIN s = 1 .. Len(s) /\ DOMAIN r = 1 .. Len(s) - m
    BY <1>1, <1>2
  <2>. QED
    BY <2>1 DEF ToSet
<1>5. ToSet(r) \subseteq ToSet(s) \ {s[i] : i \in 1 .. m}
  <2>. SUFFICES ASSUME NEW i \in 1 .. Len(s) - m
                PROVE  r[i] \in ToSet(s) /\ \A j \in 1 .. m : r[i] # s[j]
    BY <1>4
  <2>1. m + i \in 1 .. Len(s) /\ r[i] = s[m + i]
    BY <1>1, <1>2
  <2>2. ASSUME NEW j \in 1 .. m PROVE s[m + i] # s[j]
    <3>1. j \in 1 .. Len(s) /\ m + i # j
      BY <1>1
    <3>. QED
      BY <2>1, <3>1 DEF Simple
  <2>. QED
    BY <1>4, <2>1, <2>2
<1>6. ToSet(s) \ {s[i] : i \in 1 .. m} \subseteq ToSet(r)
  <2>. SUFFICES ASSUME NEW j \in 1 .. Len(s), \A i \in 1 .. m : s[i] # s[j]
                PROVE  s[j] \in ToSet(r)
    BY <1>4
  <2>1. j - m \in 1 .. Len(s) - m /\ m + (j - m) = j
    BY <1>1
  <2>. QED
    BY <1>2, <1>4, <2>1
<1>7. ASSUME NEW i \in 1 .. Len(r) + 1 PROVE At(r, i) = At(s, m + i)
  <2>1. CASE i \in 1 .. Len(r)
    BY <1>1, <1>2, <2>1 DEF At
  <2>2. CASE i = Len(r) + 1
    BY <1>1, <1>2, <2>2 DEF At
  <2>. QED
    BY <1>1, <1>2, <2>1, <2>2
<1>. QED
  BY <1>2, <1>3, <1>5, <1>6, <1>7 DEF r

\* Between two calls the list is one.
LEMMA AtRest ==
  ASSUME TypeOK, Inside = {}, NEW s \in Seq(Key), Sound(s)
  PROVE  Simple(s) /\ ToSet(s) = map /\ Lists(s)
<1>1. \A t \in Thread : pc[t] = "idle"
  BY DEF Inside
<1>2. Off = {}
  BY <1>1 DEF Off, Moving
<1>3. Simple(s) /\ ToSet(s) = map /\ Forward(s) /\ Backward(s)
  BY <1>2 DEF Sound, Listed
<1>4. ASSUME NEW i \in 0 .. Len(s)
      PROVE  next[At(s, i)] = At(s, i + 1) /\ pred[At(s, i + 1)] = At(s, i)
  <2>1. Adj(s, At(s, i), At(s, i + 1)) /\ At(s, i) \in Node /\ At(s, i + 1) \in Node
    BY <1>3, AtIs DEF Adj
  <2>2. \A t \in Thread : \A a, b : ~Pending(t, a, b)
    BY <1>1 DEF Pending
  <2>. QED
    BY <1>3, <2>1, <2>2 DEF Forward, Backward
<1>. QED
  BY <1>3, <1>4 DEF Lists

\* The links f and g go through the entries r in both directions.
Through(r, f, g) == \A i \in 0 .. Len(r) : f[At(r, i)] = At(r, i + 1) /\ g[At(r, i + 1)] = At(r, i)

\* PutTail puts a new node at the end of a list.
LEMMA TailIs ==
  ASSUME TypeOK, NEW s, Simple(s), Lists(s), NEW k \in Key, k \notin ToSet(s)
  PROVE  Through(Append(s, k), NextAfterTail(k), PredAfterTail(k))
<1>. DEFINE a == Append(s, k)
            n == Len(s)
<1>1. n \in Nat /\ s \in Seq(Key) /\ pred[Tail0] = At(s, n)
  <2>1. n \in Nat /\ s \in Seq(Key)
    BY DEF Simple
  <2>2. At(s, n + 1) = Tail0
    BY <2>1 DEF At
  <2>. QED
    BY <2>1, <2>2 DEF Lists
<1>2. Len(a) = n + 1 /\ \A i \in 0 .. n : At(a, i) = At(s, i)
  BY <1>1 DEF At
<1>3. At(a, n + 1) = k /\ At(a, n + 2) = Tail0
  BY <1>1 DEF At
<1>4. \A i \in 0 .. n : At(s, i) # k /\ At(s, i) # Tail0 /\ At(s, i) \in Node
  BY <1>1, AtIs, NodesAssumption DEF ToSet
<1>5. k \in Node /\ Tail0 \in Node /\ k # Tail0
  BY NodesAssumption DEF Node
<1>6. /\ \A x \in Node : NextAfterTail(k)[x] = IF x = At(s, n) THEN k ELSE IF x = k THEN Tail0 ELSE next[x]
      /\ \A x \in Node : PredAfterTail(k)[x] = IF x = Tail0 THEN k ELSE IF x = k THEN At(s, n) ELSE pred[x]
  BY <1>1, <1>4, <1>5 DEF NextAfterTail, PredAfterTail, TypeOK
<1>7. \A i \in 0 .. n - 1 : At(s, i) # At(s, n)
  BY <1>1, AtOnce
<1>. HIDE DEF a
<1>8. ASSUME NEW i \in 0 .. n - 1
      PROVE  NextAfterTail(k)[At(a, i)] = At(a, i + 1) /\ PredAfterTail(k)[At(a, i + 1)] = At(a, i)
  <2>1. i \in 0 .. n /\ i + 1 \in 0 .. n /\ next[At(s, i)] = At(s, i + 1) /\ pred[At(s, i + 1)] = At(s, i)
    BY <1>1 DEF Lists
  <2>. QED
    BY <1>2, <1>4, <1>6, <1>7, <2>1
<1>9. NextAfterTail(k)[At(a, n)] = At(a, n + 1) /\ PredAfterTail(k)[At(a, n + 1)] = At(a, n)
  BY <1>1, <1>2, <1>3, <1>4, <1>5, <1>6
<1>10. NextAfterTail(k)[At(a, n + 1)] = At(a, n + 2) /\ PredAfterTail(k)[At(a, n + 2)] = At(a, n + 1)
  <2>1. k # At(s, n)
    BY <1>1, <1>4
  <2>. QED
    BY <1>3, <1>5, <1>6, <2>1
<1>. QED
  <2>. SUFFICES ASSUME NEW i \in 0 .. Len(a)
                PROVE  NextAfterTail(k)[At(a, i)] = At(a, i + 1) /\ PredAfterTail(k)[At(a, i + 1)] = At(a, i)
    BY DEF Through, a
  <2>1. i \in 0 .. n - 1 \/ i = n \/ i = n + 1
    BY <1>1, <1>2
  <2>2. (n + 1) + 1 = n + 2
    BY <1>1
  <2>. QED
    BY <1>8, <1>9, <1>10, <2>1, <2>2

\* On a list PopHead comes over its first entries, one at least, and stops at
\* the entry after them or at tail_.
LEMMA WalkIs ==
  ASSUME NEW a, Simple(a), a # <<>>, NEW k, Through(a, NextAfterTail(k), PredAfterTail(k)),
         NEW over \in SUBSET Key, NEW gone \in Seq(Key), NEW end, Walk(k, gone, end, over)
  PROVE  /\ Len(gone) \in 1 .. Len(a) /\ end = At(a, Len(gone) + 1)
         /\ Erased(gone, end) = {a[i] : i \in 1 .. Len(gone)}
<1>. DEFINE m == Len(gone)
            N == NextAfterTail(k)
            Astray == {i \in 1 .. m : ~(i <= Len(a) /\ gone[i] = At(a, i))}
<1>1. m \in Nat \ {0} /\ Len(a) \in Nat \ {0}
  BY DEF Walk, Simple
<1>2. /\ N[Head0] = gone[1]
      /\ \A i \in 1 .. m : N[gone[i]] = IF i = m THEN end ELSE gone[i + 1]
      /\ \A i \in 1 .. m : i > 1 => gone[i] \in over
  BY DEF Walk
<1>3. \A i \in 0 .. Len(a) : N[At(a, i)] = At(a, i + 1)
  BY DEF Through
<1>. HIDE DEF N
<1>4. \A i \in 1 .. m : i <= Len(a) /\ gone[i] = At(a, i)
  <2>. SUFFICES ASSUME Astray # {} PROVE FALSE
    OBVIOUS
  <2>1. Astray \in SUBSET Nat
    OBVIOUS
  <2>2. PICK j \in Astray : \A i \in Astray : j <= i
    <3>. HIDE DEF Astray
    <3>. QED
      BY <2>1, Least
  <2>3. j # 1
    <3>1. gone[1] = At(a, 1) /\ 1 <= Len(a)
      <4>1. At(a, 0) = Head0
        BY DEF At
      <4>2. 0 \in 0 .. Len(a) /\ 0 + 1 = 1
        BY <1>1
      <4>. QED
        BY <1>1, <1>2, <1>3, <4>1, <4>2
    <3>. QED
      BY <2>2, <3>1
  <2>4. j \in 2 .. m /\ j - 1 \in 1 .. m /\ j - 1 # m /\ (j - 1) + 1 = j
    BY <1>1, <2>2, <2>3
  <2>5. j - 1 <= Len(a) /\ gone[j - 1] = At(a, j - 1)
    BY <2>2, <2>4
  <2>6. j - 1 \in 0 .. Len(a)
    BY <1>1, <2>4, <2>5
  <2>7. gone[j] = At(a, j)
    BY <1>2, <1>3, <2>4, <2>5, <2>6
  <2>8. gone[j] \in Key
    BY <2>4
  <2>9. j <= Len(a)
    <3>1. j = Len(a) + 1 => At(a, j) = Tail0
      BY AtIs
    <3>. QED
      BY <1>1, <2>4, <2>6, <2>7, <2>8, <3>1, NodesAssumption
  <2>. QED
    BY <2>2, <2>7, <2>9
<1>5. m \in 1 .. Len(a)
  <2>1. m <= Len(a)
    BY <1>1, <1>4
  <2>. QED
    BY <1>1, <2>1
<1>6. end = At(a, m + 1)
  <2>1. m \in 1 .. m /\ m \in 0 .. Len(a)
    BY <1>1, <1>5
  <2>. QED
    BY <1>2, <1>3, <1>4, <2>1
<1>7. end # gone[1]
  <2>1. m + 1 \in 0 .. Len(a) + 1 /\ 1 \in 0 .. Len(a) + 1 /\ m + 1 # 1 /\ 1 \in 1 .. m
    BY <1>1, <1>5
  <2>. QED
    BY <1>4, <1>6, <2>1, AtOnce
<1>8. ToSet(gone) = {a[i] : i \in 1 .. m}
  <2>1. \A i \in 1 .. m : gone[i] = a[i]
    <3>1. \A i \in 1 .. m : i \in 1 .. Len(a)
      BY <1>1, <1>5
    <3>. QED
      BY <1>4, <3>1, AtIs
  <2>. QED
    BY <2>1 DEF ToSet
<1>. QED
  BY <1>5, <1>6, <1>7, <1>8 DEF Erased

\* On a list PopHead comes to an end.
LEMMA WalkEnds ==
  ASSUME NEW a, Simple(a), a # <<>>, NEW k, Through(a, NextAfterTail(k), PredAfterTail(k)),
         NEW over \in SUBSET Key
  PROVE  \E gone \in Walks(ToSet(a)), end \in Node : Walk(k, gone, end, over)
<1>. DEFINE Stops == {i \in 2 .. Len(a) + 1 : At(a, i) \notin over}
            N == NextAfterTail(k)
<1>1. Len(a) \in Nat \ {0} /\ a \in Seq(Key)
  BY DEF Simple
<1>2. Len(a) + 1 \in Stops
  <2>1. At(a, Len(a) + 1) = Tail0 /\ Tail0 \notin over
    BY AtIs, NodesAssumption
  <2>. QED
    BY <1>1, <2>1
<1>3. PICK e \in Stops : \A i \in Stops : e <= i
  <2>1. Stops \in SUBSET Nat
    OBVIOUS
  <2>. HIDE DEF Stops
  <2>. QED
    BY <1>2, <2>1, Least
<1>. DEFINE m == e - 1
            gone == SubSeq(a, 1, m)
<1>4. m \in 1 .. Len(a) /\ m + 1 = e /\ At(a, e) \notin over
  BY <1>1, <1>3
<1>5. gone \in Seq(Key) /\ Len(gone) = m /\ \A i \in 1 .. m : gone[i] = a[i]
  BY <1>1, <1>4
<1>. HIDE DEF gone
<1>6. \A i \in 1 .. m : i \in 1 .. Len(a) /\ gone[i] = At(a, i)
  <2>1. \A i \in 1 .. m : i \in 1 .. Len(a)
    BY <1>1, <1>4
  <2>. QED
    BY <1>5, <2>1, AtIs
<1>7. \A i \in 0 .. Len(a) : N[At(a, i)] = At(a, i + 1)
  BY DEF Through
<1>. HIDE DEF N, m
<1>8. ASSUME NEW i \in 1 .. m
      PROVE  N[gone[i]] = IF i = m THEN At(a, e) ELSE gone[i + 1]
  <2>1. i \in 0 .. Len(a) /\ gone[i] = At(a, i)
    BY <1>1, <1>6
  <2>2. N[gone[i]] = At(a, i + 1)
    BY <1>7, <2>1
  <2>3. CASE i = m
    BY <1>4, <2>2, <2>3
  <2>4. CASE i # m
    <3>1. i + 1 \in 1 .. m
      BY <1>4, <2>4
    <3>. QED
      BY <1>6, <2>2, <2>4, <3>1
  <2>. QED
    BY <2>3, <2>4
<1>9. ASSUME NEW i \in 1 .. m, i > 1 PROVE gone[i] \in over
  <2>1. i \in 2 .. Len(a) + 1 /\ ~(e <= i)
    BY <1>1, <1>4, <1>9
  <2>2. At(a, i) \in over
    BY <1>3, <2>1
  <2>. QED
    BY <1>6, <2>2
<1>10. N[Head0] = gone[1]
  <2>1. At(a, 0) = Head0 /\ 0 \in 0 .. Len(a) /\ 0 + 1 = 1 /\ 1 \in 1 .. m
    BY <1>1, <1>4 DEF At
  <2>. QED
    BY <1>6, <1>7, <2>1
<1>11. Walk(k, gone, At(a, e), over)
  <2>1. gone # <<>>
    BY <1>4, <1>5
  <2>. QED
    BY <1>4, <1>5, <1>8, <1>9, <1>10, <2>1 DEF Walk, N
<1>12. gone \in Walks(ToSet(a))
  <2>1. \A i, j \in 1 .. Len(gone) : gone[i] = gone[j] => i = j
    BY <1>5, <1>6 DEF Simple
  <2>2. gone \in Seq(Key)
    BY <1>5
  <2>3. gone \in SetToSeqs(ToSet(gone))
    BY <2>1, <2>2, IsOrder
  <2>4. ToSet(gone) \subseteq ToSet(a)
    BY <1>1, <1>5, <1>6 DEF ToSet
  <2>. QED
    BY <2>3, <2>4 DEF Walks
<1>13. At(a, e) \in Node
  <2>1. e \in 0 .. Len(a) + 1
    BY <1>1, <1>3
  <2>. QED
    BY <2>1, AtIs
<1>. QED
  BY <1>11, <1>12, <1>13

\* A walk is a sequence of entries.
LEMMA WalksAre ==
  ASSUME NEW S \in SUBSET Key, IsFiniteSet(S), NEW gone \in Walks(S)
  PROVE  gone \in Seq(Key) /\ ToSet(gone) \subseteq S
<1>1. PICK R \in SUBSET S : gone \in SetToSeqs(R)
  BY DEF Walks
<1>2. IsFiniteSet(R)
  BY FS_Subset
<1>3. gone \in Seq(R) /\ ToSet(gone) = R
  BY <1>1, <1>2, OrderIs
<1>. QED
  BY <1>3

\* What a Put finds when no hazard has occurred: the list with k at its end,
\* in the order a
LEMMA PutFinds ==
  ASSUME ListInv, hazard = {}, NEW k \in Key, MayPut(k)
  PROVE  /\ pred[Tail0] \in Node
         /\ \E a \in Seq(Key) : /\ Simple(a) /\ a # <<>> /\ ToSet(a) = map \cup {k}
                                /\ Through(a, NextAfterTail(k), PredAfterTail(k))
<1>1. PICK s \in Seq(Key) : Sound(s)
  BY DEF ListInv
<1>2. Simple(s) /\ ToSet(s) = map /\ Lists(s) /\ k \notin ToSet(s) /\ TypeOK
  BY <1>1, AtRest DEF ListInv, MayPut
<1>. DEFINE a == Append(s, k)
<1>3. Through(a, NextAfterTail(k), PredAfterTail(k))
  BY <1>2, TailIs
<1>4. Simple(a) /\ ToSet(a) = map \cup {k}
  BY <1>2, AppendIs
<1>5. a \in Seq(Key) /\ a # <<>>
  <2>1. a \in Seq(Key) /\ Len(a) = Len(s) + 1 /\ Len(s) \in Nat
    OBVIOUS
  <2>. QED
    BY <2>1
<1>6. pred[Tail0] \in Node
  BY DEF ListInv, LinkTypes
<1>. QED
  BY <1>3, <1>4, <1>5, <1>6

\* A Put keeps the types, whatever the links.
LEMMA PutTypes ==
  ASSUME TypeOK, Keys, NEW k \in Key, Put(k)
  PROVE  TypeOK' /\ Keys' /\ map' \subseteq map \cup {k}
<1>1. /\ now' \in now .. MaxTime /\ size' = SizeAfterPut
      /\ expire' = [expire EXCEPT ![k] = now + Timeout]
      /\ UNCHANGED <<owner, pc, key, aim, hazard, lost>> /\ Inside = {}
  BY DEF Put, Later, MayPut
<1>. DEFINE Links == [Node -> Node \cup {Null}]
            f == NextAfterTail(k)
            g == PredAfterTail(k)
<1>2. f \in Links /\ g \in Links
  <2>1. k \in Node /\ Tail0 \in Node /\ pred[Tail0] \in Node \cup {Null}
    BY DEF TypeOK, Node
  <2>. QED
    BY <2>1 DEF NextAfterTail, PredAfterTail, TypeOK
<1>3. next' \in Links /\ pred' \in Links /\ map' \subseteq map \cup {k}
  <2>1. CASE PutOnly(k)
    BY <1>2, <2>1 DEF PutOnly
  <2>2. CASE PutPop(k)
    <3>1. PICK gone \in Walks(map \cup {k}), end \in Node :
             /\ map'  = (map \cup {k}) \ Erased(gone, end)
             /\ next' = Forget([f EXCEPT ![Head0] = end], Erased(gone, end))
             /\ pred' = Forget([g EXCEPT ![end] = Head0], Erased(gone, end))
      BY <2>2 DEF PutPop
    <3>. HIDE DEF f, g
    <3>2. [f EXCEPT ![Head0] = end] \in Links /\ [g EXCEPT ![end] = Head0] \in Links
      BY <1>2 DEF Node
    <3>3. ASSUME NEW h \in Links, NEW S PROVE Forget(h, S) \in Links
      BY DEF Forget
    <3>. HIDE DEF Links
    <3>. QED
      BY <3>1, <3>2, <3>3
  <2>. QED
    BY <2>1, <2>2 DEF Put
<1>4. Keys'
  <2>1. IsFiniteSet(map \cup {k})
    BY FS_AddElement DEF Keys
  <2>2. Inside' = {}
    BY <1>1 DEF Inside
  <2>. QED
    BY <1>3, <2>1, <2>2, FS_Subset DEF Keys
<1>5. now' \in 0 .. MaxTime /\ size' \in Nat /\ expire' \in [Key -> Nat] /\ map' \subseteq Key
  BY <1>1, <1>3, BoundsAssumption DEF TypeOK, SizeAfterPut
<1>. QED
  BY <1>1, <1>3, <1>4, <1>5 DEF TypeOK

\* On a list PopHead takes the first entries away, one at least.
LEMMA PopsFirst ==
  ASSUME TypeOK, Keys, NEW k \in Key, PutPop(k),
         NEW a \in Seq(Key), Simple(a), a # <<>>, ToSet(a) = map \cup {k},
         Through(a, NextAfterTail(k), PredAfterTail(k))
  PROVE  \E m \in 1 .. Len(a) :
            LET gone == {a[i] : i \in 1 .. m} IN
            /\ map' = (map \cup {k}) \ gone
            /\ next' = Forget([NextAfterTail(k) EXCEPT ![Head0] = At(a, m + 1)], gone)
            /\ pred' = Forget([PredAfterTail(k) EXCEPT ![At(a, m + 1)] = Head0], gone)
<1>1. PICK gone \in Walks(map \cup {k}), end \in Node :
         /\ Walk(k, gone, end, Over(k, now'))
         /\ map'  = (map \cup {k}) \ Erased(gone, end)
         /\ next' = Forget([NextAfterTail(k) EXCEPT ![Head0] = end], Erased(gone, end))
         /\ pred' = Forget([PredAfterTail(k) EXCEPT ![end] = Head0], Erased(gone, end))
  BY DEF PutPop
<1>2. gone \in Seq(Key)
  <2>1. IsFiniteSet(map \cup {k}) /\ map \cup {k} \subseteq Key
    BY FS_AddElement DEF Keys, TypeOK
  <2>. QED
    BY <1>1, <2>1, WalksAre
<1>3. Over(k, now') \subseteq Key
  BY DEF Over
<1>4. /\ Len(gone) \in 1 .. Len(a) /\ end = At(a, Len(gone) + 1)
      /\ Erased(gone, end) = {a[i] : i \in 1 .. Len(gone)}
  <2>. HIDE DEF Over
  <2>. QED
    BY <1>1, <1>2, <1>3, WalkIs
<1>. QED
  BY <1>1, <1>4

\* After a Put the links go through the entries left, in their order.
LEMMA PutLinks ==
  ASSUME ListInv, hazard = {}, NEW k \in Key, Put(k)
  PROVE  \E r \in Seq(Key) : Simple(r) /\ ToSet(r) = map' /\ Through(r, next', pred')
<1>1. MayPut(k)
  BY DEF Put
<1>2. PICK a \in Seq(Key) : /\ Simple(a) /\ a # <<>> /\ ToSet(a) = map \cup {k}
                            /\ Through(a, NextAfterTail(k), PredAfterTail(k))
  BY <1>1, PutFinds
<1>3. CASE PutOnly(k)
  BY <1>2, <1>3 DEF PutOnly
<1>4. CASE PutPop(k)
  <2>. DEFINE f == NextAfterTail(k)
              g == PredAfterTail(k)
  <2>1. PICK m \in 1 .. Len(a) :
           /\ map' = (map \cup {k}) \ {a[i] : i \in 1 .. m}
           /\ next' = Forget([f EXCEPT ![Head0] = At(a, m + 1)], {a[i] : i \in 1 .. m})
           /\ pred' = Forget([g EXCEPT ![At(a, m + 1)] = Head0], {a[i] : i \in 1 .. m})
    BY <1>2, <1>4, PopsFirst DEF ListInv
  <2>. DEFINE gone == {a[i] : i \in 1 .. m}
              r == SubSeq(a, m + 1, Len(a))
              n == Len(a) - m
  <2>2. m \in 0 .. Len(a) /\ Len(a) \in Nat /\ n \in Nat /\ Len(a) = m + n /\ m \in Nat \ {0}
    OBVIOUS
  <2>3. /\ Simple(r) /\ ToSet(r) = map' /\ Len(r) = n
        /\ \A i \in 1 .. n + 1 : At(r, i) = At(a, m + i)
    BY <1>2, <2>1, <2>2, RestIs
  <2>4. r \in Seq(Key) /\ At(r, 0) = Head0
    BY <2>3 DEF Simple, At
  <2>. HIDE DEF r
  <2>5. \A i \in m + 1 .. Len(a) + 1 : At(a, i) \notin gone /\ At(a, i) \in Node
    <3>. SUFFICES ASSUME NEW i \in m + 1 .. Len(a) + 1, NEW j \in 1 .. m
                  PROVE  At(a, i) # a[j] /\ At(a, i) \in Node
      BY <1>2, <2>2, AtIs
    <3>1. i \in 0 .. Len(a) + 1 /\ j \in 0 .. Len(a) + 1 /\ j \in 1 .. Len(a) /\ i # j
      BY <2>2
    <3>2. At(a, j) = a[j]
      BY <1>2, <3>1, AtIs
    <3>. QED
      BY <1>2, <3>1, <3>2, AtIs, AtOnce
  <2>6. Head0 \notin gone /\ Head0 \in Node
    BY <1>2, <2>2, AtIs, NodesAssumption DEF Node
  <2>7. /\ f \in [Node -> Node \cup {Null}] /\ g \in [Node -> Node \cup {Null}]
        /\ \A i \in 0 .. Len(a) : f[At(a, i)] = At(a, i + 1) /\ g[At(a, i + 1)] = At(a, i)
    <3>1. k \in Node /\ Tail0 \in Node /\ pred[Tail0] \in Node \cup {Null}
      BY DEF ListInv, TypeOK, Node
    <3>. QED
      BY <1>2, <3>1 DEF NextAfterTail, PredAfterTail, Through, ListInv, TypeOK
  <2>. HIDE DEF f, g, gone
  <2>8. /\ \A x \in Node \ gone : LET y == [f EXCEPT ![Head0] = At(a, m + 1)][x] IN
                                  y \notin gone => next'[x] = y
        /\ \A x \in Node \ gone : LET y == [g EXCEPT ![At(a, m + 1)] = Head0][x] IN
                                  y \notin gone => pred'[x] = y
    BY <2>1 DEF Forget, gone
  <2>9. At(a, m + 1) \notin gone /\ At(a, m + 1) \in Node /\ At(r, 1) = At(a, m + 1)
    BY <2>2, <2>3, <2>5
  <2>10. next'[At(r, 0)] = At(r, 1) /\ pred'[At(r, 1)] = At(r, 0)
    BY <2>4, <2>6, <2>7, <2>8, <2>9
  <2>11. ASSUME NEW i \in 1 .. n
         PROVE  next'[At(r, i)] = At(r, i + 1) /\ pred'[At(r, i + 1)] = At(r, i)
    <3>1. /\ At(r, i) = At(a, m + i) /\ At(r, i + 1) = At(a, (m + i) + 1)
          /\ m + i \in m + 1 .. Len(a) + 1 /\ (m + i) + 1 \in m + 1 .. Len(a) + 1
          /\ m + i \in 0 .. Len(a)
      <4>1. i \in 1 .. n + 1 /\ i + 1 \in 1 .. n + 1 /\ m + (i + 1) = (m + i) + 1
        BY <2>2
      <4>. QED
        BY <2>2, <2>3, <4>1
    <3>2. At(a, m + i) # Head0
      <4>1. m + i \in 0 .. Len(a) + 1 /\ 0 \in 0 .. Len(a) + 1 /\ m + i # 0 /\ At(a, 0) = Head0
        BY <1>2, <2>2, AtIs
      <4>. QED
        BY <1>2, <4>1, AtOnce
    <3>3. At(a, (m + i) + 1) # At(a, m + 1)
      <4>1. (m + i) + 1 \in 0 .. Len(a) + 1 /\ m + 1 \in 0 .. Len(a) + 1 /\ (m + i) + 1 # m + 1
        BY <2>2
      <4>. QED
        BY <1>2, <4>1, AtOnce
    <3>. QED
      BY <2>5, <2>7, <2>8, <3>1, <3>2, <3>3
  <2>12. Through(r, next', pred')
    <3>. SUFFICES ASSUME NEW i \in 0 .. n
                  PROVE  next'[At(r, i)] = At(r, i + 1) /\ pred'[At(r, i + 1)] = At(r, i)
      BY <2>3 DEF Through
    <3>1. CASE i = 0
      BY <2>10, <3>1
    <3>2. CASE i \in 1 .. n
      BY <2>11, <3>2
    <3>. QED
      BY <2>2, <3>1, <3>2
  <2>. QED
    BY <2>3, <2>4, <2>12
<1>. QED
  BY <1>3, <1>4 DEF Put

LEMMA ListInvInit == Init => ListInv
<1>. SUFFICES ASSUME Init PROVE ListInv
  OBVIOUS
<1>1. TypeOK /\ LinkTypes /\ Keys /\ ~lost
  BY ListTypesInit DEF LinkTypes, Init
<1>2. \A t \in Thread : pc[t] = "idle"
  BY DEF Init
<1>3. Off = {} /\ Inside = {}
  BY <1>2 DEF Off, Moving, Inside
<1>4. Distinct /\ Locking /\ Aimed
  BY <1>2, <1>3, NullAssumption DEF Distinct, Locking, Aimed, Holds, Init
<1>. DEFINE s == <<>>
<1>5. Simple(s) /\ ToSet(s) = map \ Off
  BY <1>3 DEF Simple, ToSet, Init
<1>6. \A a, b : Adj(s, a, b) <=> a = Head0 /\ b = Tail0
  BY DEF Adj, At
<1>7. Forward(s) /\ Backward(s)
  BY <1>6, NodesAssumption DEF Forward, Backward, Init, Node
<1>8. Cuts(s) /\ Ends(s) /\ Ahead(s)
  BY <1>2 DEF Cuts, Ends, Ahead
<1>9. s \in Seq(Key)
  OBVIOUS
<1>. HIDE DEF s
<1>. QED
  BY <1>1, <1>4, <1>5, <1>7, <1>8, <1>9 DEF ListInv, Sound, Listed

LEMMA PutSound ==
  ASSUME ListInv, NEW k \in Key, Put(k)
  PROVE  ListInv'
<1>1. /\ UNCHANGED <<owner, pc, key, aim, hazard, lost>> /\ Inside = {}
      /\ \A t \in Thread : pc[t] = "idle" /\ pc'[t] = "idle"
  BY DEF Put, MayPut, Inside
<1>2. TypeOK' /\ Keys'
  BY PutTypes DEF ListInv
<1>3. ASSUME hazard' = {}
      PROVE  ~lost' /\ LinkTypes' /\ \E s \in Seq(Key) : Sound(s)'
  <2>1. ~lost' /\ Locking
    BY <1>1, <1>3 DEF ListInv, Sound
  <2>2. PICK r \in Seq(Key) : Simple(r) /\ ToSet(r) = map' /\ Through(r, next', pred')
    BY <1>1, <1>3, PutLinks
  <2>3. \A a, b : Adj(r, a, b) => next'[a] = b /\ pred'[b] = a
    BY <2>2 DEF Adj, Through
  <2>4. Distinct' /\ Locking' /\ Aimed'
    BY <1>1, <2>1 DEF Distinct, Locking, Aimed, Holds, Inside
  <2>5. Off' = {} /\ Inside' = {}
    BY <1>1 DEF Off, Moving, Inside
  <2>6. Listed(r)'
    BY <1>1, <2>2, <2>3, <2>5 DEF Listed, Forward, Backward, Cuts, Ends, Ahead
  <2>7. ASSUME NEW n \in map' \cup {Head0} PROVE next'[n] \in Node
    <3>1. PICK b : Adj(r, n, b)
      BY <2>2, Neighbours
    <3>2. b = Tail0 \/ b \in Key
      BY <1>2, <2>2, <3>1, Neighbours DEF TypeOK
    <3>. QED
      BY <2>3, <3>1, <3>2 DEF Node
  <2>8. ASSUME NEW n \in map' \cup {Tail0} PROVE pred'[n] \in Node
    <3>1. PICK b : Adj(r, b, n)
      BY <2>2, Neighbours
    <3>2. b = Head0 \/ b \in Key
      BY <1>2, <2>2, <3>1, Neighbours DEF TypeOK
    <3>. QED
      BY <2>3, <3>1, <3>2 DEF Node
  <2>9. LinkTypes'
    BY <1>2, <2>5, <2>7, <2>8 DEF LinkTypes
  <2>. QED
    BY <2>1, <2>4, <2>6, <2>9 DEF Sound
<1>. QED
  BY <1>2, <1>3 DEF ListInv

\* While the list is one, no call is lost.
LEMMA NoneLost ==
  ASSUME ListInv, hazard = {}
  PROVE  /\ \A t \in Thread : ~GetLost(t)
         /\ \A k \in Key : ~PutLost(k)
<1>1. ASSUME NEW t \in Thread, Freed(t) PROVE FALSE
  <2>1. t \in Inside /\ key[t] \in map /\ LinkTypes
    BY <1>1 DEF Freed, Inside, ListInv, LinkTypes, Keys
  <2>2. Null \notin Node
    BY NullAssumption DEF Node
  <2>. QED
    BY <1>1, <2>1, <2>2 DEF Freed, LinkTypes
<1>2. ASSUME NEW k \in Key, PutLost(k) PROVE FALSE
  <2>1. MayPut(k)
    BY <1>2 DEF PutLost
  <2>2. pred[Tail0] # Null
    BY <2>1, PutFinds, NullAssumption DEF Node
  <2>3. PICK a \in Seq(Key) : /\ Simple(a) /\ a # <<>> /\ ToSet(a) = map \cup {k}
                              /\ Through(a, NextAfterTail(k), PredAfterTail(k))
    BY <2>1, PutFinds
  <2>4. Over(k, now') \in SUBSET Key
    BY DEF Over
  <2>5. \E gone \in Walks(map \cup {k}), end \in Node : Walk(k, gone, end, Over(k, now'))
    BY <2>3, <2>4, WalkEnds
  <2>. QED
    BY <1>2, <2>2, <2>5 DEF PutLost
<1>. QED
  BY <1>1, <1>2 DEF GetLost
-----------------------------------------------------------------------------
(* The steps of a Get                                                       *)

LEMMA Taken ==
  ASSUME TypeOK, Locking, NEW t \in Thread, NEW n \in Node, Take(t, n),
         \A m \in Node : Holds(t, m)' <=> Holds(t, m) \/ m = n,
         \A u \in Thread \ {t}, m \in Node : Holds(u, m)' <=> Holds(u, m)
  PROVE  Locking'
<1>. SUFFICES ASSUME NEW u \in Thread, NEW m \in Node
              PROVE  owner'[m] = u <=> Holds(u, m)'
  BY DEF Locking
<1>1. owner[n] = Null /\ owner'[m] = IF m = n THEN t ELSE owner[m]
  BY DEF Take, TypeOK
<1>2. owner[m] = u <=> Holds(u, m)
  BY DEF Locking
<1>3. Null # u
  BY NullAssumption
<1>. QED
  BY <1>1, <1>2, <1>3

LEMMA Releases ==
  ASSUME TypeOK, Locking, NEW t \in Thread, Release(t),
         \A m \in Node : ~Holds(t, m)',
         \A u \in Thread \ {t}, m \in Node : Holds(u, m)' <=> Holds(u, m)
  PROVE  Locking'
<1>. SUFFICES ASSUME NEW u \in Thread, NEW m \in Node
              PROVE  owner'[m] = u <=> Holds(u, m)'
  BY DEF Locking
<1>1. owner'[m] = IF owner[m] = t THEN Null ELSE owner[m]
  BY DEF Release
<1>2. owner[m] = u <=> Holds(u, m)
  BY DEF Locking
<1>3. Null # u
  BY NullAssumption
<1>. QED
  BY <1>1, <1>2, <1>3

\* A node is held by one thread.
LEMMA OneHolder ==
  ASSUME Locking, NEW t \in Thread, NEW u \in Thread, NEW n \in Node, Holds(t, n), Holds(u, n)
  PROVE  t = u
BY DEF Locking

\* Steps that write no link and move no node on or off the list.
LEMMA Quiet ==
  ASSUME TypeOK, NEW s, Sound(s), NEW t \in Thread, NEW to, Goto(t, pc[t], to),
         UNCHANGED <<map, next, pred, key>>, pc[t] # "idle", to # "idle",
         pc[t] \in Moving <=> to \in Moving,
         pc[t] \notin {"unlinkNext", "swing", "point", "link"},
         to \notin {"unlinkNext", "swing", "point", "link"}
  PROVE  /\ Distinct' /\ Off' = Off /\ Simple(s) /\ ToSet(s) = (map \ Off)'
         /\ Forward(s)' /\ Backward(s)' /\ Cuts(s)' /\ Ends(s)'
         /\ \A u \in Thread \ {t} : pc'[u] = pc[u]
         /\ pc'[t] = to
<1>1. pc'[t] = to /\ \A u \in Thread \ {t} : pc'[u] = pc[u]
  BY DEF Goto, TypeOK
<1>2. Distinct'
  <2>1. Inside' = Inside
    BY <1>1 DEF Inside
  <2>. QED
    BY <2>1 DEF Sound, Distinct
<1>3. Off' = Off
  <2>1. {u \in Thread : pc'[u] \in Moving} = {u \in Thread : pc[u] \in Moving}
    BY <1>1
  <2>. QED
    BY <2>1 DEF Off
<1>4. Forward(s)'
  BY DEF Sound, Listed, Forward
<1>5. Backward(s)'
  <2>1. \A u \in Thread : \A a, b : Pending(u, a, b) => Pending(u, a, b)'
    BY <1>1 DEF Pending
  <2>. QED
    BY <2>1 DEF Sound, Listed, Backward
<1>6. Cuts(s)' /\ Ends(s)'
  BY <1>1 DEF Sound, Listed, Cuts, Ends
<1>. QED
  BY <1>1, <1>2, <1>3, <1>4, <1>5, <1>6 DEF Sound, Listed

\* The nodes of a Get are nodes of the map, on the list unless it has taken
\* its own out, and are its own.
LEMMA NodeOfGet ==
  ASSUME TypeOK, LinkTypes, NEW s, Sound(s), NEW t \in Thread, pc[t] # "idle"
  PROVE  /\ key[t] \in Key /\ key[t] \in map /\ key[t] \in Node
         /\ key[t] # Head0 /\ key[t] # Tail0
         /\ pc[t] \in Moving <=> key[t] \notin ToSet(s)
         /\ \A u \in Thread \ {t} : pc[u] # "idle" => key[u] # key[t]
<1>1. key[t] \in map /\ key[t] \in Key
  BY DEF LinkTypes, Keys, Inside, TypeOK
<1>2. \A u \in Thread \ {t} : pc[u] # "idle" => key[u] # key[t]
  BY DEF Sound, Distinct, Inside
<1>3. pc[t] \in Moving <=> key[t] \in Off
  <2>1. "idle" \notin Moving
    BY DEF Moving
  <2>. QED
    BY <1>2, <2>1 DEF Off
<1>. QED
  BY <1>1, <1>2, <1>3, NodesAssumption DEF Sound, Listed, Node

LEMMA AimNextSound ==
  ASSUME TypeOK, LinkTypes, NEW s, Sound(s), NEW t \in Thread, AimNext(t)
  PROVE  Sound(s)'
<1>. USE DEF AimNext, Aims, list
<1>1. /\ pc[t] = "aimNext" /\ Goto(t, "aimNext", "takeNext") /\ aim' = [aim EXCEPT ![t] = next[key[t]]]
      /\ UNCHANGED <<map, next, pred, key, owner>>
  BY DEF Goto
<1>2. /\ Distinct' /\ Off' = Off /\ Simple(s) /\ ToSet(s) = (map \ Off)'
      /\ Forward(s)' /\ Backward(s)' /\ Cuts(s)' /\ Ends(s)'
      /\ pc'[t] = "takeNext" /\ \A u \in Thread \ {t} : pc'[u] = pc[u]
  <2>1. pc[t] # "idle" /\ (pc[t] \in Moving <=> "takeNext" \in Moving)
    BY <1>1 DEF Moving
  <2>. QED
    BY <1>1, <2>1, Quiet
<1>3. aim'[t] = next[key[t]] /\ \A u \in Thread \ {t} : aim'[u] = aim[u]
  BY <1>1 DEF TypeOK
<1>4. Locking'
  <2>1. \A u \in Thread, n \in Node : Holds(u, n)' <=> Holds(u, n)
    BY <1>1, <1>2, <1>3 DEF Holds
  <2>. QED
    BY <1>1, <2>1 DEF Sound, Locking
<1>5. Aimed'
  BY <1>1, <1>2, <1>3 DEF Sound, Aimed
<1>6. Ahead(s)'
  <2>1. PICK b : Adj(s, key[t], b)
    BY <1>1, NodeOfGet, Neighbours DEF Sound, Listed, Moving
  <2>2. Before(s, key[t], b) /\ b = next[key[t]]
    <3>1. key[t] \in Node /\ b \in Node
      BY <1>1, <2>1, NodeOfGet, Neighbours DEF Sound, Listed, Node, TypeOK
    <3>. QED
      BY <2>1, <3>1, Neighbours DEF Sound, Listed, Forward
  <2>. QED
    BY <1>1, <1>2, <1>3, <2>2 DEF Sound, Listed, Ahead
<1>. QED
  BY <1>2, <1>4, <1>5, <1>6 DEF Sound, Listed

\* Taking a lock while a first Get of the node waits in line for it.
LEMMA TakesSound ==
  ASSUME TypeOK, LinkTypes, NEW s, Sound(s), NEW t \in Thread,
         TakeNext(t) \/ TakeTail(t) \/ TakeSelf(t) \/ TakePred(t) \/ TakeLast(t)
  PROVE  Sound(s)'
<1>. USE DEF TakeNext, TakeTail, TakeSelf, TakePred, TakeLast, Locks, list
<1>1. PICK to : /\ Goto(t, pc[t], to) /\ UNCHANGED <<map, next, pred, key, aim>>
                /\ <<pc[t], to>> \in {<<"takeNext", "takeNode">>, <<"takeTail", "takeSelf">>,
                      <<"takeSelf", "aimLast">>, <<"takePred", "unlink">>, <<"takeLast", "append">>}
  BY DEF Goto
<1>2. /\ Distinct' /\ Off' = Off /\ Simple(s) /\ ToSet(s) = (map \ Off)'
      /\ Forward(s)' /\ Backward(s)' /\ Cuts(s)' /\ Ends(s)'
      /\ pc'[t] = to /\ \A u \in Thread \ {t} : pc'[u] = pc[u]
  <2>1. pc[t] # "idle" /\ to # "idle" /\ (pc[t] \in Moving <=> to \in Moving)
        /\ pc[t] \notin {"unlinkNext", "swing", "point", "link"}
        /\ to \notin {"unlinkNext", "swing", "point", "link"}
    BY <1>1 DEF Moving
  <2>. QED
    BY <1>1, <2>1, Quiet
<1>3. \A u \in Thread \ {t}, n \in Node : Holds(u, n)' <=> Holds(u, n)
  BY <1>1, <1>2 DEF Holds
<1>4. Locking'
  <2>0. Locking /\ Aimed
    BY DEF Sound
  <2>1. CASE TakeNext(t)
    <3>1. aim[t] \in Node /\ Take(t, aim[t]) /\ pc[t] = "takeNext" /\ to = "takeNode"
      BY <1>1, <2>1 DEF LinkTypes, Keys, Inside, Goto
    <3>2. \A m \in Node : Holds(t, m)' <=> Holds(t, m) \/ m = aim[t]
      BY <1>1, <1>2, <3>1 DEF Holds
    <3>. QED
      BY <1>3, <2>0, <3>1, <3>2, Taken
  <2>2. CASE TakeTail(t)
    <3>1. Tail0 \in Node /\ Take(t, Tail0) /\ pc[t] = "takeTail" /\ to = "takeSelf"
      BY <1>1, <2>2 DEF Node, Goto
    <3>2. \A m \in Node : Holds(t, m)' <=> Holds(t, m) \/ m = Tail0
      BY <1>1, <1>2, <3>1 DEF Holds
    <3>. QED
      BY <1>3, <2>0, <3>1, <3>2, Taken
  <2>3. CASE TakeSelf(t)
    <3>1. key[t] \in Node /\ Take(t, key[t]) /\ pc[t] = "takeSelf" /\ to = "aimLast"
      BY <1>1, <2>3, NodeOfGet DEF Goto
    <3>2. \A m \in Node : Holds(t, m)' <=> Holds(t, m) \/ m = key[t]
      BY <1>1, <1>2, <3>1 DEF Holds
    <3>. QED
      BY <1>3, <2>0, <3>1, <3>2, Taken
  <2>4. CASE TakePred(t)
    <3>1. aim[t] \in Node /\ Take(t, aim[t]) /\ pc[t] = "takePred" /\ to = "unlink"
      BY <1>1, <2>4 DEF LinkTypes, Keys, Inside, Goto
    <3>2. aim[t] = pred[key[t]]
      BY <2>0, <3>1 DEF Aimed
    <3>3. \A m \in Node : Holds(t, m)' <=> Holds(t, m) \/ m = aim[t]
      BY <1>1, <1>2, <3>1, <3>2 DEF Holds
    <3>. QED
      BY <1>3, <2>0, <3>1, <3>3, Taken
  <2>5. CASE TakeLast(t)
    <3>1. aim[t] \in Node /\ Take(t, aim[t]) /\ pc[t] = "takeLast" /\ to = "append"
      BY <1>1, <2>5 DEF LinkTypes, Keys, Inside, Goto
    <3>2. aim[t] = pred[Tail0]
      BY <2>0, <3>1 DEF Aimed
    <3>3. \A m \in Node : Holds(t, m)' <=> Holds(t, m) \/ m = aim[t]
      BY <1>1, <1>2, <3>1, <3>2 DEF Holds
    <3>. QED
      BY <1>3, <2>0, <3>1, <3>3, Taken
  <2>. QED
    BY <2>1, <2>2, <2>3, <2>4, <2>5
<1>5. Aimed'
  BY <1>1, <1>2 DEF Sound, Aimed
<1>6. Ahead(s)'
  BY <1>1, <1>2 DEF Sound, Listed, Ahead
<1>. QED
  BY <1>2, <1>4, <1>5, <1>6 DEF Sound, Listed
LEMMA TakeNodeSound ==
  ASSUME TypeOK, LinkTypes, NEW s, Sound(s), NEW t \in Thread, TakeNode(t), hazard' = {}
  PROVE  Sound(s)'
<1>1. /\ Goto(t, pc[t], "aimPred") /\ pc[t] = "takeNode" /\ Take(t, key[t])
      /\ UNCHANGED <<map, next, pred, key, aim>>
  BY DEF TakeNode, Goto, list
<1>2. next[key[t]] = aim[t]
  <2>1. \A h \in {"stale"} : ~(next[key[t]] # aim[t])
    BY DEF TakeNode
  <2>. QED
    BY <2>1
<1>3. /\ Distinct' /\ Off' = Off /\ Simple(s) /\ ToSet(s) = (map \ Off)'
      /\ Forward(s)' /\ Backward(s)' /\ Cuts(s)' /\ Ends(s)'
      /\ pc'[t] = "aimPred" /\ \A u \in Thread \ {t} : pc'[u] = pc[u]
  <2>1. pc[t] # "idle" /\ (pc[t] \in Moving <=> "aimPred" \in Moving)
    BY <1>1 DEF Moving
  <2>. QED
    BY <1>1, <2>1, Quiet
<1>4. Locking'
  <2>1. \A u \in Thread \ {t}, n \in Node : Holds(u, n)' <=> Holds(u, n)
    BY <1>1, <1>3 DEF Holds
  <2>2. \A m \in Node : Holds(t, m)' <=> Holds(t, m) \/ m = key[t]
    BY <1>1, <1>2, <1>3 DEF Holds
  <2>3. key[t] \in Node
    BY <1>1, NodeOfGet
  <2>. QED
    BY <1>1, <2>1, <2>2, <2>3, Taken DEF Sound
<1>5. Aimed'
  BY <1>1, <1>3 DEF Sound, Aimed
<1>6. Ahead(s)'
  BY <1>1, <1>3 DEF Sound, Listed, Ahead
<1>. QED
  BY <1>3, <1>4, <1>5, <1>6 DEF Sound, Listed

LEMMA AimsSound ==
  ASSUME TypeOK, LinkTypes, NEW s, Sound(s), NEW t \in Thread, AimPred(t) \/ AimLast(t)
  PROVE  Sound(s)'
<1>1. PICK to : /\ Goto(t, pc[t], to) /\ UNCHANGED <<map, next, pred, key, owner>>
                /\ \/ pc[t] = "aimPred" /\ to = "takePred" /\ aim' = [aim EXCEPT ![t] = pred[key[t]]]
                   \/ pc[t] = "aimLast" /\ to = "takeLast" /\ aim' = [aim EXCEPT ![t] = pred[Tail0]]
  BY DEF AimPred, AimLast, Aims, Goto, list
<1>2. /\ Distinct' /\ Off' = Off /\ Simple(s) /\ ToSet(s) = (map \ Off)'
      /\ Forward(s)' /\ Backward(s)' /\ Cuts(s)' /\ Ends(s)'
      /\ pc'[t] = to /\ \A u \in Thread \ {t} : pc'[u] = pc[u]
  <2>1. /\ pc[t] # "idle" /\ to # "idle" /\ (pc[t] \in Moving <=> to \in Moving)
        /\ pc[t] \notin {"unlinkNext", "swing", "point", "link"}
        /\ to \notin {"unlinkNext", "swing", "point", "link"}
    BY <1>1 DEF Moving
  <2>. QED
    BY <1>1, <2>1, Quiet
<1>3. /\ \A u \in Thread \ {t} : aim'[u] = aim[u]
      /\ aim'[t] = IF pc[t] = "aimPred" THEN pred[key[t]] ELSE pred[Tail0]
  BY <1>1 DEF TypeOK
<1>4. Locking'
  <2>1. \A u \in Thread, n \in Node : Holds(u, n)' <=> Holds(u, n)
    BY <1>1, <1>2, <1>3 DEF Holds
  <2>. QED
    BY <1>1, <2>1 DEF Sound, Locking
<1>5. Aimed'
  BY <1>1, <1>2, <1>3 DEF Sound, Aimed
<1>6. Ahead(s)'
  BY <1>1, <1>2, <1>3 DEF Sound, Listed, Ahead
<1>. QED
  BY <1>2, <1>4, <1>5, <1>6 DEF Sound, Listed

\* The test of PutTail's second block never finds the node in the last place,
\* for the first block has taken it out.
LEMMA TestSound ==
  ASSUME TypeOK, LinkTypes, NEW s, Sound(s), NEW t \in Thread, Test(t)
  PROVE  Sound(s)'
<1>1. pc[t] = "test" /\ UNCHANGED <<map, next, pred, key, aim, owner>>
  BY DEF Test, Goto, list
<1>2. pred[Tail0] # key[t]
  <2>1. PICK a : Adj(s, a, Tail0)
    BY Neighbours DEF Sound, Listed
  <2>2. key[t] \notin ToSet(s) /\ key[t] # Head0 /\ \A u \in Thread \ {t} : pc[u] # "idle" => key[u] # key[t]
    BY <1>1, NodeOfGet DEF Moving
  <2>3. a # key[t] /\ a \in Node /\ Tail0 \in Node
    BY <2>1, <2>2, Neighbours DEF Sound, Listed, Node, TypeOK
  <2>4. CASE pred[Tail0] = a
    BY <2>3, <2>4
  <2>5. CASE \E u \in Thread : Pending(u, a, Tail0)
    <3>1. PICK u \in Thread : Pending(u, a, Tail0)
      BY <2>5
    <3>2. pred[Tail0] = key[u] /\ u # t /\ pc[u] # "idle"
      BY <1>1, <3>1 DEF Pending, Sound, Listed, Cuts, Ends
    <3>. QED
      BY <2>2, <3>2
  <2>. QED
    BY <2>1, <2>3, <2>4, <2>5 DEF Sound, Listed, Backward
<1>3. /\ Distinct' /\ Off' = Off /\ Simple(s) /\ ToSet(s) = (map \ Off)'
      /\ Forward(s)' /\ Backward(s)' /\ Cuts(s)' /\ Ends(s)'
      /\ pc'[t] = "takeTail" /\ \A u \in Thread \ {t} : pc'[u] = pc[u]
  <2>1. pc[t] # "idle" /\ (pc[t] \in Moving <=> "takeTail" \in Moving)
    BY <1>1 DEF Moving
  <2>2. Goto(t, pc[t], "takeTail")
    BY <1>1, <1>2 DEF Test, Goto
  <2>. QED
    BY <1>1, <2>1, <2>2, Quiet
<1>4. Locking'
  <2>1. \A u \in Thread, n \in Node : Holds(u, n)' <=> Holds(u, n)
    BY <1>1, <1>3 DEF Holds
  <2>. QED
    BY <1>1, <2>1 DEF Sound, Locking
<1>5. Aimed' /\ Ahead(s)'
  BY <1>1, <1>3 DEF Sound, Aimed, Listed, Ahead
<1>. QED
  BY <1>3, <1>4, <1>5 DEF Sound, Listed

\* A Get begins or ends.
LEMMA GetFindSound ==
  ASSUME TypeOK, LinkTypes, NEW s, Sound(s), NEW t \in Thread, GetFind(t), hazard' = {}
  PROVE  Sound(s)'
<1>1. PICK k \in map : /\ key' = [key EXCEPT ![t] = k]
                       /\ hazard' = hazard \cup {h \in {"shared"} : \E u \in Inside : key[u] = k}
  BY DEF GetFind
<1>2. \A u \in Inside : key[u] # k
  <2>1. \A h \in {"shared"} : ~\E u \in Inside : key[u] = k
    BY <1>1
  <2>. QED
    BY <2>1
<1>3. /\ pc[t] = "idle" /\ pc'[t] = "aimNext" /\ key'[t] = k
      /\ \A u \in Thread \ {t} : pc'[u] = pc[u] /\ key'[u] = key[u]
      /\ UNCHANGED <<map, next, pred, aim, owner>>
  BY <1>1 DEF GetFind, Goto, list, TypeOK
<1>4. Distinct'
  BY <1>2, <1>3 DEF Sound, Distinct, Inside
<1>5. Off' = Off
  <2>1. {u \in Thread : pc'[u] \in Moving} = {u \in Thread : pc[u] \in Moving}
    BY <1>3 DEF Moving
  <2>2. \A u \in Thread : pc[u] \in Moving => key'[u] = key[u]
    BY <1>3 DEF Moving
  <2>. QED
    BY <2>1, <2>2 DEF Off
<1>6. Locking'
  <2>1. \A u \in Thread, n \in Node : Holds(u, n)' <=> Holds(u, n)
    BY <1>3 DEF Holds
  <2>. QED
    BY <1>3, <2>1 DEF Sound, Locking
<1>7. Aimed' /\ Ahead(s)'
  BY <1>3, <1>5 DEF Sound, Aimed, Listed, Ahead
<1>8. Forward(s)'
  BY <1>3 DEF Sound, Listed, Forward
<1>9. Backward(s)'
  <2>1. \A u \in Thread : \A a, b : Pending(u, a, b) => Pending(u, a, b)'
    BY <1>3 DEF Pending
  <2>. QED
    BY <1>3, <2>1 DEF Sound, Listed, Backward
<1>10. Cuts(s)' /\ Ends(s)'
  BY <1>3 DEF Sound, Listed, Cuts, Ends
<1>. QED
  BY <1>3, <1>4, <1>5, <1>6, <1>7, <1>8, <1>9, <1>10 DEF Sound, Listed

LEMMA StampSound ==
  ASSUME TypeOK, LinkTypes, NEW s, Sound(s), NEW t \in Thread, Stamp(t)
  PROVE  Sound(s)'
<1>1. /\ pc[t] = "stamp" /\ pc'[t] = "idle"
      /\ \A u \in Thread \ {t} : pc'[u] = pc[u] /\ key'[u] = key[u] /\ aim'[u] = aim[u]
      /\ UNCHANGED <<map, next, pred, owner>>
  BY DEF Stamp, Goto, TypeOK
<1>2. Distinct'
  BY <1>1 DEF Sound, Distinct, Inside
<1>3. Off' = Off
  <2>1. {u \in Thread : pc'[u] \in Moving} = {u \in Thread : pc[u] \in Moving}
    BY <1>1 DEF Moving
  <2>2. \A u \in Thread : pc[u] \in Moving => key'[u] = key[u]
    BY <1>1 DEF Moving
  <2>. QED
    BY <2>1, <2>2 DEF Off
<1>4. Locking'
  <2>1. \A u \in Thread, n \in Node : Holds(u, n)' <=> Holds(u, n)
    BY <1>1 DEF Holds
  <2>. QED
    BY <1>1, <2>1 DEF Sound, Locking
<1>5. Aimed' /\ Ahead(s)'
  BY <1>1, <1>3 DEF Sound, Aimed, Listed, Ahead
<1>6. Forward(s)'
  BY <1>1 DEF Sound, Listed, Forward
<1>7. Backward(s)'
  <2>1. \A u \in Thread : \A a, b : Pending(u, a, b) => Pending(u, a, b)'
    BY <1>1 DEF Pending
  <2>. QED
    BY <1>1, <2>1 DEF Sound, Listed, Backward
<1>8. Cuts(s)' /\ Ends(s)'
  BY <1>1 DEF Sound, Listed, Cuts, Ends
<1>. QED
  BY <1>1, <1>2, <1>3, <1>4, <1>5, <1>6, <1>7, <1>8 DEF Sound, Listed
\* A link is written only by the thread that holds its node, so what the other
\* threads rely on stays.
LEMMA OthersRely ==
  ASSUME TypeOK, LinkTypes, Locking, NEW t \in Thread,
         \A u \in Thread \ {t} : pc'[u] = pc[u], UNCHANGED <<key, aim>>,
         \A n \in Node : next'[n] # next[n] \/ pred'[n] # pred[n] => Holds(t, n)
  PROVE  \A u \in Thread \ {t} :
           /\ \A m \in Node : Holds(u, m)' <=> Holds(u, m)
           /\ \A a, b : Pending(u, a, b)' <=> Pending(u, a, b)
           /\ pc[u] = "unlinkNext" => /\ next'[key[u]] = next[key[u]] /\ pred'[key[u]] = pred[key[u]]
                                      /\ pred'[next[key[u]]] = pred[next[key[u]]]
           /\ pc[u] \in {"swing", "point", "link"} =>
                /\ next'[key[u]] = next[key[u]] /\ pred'[key[u]] = pred[key[u]]
                /\ pred'[Tail0] = pred[Tail0]
           /\ pc[u] = "takePred" => pred'[key[u]] = pred[key[u]]
           /\ pc[u] = "takeLast" => pred'[Tail0] = pred[Tail0]
<1>. SUFFICES ASSUME NEW u \in Thread \ {t}
              PROVE  /\ \A m \in Node : Holds(u, m)' <=> Holds(u, m)
                     /\ \A a, b : Pending(u, a, b)' <=> Pending(u, a, b)
                     /\ pc[u] = "unlinkNext" => /\ next'[key[u]] = next[key[u]] /\ pred'[key[u]] = pred[key[u]]
                                                /\ pred'[next[key[u]]] = pred[next[key[u]]]
                     /\ pc[u] \in {"swing", "point", "link"} =>
                          /\ next'[key[u]] = next[key[u]] /\ pred'[key[u]] = pred[key[u]]
                          /\ pred'[Tail0] = pred[Tail0]
                     /\ pc[u] = "takePred" => pred'[key[u]] = pred[key[u]]
                     /\ pc[u] = "takeLast" => pred'[Tail0] = pred[Tail0]
  OBVIOUS
<1>1. \A n \in Node : Holds(u, n) => next'[n] = next[n] /\ pred'[n] = pred[n]
  BY OneHolder
<1>2. pc'[u] = pc[u] /\ key'[u] = key[u] /\ aim'[u] = aim[u] /\ Tail0 \in Node
  BY DEF Node
<1>3. pc[u] # "idle" => key[u] \in Node /\ next[key[u]] \in Node
  BY DEF LinkTypes, Keys, TypeOK, Inside, Node
<1>4. pc[u] \in {"aimPred", "takePred", "unlink", "unlinkNext", "aimLast", "takeLast", "append", "swing", "point", "link"}
        => next'[key[u]] = next[key[u]] /\ pred'[key[u]] = pred[key[u]]
  <2>1. pc[u] \in {"aimPred", "takePred", "unlink", "unlinkNext", "aimLast", "takeLast", "append", "swing", "point", "link"}
          => Holds(u, key[u])
    BY DEF Holds
  <2>. QED
    BY <1>1, <1>3, <2>1
<1>5. pc[u] \in {"takeLast", "append", "swing", "point", "link"} => pred'[Tail0] = pred[Tail0]
  <2>1. pc[u] \in {"takeLast", "append", "swing", "point", "link"} => Holds(u, Tail0)
    BY DEF Holds
  <2>. QED
    BY <1>1, <1>2, <2>1
<1>6. pc[u] = "unlinkNext" => pred'[next[key[u]]] = pred[next[key[u]]]
  <2>1. pc[u] = "unlinkNext" => Holds(u, next[key[u]])
    BY DEF Holds
  <2>. QED
    BY <1>1, <1>3, <2>1
<1>7. \A m \in Node : Holds(u, m)' <=> Holds(u, m)
  BY <1>2, <1>4, <1>5 DEF Holds
<1>8. \A a, b : Pending(u, a, b)' <=> Pending(u, a, b)
  BY <1>2, <1>4 DEF Pending
<1>. QED
  BY <1>4, <1>5, <1>6, <1>7, <1>8

LEMMA NoLoop ==
  ASSUME NEW s, Simple(s), NEW a
  PROVE  ~Adj(s, a, a)
<1>. SUFFICES ASSUME NEW i \in 0 .. Len(s), At(s, i) = At(s, i + 1) PROVE FALSE
  BY DEF Adj
<1>1. Len(s) \in Nat /\ i \in 0 .. Len(s) + 1 /\ i + 1 \in 0 .. Len(s) + 1 /\ i # i + 1
  BY DEF Simple
<1>. QED
  BY <1>1, AtOnce

\* The neighbours of a node whose lock is held are those its links name.
LEMMA HeldNode ==
  ASSUME TypeOK, LinkTypes, NEW s, Sound(s), NEW t \in Thread,
         pc[t] \in {"takePred", "unlink"}
  PROVE  /\ Adj(s, pred[key[t]], key[t]) /\ Adj(s, key[t], next[key[t]])
         /\ pc[t] = "unlink" => pred[next[key[t]]] = key[t]
<1>. DEFINE k == key[t]
<1>0. /\ Simple(s) /\ Forward(s) /\ Backward(s) /\ Locking
      /\ ToSet(s) \subseteq Key /\ Key \subseteq Node /\ Head0 \in Node /\ Tail0 \in Node
  BY DEF Sound, Listed, TypeOK, Node
<1>1. k \in ToSet(s) /\ k \in Node /\ k # Tail0
  BY NodeOfGet DEF Moving
<1>2. PICK p, q : Adj(s, p, k) /\ Adj(s, k, q)
  BY <1>0, <1>1, Neighbours
<1>3. p \in Node /\ q \in Node
  BY <1>0, <1>2, Neighbours
<1>4. next[k] = q
  BY <1>0, <1>1, <1>2, <1>3 DEF Forward
<1>5. Holds(t, k)
  BY DEF Holds
<1>6. pred[k] = p
  <2>1. ASSUME NEW u \in Thread, Pending(u, p, k) PROVE FALSE
    <3>1. pc[u] = "unlinkNext" /\ next[key[u]] = k
      BY <1>1, <2>1 DEF Pending
    <3>2. Holds(u, k)
      BY <3>1 DEF Holds
    <3>. QED
      BY <1>0, <1>1, <1>5, <3>1, <3>2, OneHolder
  <2>. QED
    BY <1>0, <1>1, <1>2, <1>3, <2>1 DEF Backward
<1>7. pred[q] = k
  <2>1. ASSUME NEW u \in Thread, Pending(u, k, q) PROVE FALSE
    <3>1. pred[key[u]] = k /\ pc[u] \in {"unlinkNext", "point", "link"}
      BY <2>1 DEF Pending
    <3>2. Holds(u, k)
      BY <3>1 DEF Holds
    <3>. QED
      BY <1>0, <1>1, <1>5, <3>1, <3>2, OneHolder
  <2>. QED
    BY <1>0, <1>1, <1>2, <1>3, <2>1 DEF Backward
<1>. QED
  BY <1>2, <1>4, <1>6, <1>7

LEMMA UnlinkPredSound ==
  ASSUME TypeOK, LinkTypes, NEW s, Sound(s), NEW t \in Thread, UnlinkPred(t)
  PROVE  \E r \in Seq(Key) : Sound(r)'
<1>. DEFINE k == key[t]
            a == pred[key[t]]
            b == next[key[t]]
<1>0. /\ Simple(s) /\ Forward(s) /\ Backward(s) /\ Cuts(s) /\ Ends(s) /\ Ahead(s)
      /\ Locking /\ Distinct /\ Aimed /\ ToSet(s) = map \ Off
      /\ ToSet(s) \subseteq Key /\ Key \subseteq Node /\ Head0 \in Node /\ Tail0 \in Node
  BY DEF Sound, Listed, TypeOK, Node
<1>1. /\ pc[t] = "unlink" /\ pc'[t] = "unlinkNext" /\ \A u \in Thread \ {t} : pc'[u] = pc[u]
      /\ UNCHANGED <<map, pred, owner, key, aim>>
  BY DEF UnlinkPred, Goto, TypeOK
<1>2. /\ k \in ToSet(s) /\ k \in Node /\ k # Tail0 /\ k \in map
      /\ \A u \in Thread \ {t} : pc[u] # "idle" => key[u] # k
  BY <1>1, NodeOfGet DEF Moving
<1>3. Adj(s, a, k) /\ Adj(s, k, b) /\ pred[b] = k
  BY <1>1, HeldNode
<1>4. a \in Node /\ b \in Node /\ (a = Head0 \/ a \in ToSet(s)) /\ a # k
  BY <1>0, <1>3, Neighbours, NoLoop
<1>5. \A n \in Node : next'[n] = IF n = a THEN b ELSE next[n]
  BY <1>4 DEF UnlinkPred, TypeOK
<1>6. Holds(t, k) /\ Holds(t, a) /\ Holds(t, b)
  BY <1>1 DEF Holds
<1>7. \A u \in Thread \ {t} :
           /\ \A m \in Node : Holds(u, m)' <=> Holds(u, m)
           /\ \A x, y : Pending(u, x, y)' <=> Pending(u, x, y)
           /\ pc[u] = "unlinkNext" => next'[key[u]] = next[key[u]]
           /\ pc[u] \in {"swing", "point", "link"} => next'[key[u]] = next[key[u]]
  BY <1>0, <1>1, <1>5, <1>6, OthersRely
<1>8. PICK r : /\ Simple(r) /\ ToSet(r) = ToSet(s) \ {k}
               /\ \A x, y : Adj(r, x, y) <=> \/ Adj(s, x, y) /\ x # k /\ y # k
                                             \/ Adj(s, x, k) /\ Adj(s, k, y)
               /\ \A x, y : Before(s, x, y) /\ x # k /\ y # k => Before(r, x, y)
  BY <1>0, <1>2, RemoveIs
<1>9. Off' = Off \cup {k}
  <2>1. {u \in Thread : pc'[u] \in Moving} = {u \in Thread : pc[u] \in Moving} \cup {t}
    BY <1>1 DEF Moving
  <2>. QED
    BY <1>1, <2>1 DEF Off
<1>10. Distinct'
  BY <1>0, <1>1 DEF Distinct, Inside
<1>11. Locking'
  <2>1. \A m \in Node : Holds(t, m)' <=> Holds(t, m)
    BY <1>1, <1>2, <1>4, <1>5 DEF Holds
  <2>. QED
    BY <1>0, <1>1, <1>7, <2>1 DEF Locking
<1>12. Aimed'
  BY <1>0, <1>1 DEF Aimed
<1>13. Forward(r)'
  <2>. SUFFICES ASSUME NEW x \in Node, NEW y \in Node, Adj(r, x, y) PROVE next'[x] = y
    BY DEF Forward
  <2>1. CASE Adj(s, x, y) /\ x # k /\ y # k
    BY <1>0, <1>3, <1>5, <2>1, OneNeighbour DEF Forward
  <2>2. CASE Adj(s, x, k) /\ Adj(s, k, y)
    BY <1>0, <1>3, <1>5, <2>2, OneNeighbour
  <2>. QED
    BY <1>8, <2>1, <2>2
<1>14. Backward(r)'
  <2>. SUFFICES ASSUME NEW x \in Node, NEW y \in Node, Adj(r, x, y)
                PROVE  pred'[y] = x \/ \E u \in Thread : Pending(u, x, y)'
    BY DEF Backward
  <2>1. CASE Adj(s, x, y) /\ x # k /\ y # k
    <3>1. CASE pred[y] = x
      BY <1>1, <3>1
    <3>2. ASSUME NEW u \in Thread, Pending(u, x, y) PROVE Pending(u, x, y)'
      <4>1. u # t
        BY <1>1, <3>2 DEF Pending
      <4>. QED
        BY <1>7, <3>2, <4>1
    <3>. QED
      BY <1>0, <2>1, <3>1, <3>2 DEF Backward
  <2>2. CASE Adj(s, x, k) /\ Adj(s, k, y)
    <3>1. x = a /\ y = b
      BY <1>0, <1>3, <2>2, OneNeighbour
    <3>2. Pending(t, x, y)'
      BY <1>1, <1>2, <1>4, <1>5, <3>1 DEF Pending
    <3>. QED
      BY <3>2
  <2>. QED
    BY <1>8, <2>1, <2>2
<1>15. Cuts(r)'
  <2>. SUFFICES ASSUME NEW u \in Thread, pc'[u] = "unlinkNext"
                PROVE  Adj(r, pred[key[u]], next'[key[u]]) /\ pred[next'[key[u]]] = key[u]
    BY <1>1 DEF Cuts
  <2>1. CASE u = t
    BY <1>1, <1>2, <1>3, <1>4, <1>5, <1>8, <2>1
  <2>2. CASE u # t
    <3>1. pc[u] = "unlinkNext" /\ next'[key[u]] = next[key[u]]
      BY <1>1, <1>7, <2>2
    <3>2. Adj(s, pred[key[u]], next[key[u]]) /\ pred[next[key[u]]] = key[u]
      BY <1>0, <3>1 DEF Cuts
    <3>3. Holds(u, pred[key[u]]) /\ Holds(u, next[key[u]])
      BY <3>1 DEF Holds
    <3>4. pred[key[u]] # k /\ next[key[u]] # k
      BY <1>0, <1>2, <1>6, <2>2, <3>3, OneHolder
    <3>. QED
      BY <1>8, <3>1, <3>2, <3>4
  <2>. QED
    BY <2>1, <2>2
<1>16. Ends(r)'
  <2>. SUFFICES ASSUME NEW u \in Thread, pc'[u] \in {"swing", "point", "link"}
                PROVE  /\ Adj(r, pred[key[u]], Tail0)
                       /\ pc'[u] \in {"point", "link"} => pred[Tail0] = key[u]
                       /\ pc'[u] = "link" => next'[key[u]] = Tail0
    BY <1>1 DEF Ends
  <2>1. u # t /\ pc[u] = pc'[u] /\ next'[key[u]] = next[key[u]]
    BY <1>1, <1>7
  <2>2. Adj(s, pred[key[u]], Tail0) /\ Holds(u, pred[key[u]])
    BY <1>0, <2>1 DEF Ends, Holds
  <2>3. pred[key[u]] # k
    BY <1>0, <1>2, <1>6, <2>1, <2>2, OneHolder
  <2>. QED
    BY <1>0, <1>2, <1>8, <2>1, <2>2, <2>3 DEF Ends
<1>17. Ahead(r)'
  <2>. SUFFICES ASSUME NEW u \in Thread, pc'[u] \in {"takeNext", "takeNode"}
                PROVE  aim[u] \in Off' \/ Before(r, key[u], aim[u])
    BY <1>1 DEF Ahead
  <2>1. u # t /\ pc[u] = pc'[u] /\ key[u] # k
    BY <1>1, <1>2
  <2>2. aim[u] \in Off \/ Before(s, key[u], aim[u])
    BY <1>0, <2>1 DEF Ahead
  <2>. QED
    BY <1>8, <1>9, <2>1, <2>2
<1>. QED
  BY <1>0, <1>1, <1>8, <1>9, <1>10, <1>11, <1>12, <1>13, <1>14, <1>15, <1>16, <1>17 DEF Sound, Listed, Simple
LEMMA UnlinkNextSound ==
  ASSUME TypeOK, LinkTypes, NEW s, Sound(s), NEW t \in Thread, UnlinkNext(t)
  PROVE  Sound(s)'
<1>. DEFINE k == key[t]
            a == pred[key[t]]
            b == next[key[t]]
<1>0. /\ Simple(s) /\ Forward(s) /\ Backward(s) /\ Cuts(s) /\ Ends(s) /\ Ahead(s)
      /\ Locking /\ Distinct /\ Aimed /\ ToSet(s) = map \ Off
      /\ ToSet(s) \subseteq Key /\ Key \subseteq Node /\ Head0 \in Node /\ Tail0 \in Node
  BY DEF Sound, Listed, TypeOK, Node
<1>1. /\ pc[t] = "unlinkNext" /\ pc'[t] = "test" /\ \A u \in Thread \ {t} : pc'[u] = pc[u]
      /\ UNCHANGED <<map, next, key, aim>> /\ Release(t)
  BY DEF UnlinkNext, Goto, TypeOK
<1>2. /\ k \notin ToSet(s) /\ k \in Node /\ k # Tail0 /\ k # Head0
      /\ \A u \in Thread \ {t} : pc[u] # "idle" => key[u] # k
  BY <1>1, NodeOfGet DEF Moving
<1>3. Adj(s, a, b)
  BY <1>0, <1>1 DEF Cuts
<1>4. a \in Node /\ b \in Node /\ (b = Tail0 \/ b \in ToSet(s))
  BY <1>0, <1>3, Neighbours
<1>5. \A n \in Node : pred'[n] = IF n = b THEN a ELSE pred[n]
  BY <1>4 DEF UnlinkNext, TypeOK
<1>6. Holds(t, b)
  BY <1>1 DEF Holds
<1>7. \A u \in Thread \ {t} :
           /\ \A m \in Node : Holds(u, m)' <=> Holds(u, m)
           /\ \A x, y : Pending(u, x, y)' <=> Pending(u, x, y)
           /\ pc[u] = "unlinkNext" => /\ pred'[key[u]] = pred[key[u]]
                                      /\ pred'[next[key[u]]] = pred[next[key[u]]]
           /\ pc[u] \in {"swing", "point", "link"} => /\ pred'[key[u]] = pred[key[u]]
                                                      /\ pred'[Tail0] = pred[Tail0]
           /\ pc[u] = "takePred" => pred'[key[u]] = pred[key[u]]
           /\ pc[u] = "takeLast" => pred'[Tail0] = pred[Tail0]
  BY <1>0, <1>1, <1>5, <1>6, OthersRely
<1>8. Off' = Off
  <2>1. {u \in Thread : pc'[u] \in Moving} = {u \in Thread : pc[u] \in Moving}
    BY <1>1 DEF Moving
  <2>. QED
    BY <1>1, <2>1 DEF Off
<1>9. Distinct'
  BY <1>0, <1>1 DEF Distinct, Inside
<1>10. Locking'
  <2>1. \A m \in Node : ~Holds(t, m)'
    BY <1>1 DEF Holds
  <2>. QED
    BY <1>0, <1>1, <1>7, <2>1, Releases
<1>11. Aimed'
  BY <1>0, <1>1, <1>7 DEF Aimed
<1>12. Forward(s)'
  BY <1>0, <1>1 DEF Forward
<1>13. Backward(s)'
  <2>. SUFFICES ASSUME NEW x \in Node, NEW y \in Node, Adj(s, x, y)
                PROVE  pred'[y] = x \/ \E u \in Thread : Pending(u, x, y)'
    BY DEF Backward
  <2>1. CASE y = b
    BY <1>0, <1>3, <1>5, <2>1, OneNeighbour
  <2>2. CASE y # b
    <3>1. CASE pred[y] = x
      BY <1>5, <2>2, <3>1
    <3>2. ASSUME NEW u \in Thread, Pending(u, x, y) PROVE Pending(u, x, y)'
      <4>1. u # t
        BY <1>1, <2>2, <3>2 DEF Pending
      <4>. QED
        BY <1>7, <3>2, <4>1
    <3>. QED
      BY <1>0, <3>1, <3>2 DEF Backward
  <2>. QED
    BY <2>1, <2>2
<1>14. Cuts(s)'
  <2>. SUFFICES ASSUME NEW u \in Thread, pc'[u] = "unlinkNext"
                PROVE  Adj(s, pred'[key[u]], next[key[u]]) /\ pred'[next[key[u]]] = key[u]
    BY <1>1 DEF Cuts
  <2>1. u # t /\ pc[u] = "unlinkNext"
    BY <1>1
  <2>. QED
    BY <1>0, <1>7, <2>1 DEF Cuts
<1>15. Ends(s)'
  <2>. SUFFICES ASSUME NEW u \in Thread, pc'[u] \in {"swing", "point", "link"}
                PROVE  /\ Adj(s, pred'[key[u]], Tail0)
                       /\ pc'[u] \in {"point", "link"} => pred'[Tail0] = key[u]
                       /\ pc'[u] = "link" => next[key[u]] = Tail0
    BY <1>1 DEF Ends
  <2>1. u # t /\ pc[u] = pc'[u]
    BY <1>1
  <2>. QED
    BY <1>0, <1>7, <2>1 DEF Ends
<1>16. Ahead(s)'
  BY <1>0, <1>1, <1>8 DEF Ahead
<1>. QED
  BY <1>0, <1>1, <1>8, <1>9, <1>10, <1>11, <1>12, <1>13, <1>14, <1>15, <1>16 DEF Sound, Listed

\* The stores of the second block up to the last leave the list as it is: the
\* node is not on it, and the link back from tail_ is the appender's to write.
LEMMA StoresSound ==
  ASSUME TypeOK, LinkTypes, NEW s, Sound(s), NEW t \in Thread,
         SetPred(t) \/ SwingTail(t) \/ SetNext(t)
  PROVE  Sound(s)'
<1>. DEFINE k == key[t]
<1>0. /\ Simple(s) /\ Forward(s) /\ Backward(s) /\ Cuts(s) /\ Ends(s) /\ Ahead(s)
      /\ Locking /\ Distinct /\ Aimed /\ ToSet(s) = map \ Off
      /\ ToSet(s) \subseteq Key /\ Key \subseteq Node /\ Head0 \in Node /\ Tail0 \in Node
  BY DEF Sound, Listed, TypeOK, Node
<1>1. /\ \A u \in Thread \ {t} : pc'[u] = pc[u]
      /\ UNCHANGED <<map, key, aim, owner>>
      /\ pc[t] \in {"append", "swing", "point"} /\ pc'[t] \in {"swing", "point", "link"}
      /\ pc[t] \in Moving /\ pc'[t] \in Moving /\ pc[t] # "idle" /\ pc'[t] # "idle"
  BY DEF SetPred, SwingTail, SetNext, Stores, Goto, TypeOK, Moving
<1>2. /\ k \notin ToSet(s) /\ k \in Node /\ k # Tail0 /\ k # Head0
      /\ \A u \in Thread \ {t} : pc[u] # "idle" => key[u] # k
  BY <1>1, NodeOfGet
<1>3. PICK last : Adj(s, last, Tail0)
  BY <1>0, Neighbours
<1>4. last \in Node /\ last # k
  BY <1>0, <1>2, <1>3, Neighbours
<1>5. Holds(t, k) /\ Holds(t, Tail0)
  BY <1>1 DEF Holds
<1>6. \A n \in Node :
        /\ pred'[n] = IF SetPred(t) /\ n = k THEN pred[Tail0]
                      ELSE IF SwingTail(t) /\ n = Tail0 THEN k ELSE pred[n]
        /\ next'[n] = IF SetNext(t) /\ n = k THEN Tail0 ELSE next[n]
  <2>0. k \in Node
    BY <1>2
  <2>1. CASE SetPred(t)
    <3>1. ~SwingTail(t) /\ ~SetNext(t)
      BY <2>1 DEF SetPred, SwingTail, SetNext, Stores, Goto
    <3>. QED
      BY <2>0, <2>1, <3>1 DEF SetPred, Stores, TypeOK
  <2>2. CASE SwingTail(t)
    <3>1. ~SetPred(t) /\ ~SetNext(t)
      BY <2>2 DEF SetPred, SwingTail, SetNext, Stores, Goto
    <3>. QED
      BY <1>0, <2>0, <2>2, <3>1 DEF SwingTail, Stores, TypeOK
  <2>3. CASE SetNext(t)
    <3>1. ~SetPred(t) /\ ~SwingTail(t)
      BY <2>3 DEF SetPred, SwingTail, SetNext, Stores, Goto
    <3>. QED
      BY <2>0, <2>3, <3>1 DEF SetNext, Stores, TypeOK
  <2>. QED
    BY <2>1, <2>2, <2>3
<1>7. \A u \in Thread \ {t} :
           /\ \A m \in Node : Holds(u, m)' <=> Holds(u, m)
           /\ \A x, y : Pending(u, x, y)' <=> Pending(u, x, y)
           /\ pc[u] = "unlinkNext" => /\ next'[key[u]] = next[key[u]] /\ pred'[key[u]] = pred[key[u]]
                                      /\ pred'[next[key[u]]] = pred[next[key[u]]]
           /\ pc[u] \in {"swing", "point", "link"} => /\ next'[key[u]] = next[key[u]]
                                                      /\ pred'[key[u]] = pred[key[u]]
                                                      /\ pred'[Tail0] = pred[Tail0]
           /\ pc[u] = "takePred" => pred'[key[u]] = pred[key[u]]
           /\ pc[u] = "takeLast" => pred'[Tail0] = pred[Tail0]
  <2>1. \A n \in Node : next'[n] # next[n] \/ pred'[n] # pred[n] => Holds(t, n)
    BY <1>5, <1>6
  <2>. QED
    BY <1>0, <1>1, <2>1, OthersRely
<1>8. Off' = Off
  <2>1. {u \in Thread : pc'[u] \in Moving} = {u \in Thread : pc[u] \in Moving}
    BY <1>1
  <2>. QED
    BY <1>1, <2>1 DEF Off
<1>9. Distinct'
  BY <1>0, <1>1 DEF Distinct, Inside
\* Nobody else has the link back from tail_ to write.
<1>10. \A u \in Thread : \A x : Pending(u, x, Tail0) => u = t
  <2>. SUFFICES ASSUME NEW u \in Thread, NEW x, Pending(u, x, Tail0) PROVE u = t
    OBVIOUS
  <2>1. Holds(u, Tail0)
    BY DEF Pending, Holds
  <2>. QED
    BY <1>0, <1>5, <2>1, OneHolder
\* What the stores have come to
<1>11. /\ pc'[t] \in {"swing", "point", "link"} => pred'[k] = last
       /\ pc'[t] \in {"point", "link"} => pred'[Tail0] = k
       /\ pc'[t] = "link" => next'[k] = Tail0
       /\ pc'[t] = "swing" => pred'[Tail0] = last
  <2>1. CASE SetPred(t)
    <3>1. pc[t] = "append" /\ pc'[t] = "swing"
      BY <2>1 DEF SetPred, Stores, Goto, TypeOK
    <3>2. pred[Tail0] = last
      BY <1>0, <1>3, <1>4, <1>10, <3>1 DEF Backward, Pending
    <3>. QED
      BY <1>0, <1>2, <1>6, <2>1, <3>1, <3>2 DEF SetPred, SwingTail, Stores, Goto
  <2>2. CASE SwingTail(t)
    <3>1. pc[t] = "swing" /\ pc'[t] = "point"
      BY <2>2 DEF SwingTail, Stores, Goto, TypeOK
    <3>2. pred[k] = last
      BY <1>0, <1>3, <3>1, OneNeighbour DEF Ends
    <3>. QED
      BY <1>0, <1>2, <1>6, <2>2, <3>1, <3>2 DEF SetPred, SwingTail, Stores, Goto
  <2>3. CASE SetNext(t)
    <3>1. pc[t] = "point" /\ pc'[t] = "link"
      BY <2>3 DEF SetNext, Stores, Goto, TypeOK
    <3>2. pred[k] = last /\ pred[Tail0] = k
      BY <1>0, <1>3, <3>1, OneNeighbour DEF Ends
    <3>. QED
      BY <1>0, <1>2, <1>6, <2>3, <3>1, <3>2 DEF SetPred, SwingTail, SetNext, Stores, Goto
  <2>. QED
    BY <2>1, <2>2, <2>3
<1>12. Locking'
  <2>1. \A m \in Node : Holds(t, m)' <=> Holds(t, m)
    <3>1. \A m \in Node : Holds(t, m)' <=> m \in {Tail0, k, last}
      BY <1>1, <1>11 DEF Holds
    <3>2. \A m \in Node : Holds(t, m) <=> m \in {Tail0, k, last}
      <4>1. CASE pc[t] = "append"
        <5>1. pred[Tail0] = last
          BY <1>0, <1>3, <1>4, <1>10, <4>1 DEF Backward, Pending
        <5>. QED
          BY <4>1, <5>1 DEF Holds
      <4>2. CASE pc[t] \in {"swing", "point"}
        <5>1. pred[k] = last
          BY <1>0, <1>3, <4>2, OneNeighbour DEF Ends
        <5>. QED
          BY <4>2, <5>1 DEF Holds
      <4>. QED
        BY <1>1, <4>1, <4>2
    <3>. QED
      BY <3>1, <3>2
  <2>. QED
    BY <1>0, <1>1, <1>7, <2>1 DEF Locking
<1>13. Aimed'
  BY <1>0, <1>1, <1>7 DEF Aimed
<1>14. Forward(s)'
  <2>. SUFFICES ASSUME NEW x \in Node, NEW y \in Node, Adj(s, x, y) PROVE next'[x] = y
    BY DEF Forward
  <2>1. x # k
    BY <1>0, <1>2, Neighbours
  <2>. QED
    BY <1>0, <1>6, <2>1 DEF Forward
<1>15. Backward(s)'
  <2>. SUFFICES ASSUME NEW x \in Node, NEW y \in Node, Adj(s, x, y)
                PROVE  pred'[y] = x \/ \E u \in Thread : Pending(u, x, y)'
    BY DEF Backward
  <2>1. y # k
    BY <1>0, <1>2, Neighbours
  <2>2. CASE y = Tail0
    <3>1. x = last
      BY <1>0, <1>3, <2>2, OneNeighbour
    <3>. QED
      BY <1>1, <1>11, <2>2, <3>1 DEF Pending
  <2>3. CASE y # Tail0
    <3>1. CASE pred[y] = x
      BY <1>6, <2>1, <2>3, <3>1
    <3>2. ASSUME NEW u \in Thread, Pending(u, x, y) PROVE Pending(u, x, y)'
      <4>1. u # t
        BY <1>1, <2>3, <3>2 DEF Pending
      <4>. QED
        BY <1>7, <3>2, <4>1
    <3>. QED
      BY <1>0, <3>1, <3>2 DEF Backward
  <2>. QED
    BY <2>2, <2>3
<1>16. Cuts(s)'
  <2>. SUFFICES ASSUME NEW u \in Thread, pc'[u] = "unlinkNext"
                PROVE  Adj(s, pred'[key[u]], next'[key[u]]) /\ pred'[next'[key[u]]] = key[u]
    BY <1>1 DEF Cuts
  <2>1. u # t /\ pc[u] = "unlinkNext"
    BY <1>1
  <2>. QED
    BY <1>0, <1>7, <2>1 DEF Cuts
<1>17. Ends(s)'
  <2>. SUFFICES ASSUME NEW u \in Thread, pc'[u] \in {"swing", "point", "link"}
                PROVE  /\ Adj(s, pred'[key[u]], Tail0)
                       /\ pc'[u] \in {"point", "link"} => pred'[Tail0] = key[u]
                       /\ pc'[u] = "link" => next'[key[u]] = Tail0
    BY <1>1 DEF Ends
  <2>1. CASE u = t
    BY <1>3, <1>11, <2>1
  <2>2. CASE u # t
    BY <1>0, <1>1, <1>7, <2>2 DEF Ends
  <2>. QED
    BY <2>1, <2>2
<1>18. Ahead(s)'
  BY <1>0, <1>1, <1>8 DEF Ahead
<1>. QED
  BY <1>0, <1>1, <1>8, <1>9, <1>12, <1>13, <1>14, <1>15, <1>16, <1>17, <1>18 DEF Sound, Listed
LEMMA LinkLastSound ==
  ASSUME TypeOK, LinkTypes, NEW s, Sound(s), NEW t \in Thread, LinkLast(t)
  PROVE  \E r \in Seq(Key) : Sound(r)'
<1>. DEFINE k == key[t]
            a == pred[key[t]]
<1>0. /\ Simple(s) /\ Forward(s) /\ Backward(s) /\ Cuts(s) /\ Ends(s) /\ Ahead(s)
      /\ Locking /\ Distinct /\ Aimed /\ ToSet(s) = map \ Off
      /\ ToSet(s) \subseteq Key /\ Key \subseteq Node /\ Head0 \in Node /\ Tail0 \in Node
  BY DEF Sound, Listed, TypeOK, Node
<1>1. /\ pc[t] = "link" /\ pc'[t] = "stamp" /\ \A u \in Thread \ {t} : pc'[u] = pc[u]
      /\ UNCHANGED <<map, pred, key, aim>> /\ Release(t)
  BY DEF LinkLast, Stores, Goto, TypeOK
<1>2. /\ k \notin ToSet(s) /\ k \in Node /\ k \in Key /\ k \in map /\ k # Tail0 /\ k # Head0
      /\ \A u \in Thread \ {t} : pc[u] # "idle" => key[u] # k
  BY <1>1, NodeOfGet DEF Moving
<1>3. Adj(s, a, Tail0) /\ pred[Tail0] = k /\ next[k] = Tail0
  BY <1>0, <1>1 DEF Ends
<1>4. a \in Node /\ (a = Head0 \/ a \in ToSet(s)) /\ a # k
  BY <1>0, <1>2, <1>3, Neighbours
<1>5. \A n \in Node : next'[n] = IF n = a THEN k ELSE next[n]
  BY <1>4 DEF LinkLast, Stores, TypeOK
<1>6. Holds(t, a) /\ Holds(t, Tail0)
  BY <1>1 DEF Holds
<1>7. \A u \in Thread \ {t} :
           /\ \A m \in Node : Holds(u, m)' <=> Holds(u, m)
           /\ \A x, y : Pending(u, x, y)' <=> Pending(u, x, y)
           /\ pc[u] = "unlinkNext" => next'[key[u]] = next[key[u]]
  BY <1>0, <1>1, <1>5, <1>6, OthersRely
<1>8. PICK r :
      /\ Simple(r) /\ ToSet(r) = ToSet(s) \cup {k}
      /\ \A x, y : Adj(r, x, y) <=> \/ Adj(s, x, y) /\ y # Tail0
                                    \/ Adj(s, x, Tail0) /\ y = k
                                    \/ x = k /\ y = Tail0
      /\ \A x, y : Before(s, x, y) => Before(r, x, y)
      /\ \A x \in ToSet(s) : Before(r, x, k)
  <2>. DEFINE q == Append(s, k)
  <2>1. /\ Simple(q) /\ ToSet(q) = ToSet(s) \cup {k}
        /\ \A x, y : Adj(q, x, y) <=> \/ Adj(s, x, y) /\ y # Tail0
                                      \/ Adj(s, x, Tail0) /\ y = k
                                      \/ x = k /\ y = Tail0
        /\ \A x, y : Before(s, x, y) => Before(q, x, y)
        /\ \A x \in ToSet(s) : Before(q, x, k)
    BY <1>0, <1>2, AppendIs
  <2>. HIDE DEF q
  <2>. QED
    BY <2>1
<1>9. Off' = Off \ {k}
  <2>1. {u \in Thread : pc'[u] \in Moving} = {u \in Thread : pc[u] \in Moving} \ {t}
    BY <1>1 DEF Moving
  <2>2. \A u \in Thread : pc[u] \in Moving /\ u # t => key[u] # k
    BY <1>2 DEF Moving
  <2>. QED
    BY <1>1, <2>1, <2>2 DEF Off
<1>10. Distinct'
  BY <1>0, <1>1 DEF Distinct, Inside
<1>11. Locking'
  <2>1. \A m \in Node : ~Holds(t, m)'
    BY <1>1 DEF Holds
  <2>. QED
    BY <1>0, <1>1, <1>7, <2>1, Releases
<1>12. Aimed'
  BY <1>0, <1>1 DEF Aimed
<1>13. Forward(r)'
  <2>. SUFFICES ASSUME NEW x \in Node, NEW y \in Node, Adj(r, x, y) PROVE next'[x] = y
    BY DEF Forward
  <2>1. CASE Adj(s, x, y) /\ y # Tail0
    BY <1>0, <1>3, <1>5, <2>1, OneNeighbour DEF Forward
  <2>2. CASE Adj(s, x, Tail0) /\ y = k
    BY <1>0, <1>3, <1>5, <2>2, OneNeighbour
  <2>3. CASE x = k /\ y = Tail0
    BY <1>3, <1>4, <1>5, <2>3
  <2>. QED
    BY <1>8, <2>1, <2>2, <2>3
<1>14. Backward(r)'
  <2>. SUFFICES ASSUME NEW x \in Node, NEW y \in Node, Adj(r, x, y)
                PROVE  pred[y] = x \/ \E u \in Thread : Pending(u, x, y)'
    BY <1>1 DEF Backward
  <2>1. CASE Adj(s, x, y) /\ y # Tail0
    <3>1. ASSUME NEW u \in Thread, Pending(u, x, y) PROVE Pending(u, x, y)'
      <4>1. u # t
        BY <1>1, <2>1, <3>1 DEF Pending
      <4>. QED
        BY <1>7, <3>1, <4>1
    <3>. QED
      BY <1>0, <2>1, <3>1 DEF Backward
  <2>2. CASE Adj(s, x, Tail0) /\ y = k
    BY <1>0, <1>3, <2>2, OneNeighbour
  <2>3. CASE x = k /\ y = Tail0
    BY <1>3, <2>3
  <2>. QED
    BY <1>8, <2>1, <2>2, <2>3
<1>15. \A u \in Thread \ {t} : ~Holds(u, Tail0)
  BY <1>0, <1>6, OneHolder
<1>16. Cuts(r)'
  <2>. SUFFICES ASSUME NEW u \in Thread, pc'[u] = "unlinkNext"
                PROVE  Adj(r, pred[key[u]], next'[key[u]]) /\ pred[next'[key[u]]] = key[u]
    BY <1>1 DEF Cuts
  <2>1. u # t /\ pc[u] = "unlinkNext" /\ next'[key[u]] = next[key[u]]
    BY <1>1, <1>7
  <2>2. Adj(s, pred[key[u]], next[key[u]]) /\ pred[next[key[u]]] = key[u]
    BY <1>0, <2>1 DEF Cuts
  <2>3. next[key[u]] # Tail0
    BY <1>15, <2>1 DEF Holds
  <2>. QED
    BY <1>8, <2>1, <2>2, <2>3
<1>17. Ends(r)'
  <2>. SUFFICES ASSUME NEW u \in Thread, pc'[u] \in {"swing", "point", "link"} PROVE FALSE
    BY DEF Ends
  <2>1. u # t /\ pc[u] = pc'[u]
    BY <1>1
  <2>. QED
    BY <1>15, <2>1 DEF Holds
<1>18. Ahead(r)'
  <2>. SUFFICES ASSUME NEW u \in Thread, pc'[u] \in {"takeNext", "takeNode"}
                PROVE  aim[u] \in Off' \/ Before(r, key[u], aim[u])
    BY <1>1 DEF Ahead
  <2>1. u # t /\ pc[u] = pc'[u] /\ pc[u] \notin Moving /\ pc[u] # "idle"
    BY <1>1 DEF Moving
  <2>2. key[u] \in ToSet(s)
    BY <2>1, NodeOfGet
  <2>3. aim[u] \in Off \/ Before(s, key[u], aim[u])
    BY <1>0, <2>1 DEF Ahead
  <2>. QED
    BY <1>8, <1>9, <2>2, <2>3
<1>19. ToSet(r) = (map \ Off)'
  BY <1>0, <1>1, <1>2, <1>8, <1>9
<1>. QED
  BY <1>8, <1>10, <1>11, <1>12, <1>13, <1>14, <1>16, <1>17, <1>18, <1>19 DEF Sound, Listed, Simple

LEMMA GetSound ==
  ASSUME TypeOK, LinkTypes, NEW s \in Seq(Key), Sound(s), NEW t \in Thread, GetFind(t) \/ GetStep(t),
         hazard' = {}
  PROVE  \E r \in Seq(Key) : Sound(r)'
BY AimNextSound, TakesSound, TakeNodeSound, AimsSound, TestSound, GetFindSound, StampSound, UnlinkPredSound,
   UnlinkNextSound, StoresSound, LinkLastSound DEF GetStep

\* Hazards are recorded, and only a Put changes the map or the counter.
LEMMA OthersKeep ==
  ASSUME [Next]_vars
  PROVE  /\ hazard \subseteq hazard'
         /\ (~\E k \in Key : Put(k)) => map' = map /\ size' = size
<1>1. CASE \E t \in Thread : GetFind(t) \/ GetStep(t)
  BY <1>1 DEF GetFind, GetStep, AimNext, TakeNext, TakeNode, AimPred, TakePred, UnlinkPred, UnlinkNext,
              Test, TakeTail, TakeSelf, AimLast, TakeLast, SetPred, SwingTail, SetNext, LinkLast, Stamp,
              Locks, Aims, Stores, list
<1>2. CASE (\E t \in Thread : GetLost(t)) \/ (\E k \in Key : PutLost(k)) \/ Tick \/ UNCHANGED vars
  BY <1>2 DEF GetLost, PutLost, Tick, vars, list
<1>3. CASE \E k \in Key : Put(k)
  BY <1>3 DEF Put
<1>. QED
  BY <1>1, <1>2, <1>3 DEF Next

LEMMA ListInvNext == ListInv /\ [Next]_vars => ListInv'
<1>. SUFFICES ASSUME ListInv, [Next]_vars PROVE ListInv'
  OBVIOUS
<1>1. ASSUME NEW t \in Thread, GetFind(t) \/ GetStep(t) PROVE ListInv'
  <2>1. hazard \subseteq hazard'
    BY OthersKeep
  <2>2. TypeOK' /\ Keys'
    BY <1>1, GetTypes DEF ListInv
  <2>3. ASSUME hazard' = {}
        PROVE  ~lost' /\ LinkTypes' /\ \E r \in Seq(Key) : Sound(r)'
    <3>1. TypeOK /\ LinkTypes /\ ~lost
      BY <2>1, <2>3 DEF ListInv
    <3>2. PICK s \in Seq(Key) : Sound(s)
      BY <2>1, <2>3 DEF ListInv
    <3>3. \E r \in Seq(Key) : Sound(r)'
      BY <1>1, <2>3, <3>1, <3>2, GetSound
    <3>4. LinkTypes'
      BY <1>1, <3>1, GetLinks
    <3>5. lost' = lost
      BY <1>1 DEF GetFind, GetStep, AimNext, TakeNext, TakeNode, AimPred, TakePred, UnlinkPred, UnlinkNext,
                  Test, TakeTail, TakeSelf, AimLast, TakeLast, SetPred, SwingTail, SetNext, LinkLast, Stamp,
                  Locks, Aims, Stores
    <3>. QED
      BY <3>1, <3>3, <3>4, <3>5
  <2>. QED
    BY <2>2, <2>3 DEF ListInv
<1>2. ASSUME NEW k \in Key, Put(k) PROVE ListInv'
  BY <1>2, PutSound
<1>3. CASE (\E t \in Thread : GetLost(t)) \/ \E k \in Key : PutLost(k)
  <2>1. hazard' # {}
    BY <1>3, NoneLost DEF GetLost, PutLost
  <2>2. UNCHANGED <<list, owner, pc, key, aim, hazard>> /\ now' \in 0 .. MaxTime
    <3>1. UNCHANGED <<list, owner, pc, key, aim, hazard>> /\ (now' = now \/ now' \in Later)
      BY <1>3 DEF GetLost, PutLost
    <3>. QED
      BY <3>1, BoundsAssumption DEF Later, ListInv, TypeOK
  <2>3. lost' \in BOOLEAN
    <3>1. lost' = TRUE
      BY <1>3 DEF GetLost, PutLost
    <3>. QED
      BY <3>1
  <2>4. TypeOK' /\ Keys'
    BY <2>2, <2>3 DEF ListInv, TypeOK, Keys, Inside, list
  <2>. QED
    BY <2>1, <2>4 DEF ListInv
<1>4. CASE Tick \/ UNCHANGED vars
  <2>1. UNCHANGED <<size, map, next, pred, expire, owner, pc, key, aim, hazard, lost>>
    BY <1>4 DEF Tick, vars, list
  <2>2. now' \in 0 .. MaxTime
    BY <1>4, BoundsAssumption DEF Tick, vars, ListInv, TypeOK
  <2>3. TypeOK' /\ Keys' /\ (LinkTypes => LinkTypes')
    BY <2>1, <2>2 DEF ListInv, TypeOK, LinkTypes, Keys, Inside
  <2>4. \A s : Sound(s) => Sound(s)'
    BY <2>1 DEF Sound, Distinct, Locking, Aimed, Listed, Forward, Backward, Cuts, Ends, Ahead, Holds, Pending,
                Off, Inside
  <2>. QED
    BY <2>1, <2>3, <2>4 DEF ListInv
<1>. QED
  BY <1>1, <1>2, <1>3, <1>4 DEF Next

\* Unless a Get has found its node shared or its lock stale, no call follows a
\* link to freed memory or goes round for ever, and when no Get is inside the
\* list holds every entry once and is linked in both directions.
THEOREM ListIntact == Spec => []IntactUnlessHazard
<1>1. ListInv => IntactUnlessHazard
  <2>. SUFFICES ASSUME ListInv, Inside = {}, hazard = {} PROVE Intact
    BY DEF ListInv, IntactUnlessHazard
  <2>1. PICK s \in Seq(Key) : Sound(s)
    BY DEF ListInv
  <2>2. Simple(s) /\ ToSet(s) = map /\ Lists(s)
    BY <2>1, AtRest DEF ListInv
  <2>3. s \in SetToSeqs(map)
    BY <2>2, IsOrder DEF Simple
  <2>. QED
    BY <2>2, <2>3 DEF Intact
<1>. QED
  BY ListInvInit, ListInvNext, <1>1, PTL DEF Spec

-----------------------------------------------------------------------------
(* The size of the timed cache                                             *)

\* The counter is at least twice the entries, while the list is one.
HalfInv == hazard = {} => 2 * Cardinality(map) <= size /\ 2 * Cardinality(map) <= Capacity

\* Put adds its key, and when the counter is one below max_size_ or further it
\* takes an entry away.
LEMMA PutGrows ==
  ASSUME ListInv, hazard = {}, NEW k \in Key, Put(k)
  PROVE  IF PutPops THEN Cardinality(map') <= Cardinality(map)
                    ELSE Cardinality(map') <= Cardinality(map) + 1
<1>. DEFINE all == map \cup {k}
<1>1. MayPut(k) /\ TypeOK /\ Keys /\ IsFiniteSet(map)
  BY DEF Put, ListInv, Keys
<1>2. IsFiniteSet(all) /\ Cardinality(all) = Cardinality(map) + 1 /\ Cardinality(map) \in Nat
  BY <1>1, FS_AddElement, FS_CardinalityType DEF MayPut
<1>3. map' \subseteq all
  BY <1>1, PutTypes
<1>4. IsFiniteSet(map') /\ Cardinality(map') <= Cardinality(all) /\ Cardinality(map') \in Nat
  BY <1>2, <1>3, FS_Subset, FS_CardinalityType
<1>5. ASSUME PutPops PROVE Cardinality(map') <= Cardinality(map)
  <2>1. PICK a \in Seq(Key) : /\ Simple(a) /\ a # <<>> /\ ToSet(a) = all
                              /\ Through(a, NextAfterTail(k), PredAfterTail(k))
    BY <1>1, PutFinds
  <2>2. Len(a) \in Nat \ {0} /\ a[1] \in all /\ At(a, 1) = a[1] /\ a[1] \in Key
    <3>1. Len(a) \in Nat \ {0}
      BY <2>1
    <3>. QED
      BY <2>1, <3>1, AtIs DEF ToSet
  <2>3. NextAfterTail(k)[Head0] = a[1]
    <3>1. At(a, 0) = Head0 /\ 0 \in 0 .. Len(a) /\ 0 + 1 = 1
      BY <2>1, <2>2, AtIs
    <3>. QED
      BY <2>1, <2>2, <3>1 DEF Through
  <2>4. PutPop(k)
    BY <1>5, <2>2, <2>3, NodesAssumption DEF Put, Pops
  <2>5. PICK m \in 1 .. Len(a) : map' = all \ {a[i] : i \in 1 .. m}
    BY <1>1, <2>1, <2>4, PopsFirst
  <2>6. map' \subseteq all \ {a[1]}
    <3>1. 1 \in 1 .. m
      BY <2>2
    <3>. QED
      BY <2>5, <3>1
  <2>7. IsFiniteSet(all \ {a[1]}) /\ Cardinality(all \ {a[1]}) = Cardinality(all) - 1
    <3>. HIDE DEF all
    <3>. QED
      BY <1>2, <2>2, FS_RemoveElement
  <2>8. Cardinality(map') <= Cardinality(all) - 1
    BY <2>6, <2>7, FS_Subset
  <2>. QED
    BY <1>2, <1>4, <2>8
<1>. QED
  BY <1>2, <1>4, <1>5

LEMMA HalfInvInit == Init => HalfInv
BY FS_EmptySet, BoundsAssumption DEF Init, HalfInv

LEMMA HalfInvNext == ListInv /\ HalfInv /\ [Next]_vars => HalfInv'
<1>. SUFFICES ASSUME ListInv, HalfInv, [Next]_vars, hazard' = {}
              PROVE  2 * Cardinality(map') <= size' /\ 2 * Cardinality(map') <= Capacity
  BY DEF HalfInv
<1>1. hazard = {}
  BY OthersKeep
<1>2. ASSUME NEW k \in Key, Put(k)
      PROVE  2 * Cardinality(map') <= size' /\ 2 * Cardinality(map') <= Capacity
  <2>1. size' = IF PutPops THEN size + 1 ELSE size + 2
    BY <1>2 DEF Put, SizeAfterPut
  <2>2. Cardinality(map) \in Nat /\ Cardinality(map') \in Nat /\ size \in Nat
    <3>1. IsFiniteSet(map) /\ IsFiniteSet(map')
      BY <1>2, PutTypes DEF ListInv, Keys
    <3>. QED
      BY <3>1, FS_CardinalityType DEF ListInv, TypeOK
  <2>. QED
    BY <1>1, <1>2, <2>1, <2>2, PutGrows, BoundsAssumption DEF HalfInv, PutPops
<1>3. CASE ~\E k \in Key : Put(k)
  BY <1>1, <1>3, OthersKeep DEF HalfInv
<1>. QED
  BY <1>2, <1>3

\* While no two Gets have shared a node and none has held a stale lock, the
\* map never holds more than half of max_size_ entries.
THEOREM HalfFull == Spec => []AtMostHalf
<1>1. HalfInv => AtMostHalf
  BY DEF HalfInv, AtMostHalf
<1>. QED
  BY ListInvInit, ListInvNext, HalfInvInit, HalfInvNext, <1>1, PTL DEF Spec

\* While the same holds, no Put makes the cache larger once the counter has
\* reached max_size_.
THEOREM NoRefill == Spec => NeverRefills
<1>1. ListInv /\ [Next]_vars => [hazard = {} /\ size >= Capacity => Cardinality(map') <= Cardinality(map)]_vars
  <2>. SUFFICES ASSUME ListInv, [Next]_vars, hazard = {}, size >= Capacity
                PROVE  Cardinality(map') <= Cardinality(map)
    OBVIOUS
  <2>1. Cardinality(map) \in Nat
    BY FS_CardinalityType DEF ListInv, Keys
  <2>2. PutPops
    BY BoundsAssumption DEF ListInv, TypeOK, PutPops
  <2>3. ASSUME NEW k \in Key, Put(k) PROVE Cardinality(map') <= Cardinality(map)
    BY <2>2, <2>3, PutGrows
  <2>4. CASE ~\E k \in Key : Put(k)
    BY <2>1, <2>4, OthersKeep
  <2>. QED
    BY <2>3, <2>4
<1>. QED
  BY ListInvInit, ListInvNext, <1>1, PTL DEF Spec, NeverRefills

-----------------------------------------------------------------------------
(* Waiting                                                                  *)

\* The order in which locks are taken, from the largest number down: tail_,
\* then the nodes that are off the list, then those on it towards head_
Ranked(s, n, i) == \/ i \in 0 .. Len(s) /\ n = At(s, i)
                   \/ i = Len(s) + 1 /\ n \in Off
                   \/ i = Len(s) + 2 /\ n = Tail0

LEMMA RankIs ==
  ASSUME TypeOK, LinkTypes, NEW s, Sound(s)
  PROVE  /\ Len(s) \in Nat
         /\ \A n \in Off : \A j : Ranked(s, n, j) <=> j = Len(s) + 1
         /\ \A j : Ranked(s, Tail0, j) <=> j = Len(s) + 2
         /\ \A a, b : Before(s, a, b) =>
               \E i \in 0 .. Len(s) : Ranked(s, a, i) /\ \A j \in Nat : Ranked(s, b, j) => i < j
<1>1. Simple(s) /\ ToSet(s) = map \ Off /\ Len(s) \in Nat
  BY DEF Sound, Listed, Simple
<1>2. Off \subseteq Key
  <2>1. \A t \in Thread : pc[t] \in Moving => key[t] \in Key
    BY NodeOfGet DEF Moving
  <2>. QED
    BY <2>1 DEF Off
<1>3. Tail0 \notin Off /\ Head0 \notin Off
  BY <1>2, NodesAssumption
<1>4. ASSUME NEW n \in Off, NEW j \in 0 .. Len(s) PROVE n # At(s, j)
  <2>1. CASE j = 0
    BY <1>1, <1>3, <2>1, AtIs
  <2>2. CASE j \in 1 .. Len(s)
    <3>1. At(s, j) = s[j] /\ s[j] \in ToSet(s)
      BY <1>1, <2>2, AtIs DEF ToSet
    <3>. QED
      BY <1>1, <3>1
  <2>. QED
    BY <1>1, <2>1, <2>2
<1>5. ASSUME NEW j \in 0 .. Len(s) PROVE Tail0 # At(s, j)
  <2>1. Len(s) + 1 \in 0 .. Len(s) + 1 /\ j \in 0 .. Len(s) + 1 /\ j # Len(s) + 1
    BY <1>1
  <2>. QED
    BY <1>1, <2>1, AtIs, AtOnce
<1>6. ASSUME NEW a, NEW b, Before(s, a, b)
      PROVE  \E i \in 0 .. Len(s) : Ranked(s, a, i) /\ \A j \in Nat : Ranked(s, b, j) => i < j
  <2>1. PICK i \in 0 .. Len(s) + 1, m \in 0 .. Len(s) + 1 : i < m /\ a = At(s, i) /\ b = At(s, m)
    BY <1>6 DEF Before
  <2>2. i \in 0 .. Len(s)
    BY <1>1, <2>1
  <2>3. ASSUME NEW j \in Nat, Ranked(s, b, j) PROVE i < j
    <3>1. CASE j \in 0 .. Len(s) /\ b = At(s, j)
      <4>1. j \in 0 .. Len(s) + 1 /\ At(s, j) = At(s, m)
        BY <1>1, <2>1, <3>1
      <4>2. j = m
        BY <1>1, <4>1, AtOnce
      <4>. QED
        BY <2>1, <4>2
    <3>2. CASE j = Len(s) + 1 \/ j = Len(s) + 2
      BY <1>1, <2>2, <3>2
    <3>. QED
      BY <2>3, <3>1, <3>2 DEF Ranked
  <2>4. Ranked(s, a, i)
    BY <2>1, <2>2 DEF Ranked
  <2>. QED
    BY <2>2, <2>3, <2>4
<1>7. \A n \in Off : \A j : Ranked(s, n, j) <=> j = Len(s) + 1
  BY <1>3, <1>4 DEF Ranked
<1>8. \A j : Ranked(s, Tail0, j) <=> j = Len(s) + 2
  BY <1>3, <1>5 DEF Ranked
<1>. QED
  BY <1>1, <1>6, <1>7, <1>8

\* A thread waits for a node that comes after those it holds.
LEMMA WaitsBelow ==
  ASSUME TypeOK, LinkTypes, NEW s, Sound(s), NEW t \in Thread, NEW n, Waits(t, n)
  PROVE  \E i \in Nat : /\ Ranked(s, n, i)
                        /\ \A m, j : Holds(t, m) /\ j \in Nat /\ Ranked(s, m, j) => i < j
<1>. DEFINE k == key[t]
            L == Len(s)
<1>0. /\ Simple(s) /\ Backward(s) /\ Ahead(s) /\ Aimed /\ Locking /\ L \in Nat
      /\ ToSet(s) \subseteq Key /\ Key \subseteq Node /\ Head0 \in Node /\ Tail0 \in Node
  BY DEF Sound, Listed, Simple, TypeOK, Node
<1>1. /\ \A x \in Off : \A j : Ranked(s, x, j) <=> j = L + 1
      /\ \A j : Ranked(s, Tail0, j) <=> j = L + 2
      /\ \A a, b : Before(s, a, b) =>
            \E i \in 0 .. L : Ranked(s, a, i) /\ \A j \in Nat : Ranked(s, b, j) => i < j
  BY RankIs
<1>2. L + 1 \in Nat /\ L + 2 \in Nat /\ L + 1 < L + 2 /\ 0 .. L \subseteq Nat /\ \A i \in 0 .. L : i < L + 1 /\ i < L + 2
  BY <1>0
<1>3. pc[t] \in Moving => k \in Off
  BY DEF Off
<1>. HIDE DEF L
<1>4. CASE pc[t] = "takeNext" /\ n = aim[t]
  <2>1. \A m : ~Holds(t, m)
    BY <1>4 DEF Holds
  <2>2. n \in Off \/ Before(s, k, n)
    BY <1>0, <1>4 DEF Ahead
  <2>3. \E i \in Nat : Ranked(s, n, i)
    <3>1. CASE n \in Off
      BY <1>1, <1>2, <3>1
    <3>2. CASE Before(s, k, n)
      <4>1. PICK i \in 0 .. Len(s) + 1 : n = At(s, i)
        BY <3>2 DEF Before
      <4>2. CASE i \in 0 .. Len(s)
        BY <4>1, <4>2 DEF Ranked
      <4>3. CASE i = Len(s) + 1
        BY <1>0, <1>1, <1>2, <4>1, <4>3, AtIs
      <4>. QED
        BY <1>0, <4>1, <4>2, <4>3 DEF L
    <3>. QED
      BY <2>2, <3>1, <3>2
  <2>. QED
    BY <2>1, <2>3
<1>5. CASE pc[t] = "takeTail" /\ n = Tail0
  <2>1. \A m : ~Holds(t, m)
    BY <1>5 DEF Holds
  <2>. QED
    BY <1>1, <1>2, <1>5, <2>1
<1>6. CASE pc[t] = "takeNode" /\ n = k
  <2>1. \A m : Holds(t, m) => m = aim[t]
    BY <1>6 DEF Holds
  <2>2. CASE Before(s, k, aim[t])
    BY <1>1, <1>2, <1>6, <2>1, <2>2
  <2>3. CASE aim[t] \in Off
    <3>1. k \in ToSet(s)
      BY <1>6, NodeOfGet DEF Moving
    <3>2. PICK b : Before(s, k, b)
      BY <1>0, <3>1, Neighbours
    <3>3. PICK i \in 0 .. L : Ranked(s, k, i)
      BY <1>1, <3>2
    <3>. QED
      BY <1>1, <1>2, <1>6, <2>1, <2>3, <3>3
  <2>. QED
    BY <1>0, <1>6, <2>2, <2>3 DEF Ahead
<1>7. CASE pc[t] = "takePred" /\ n = aim[t]
  <2>1. \A m : Holds(t, m) => m \in {next[k], k}
    BY <1>7 DEF Holds
  <2>2. Adj(s, n, k) /\ Adj(s, k, next[k])
    BY <1>0, <1>7, HeldNode DEF Aimed
  <2>3. Before(s, n, k) /\ Before(s, n, next[k])
    <3>1. PICK i \in 0 .. Len(s) : n = At(s, i) /\ k = At(s, i + 1)
      BY <2>2 DEF Adj
    <3>2. PICK j \in 0 .. Len(s) : k = At(s, j) /\ next[k] = At(s, j + 1)
      BY <2>2 DEF Adj
    <3>3. i + 1 = j
      <4>1. i + 1 \in 0 .. Len(s) + 1 /\ j \in 0 .. Len(s) + 1
        BY <1>0 DEF L
      <4>. QED
        BY <1>0, <3>1, <3>2, <4>1, AtOnce
    <3>4. i \in 0 .. Len(s) + 1 /\ i + 1 \in 0 .. Len(s) + 1 /\ j + 1 \in 0 .. Len(s) + 1
          /\ i < i + 1 /\ i < j + 1
      BY <1>0, <3>3 DEF L
    <3>. QED
      BY <3>1, <3>2, <3>4 DEF Before
  <2>4. PICK i \in 0 .. L : Ranked(s, n, i) /\ \A j \in Nat : Ranked(s, k, j) => i < j
    BY <1>1, <2>3
  <2>5. PICK h \in 0 .. L : Ranked(s, n, h) /\ \A j \in Nat : Ranked(s, next[k], j) => h < j
    BY <1>1, <2>3
  <2>6. h = i
    <3>1. n = At(s, h) /\ n = At(s, i) /\ h \in 0 .. Len(s) + 1 /\ i \in 0 .. Len(s) + 1
      <4>1. n # Tail0 /\ n \notin Off
        <5>1. \A j : (n = Tail0 \/ n \in Off) /\ Ranked(s, n, j) => j = L + 1 \/ j = L + 2
          BY <1>1
        <5>. QED
          BY <1>2, <2>4, <5>1
      <4>. QED
        BY <1>0, <2>4, <2>5, <4>1 DEF Ranked, L
    <3>. QED
      BY <1>0, <3>1, AtOnce
  <2>. QED
    BY <1>2, <2>1, <2>4, <2>5, <2>6
<1>8. CASE pc[t] = "takeSelf" /\ n = k
  <2>1. \A m : Holds(t, m) => m = Tail0
    BY <1>8 DEF Holds
  <2>2. k \in Off
    BY <1>3, <1>8 DEF Moving
  <2>. QED
    BY <1>1, <1>2, <1>8, <2>1, <2>2
<1>9. CASE pc[t] = "takeLast" /\ n = aim[t]
  <2>1. \A m : Holds(t, m) => m = Tail0 \/ m = k
    BY <1>9 DEF Holds
  <2>2. k \in Off /\ Holds(t, Tail0)
    BY <1>3, <1>9 DEF Moving, Holds
  <2>3. PICK a : Adj(s, a, Tail0)
    BY <1>0, Neighbours
  <2>4. a \in Node /\ Before(s, a, Tail0)
    BY <1>0, <2>3, Neighbours
  <2>5. n = a
    <3>1. ASSUME NEW u \in Thread, Pending(u, a, Tail0) PROVE FALSE
      <4>1. Holds(u, Tail0) /\ u # t
        BY <1>9, <3>1 DEF Pending, Holds
      <4>. QED
        BY <1>0, <2>2, <4>1, OneHolder
    <3>. QED
      BY <1>0, <1>9, <2>3, <2>4, <3>1 DEF Backward, Aimed
  <2>6. PICK i \in 0 .. L : Ranked(s, n, i)
    BY <1>1, <2>4, <2>5
  <2>. QED
    BY <1>1, <1>2, <2>1, <2>2, <2>6
<1>. QED
  BY <1>4, <1>5, <1>6, <1>7, <1>8, <1>9 DEF Waits

\* While no Get has found its node shared or its lock stale, some Get that is
\* inside does not wait: the one that waits for the node closest to head_ would
\* wait for a Get that waits for a node closer still.
THEOREM NoGetsStuck == Spec => []StuckOnlyByHazard
<1>1. ListInv => StuckOnlyByHazard
  <2>. SUFFICES ASSUME ListInv, hazard = {}, \E t \in Inside : TRUE,
                       \A t \in Inside : \E n \in Node : Waits(t, n)
                PROVE  FALSE
    BY DEF StuckOnlyByHazard
  <2>1. TypeOK /\ LinkTypes
    BY DEF ListInv
  <2>2. PICK s \in Seq(Key) : Sound(s)
    BY DEF ListInv
  <2>. DEFINE T == {i \in Nat : \E t \in Inside, n \in Node : Waits(t, n) /\ Ranked(s, n, i)}
  <2>3. T # {}
    BY <2>1, <2>2, WaitsBelow DEF Inside
  <2>4. PICK i \in T : \A j \in T : i <= j
    BY <2>3, Least
  <2>5. PICK t \in Inside, n \in Node : Waits(t, n) /\ Ranked(s, n, i)
    OBVIOUS
  <2>6. PICK u \in Thread : Holds(u, n)
    <3>1. owner[n] \in Thread
      BY <2>1, <2>5 DEF Waits, TypeOK
    <3>. QED
      BY <2>2, <3>1 DEF Sound, Locking
  <2>7. u \in Inside
    BY <2>6 DEF Holds, Inside
  <2>8. PICK m \in Node : Waits(u, m)
    BY <2>7
  <2>9. PICK j \in Nat : Ranked(s, m, j) /\ j < i
    BY <2>1, <2>2, <2>5, <2>6, <2>8, WaitsBelow
  <2>10. j \in T
    BY <2>7, <2>8, <2>9
  <2>. QED
    BY <2>4, <2>9, <2>10
<1>. QED
  BY ListInvInit, ListInvNext, <1>1, PTL DEF Spec

=============================================================================
