-------------------------- MODULE BufferPoolProofs --------------------------
(***************************************************************************)
(* Proofs about BufferPool, for any number of readers and of files and any *)
(* size of the pool.                                                       *)
(***************************************************************************)
EXTENDS BufferPoolProps, FiniteSetTheorems, TLAPS

----------------------------------------------------------------------------
(* What a set of files weighs                                              *)

LEMMA SizeType == ASSUME NEW f PROVE Size(f) \in 1 .. 2
BY DEF Size

LEMMA SizeOfType == ASSUME NEW S, IsFiniteSet(S) PROVE SizeOf(S) \in Nat
<1>1. IsFiniteSet(S \cap Large)
  BY FS_Intersection
<1> QED
  BY <1>1, FS_CardinalityType DEF SizeOf

\* A file that is entered adds its size, or nothing if it was there.
LEMMA SizeOfEntered ==
    ASSUME NEW S, IsFiniteSet(S), NEW f
    PROVE  /\ IsFiniteSet(S \cup {f})
           /\ SizeOf(S \cup {f}) <= SizeOf(S) + Size(f)
<1>1. IsFiniteSet(S \cap Large) /\ IsFiniteSet(S \cup {f})
  BY FS_Intersection, FS_AddElement
<1>2. Cardinality(S) \in Nat /\ Cardinality(S \cap Large) \in Nat
  BY <1>1, FS_CardinalityType
<1>3. Cardinality(S \cup {f}) \in {Cardinality(S), Cardinality(S) + 1}
  BY FS_AddElement
<1>4. CASE f \in Large
  <2>1. (S \cup {f}) \cap Large = (S \cap Large) \cup {f}
    BY <1>4
  <2>2. Cardinality((S \cup {f}) \cap Large)
            \in {Cardinality(S \cap Large), Cardinality(S \cap Large) + 1}
    BY <1>1, <2>1, FS_AddElement
  <2> QED
    BY <1>1, <1>2, <1>3, <1>4, <2>2 DEF SizeOf, Size
<1>5. CASE f \notin Large
  <2>1. (S \cup {f}) \cap Large = S \cap Large
    BY <1>5
  <2>2. SizeOf(S \cup {f}) = Cardinality(S \cup {f}) + Cardinality(S \cap Large)
    BY <2>1, Zenon DEF SizeOf
  <2> QED
    BY <1>1, <1>2, <1>3, <1>5, <2>2 DEF SizeOf, Size
<1> QED
  BY <1>4, <1>5

\* A file that is taken out takes its size with it.
LEMMA SizeOfTaken ==
    ASSUME NEW S, IsFiniteSet(S), NEW f \in S
    PROVE  /\ IsFiniteSet(S \ {f})
           /\ SizeOf(S \ {f}) = SizeOf(S) - Size(f)
           /\ SizeOf(S \ {f}) \in Nat
<1>1. IsFiniteSet(S \cap Large) /\ IsFiniteSet(S \ {f})
  BY FS_Intersection, FS_RemoveElement
<1>2. Cardinality(S) \in Nat /\ Cardinality(S \cap Large) \in Nat
  BY <1>1, FS_CardinalityType
<1>3. Cardinality(S \ {f}) = Cardinality(S) - 1
  BY FS_RemoveElement
<1>4. SizeOf(S \ {f}) \in Nat
  BY <1>1, SizeOfType
<1>5. CASE f \in Large
  <2>1. (S \ {f}) \cap Large = (S \cap Large) \ {f} /\ f \in S \cap Large
    BY <1>5
  <2>2. Cardinality((S \ {f}) \cap Large) = Cardinality(S \cap Large) - 1
    BY <1>1, <2>1, FS_RemoveElement
  <2> QED
    BY <1>1, <1>2, <1>3, <1>4, <1>5, <2>2 DEF SizeOf, Size
<1>6. CASE f \notin Large
  <2>1. (S \ {f}) \cap Large = S \cap Large
    BY <1>6
  <2>2. SizeOf(S \ {f}) = Cardinality(S \ {f}) + Cardinality(S \cap Large)
    BY <2>1, Zenon DEF SizeOf
  <2> QED
    BY <1>1, <1>2, <1>3, <1>4, <1>6, <2>2 DEF SizeOf, Size
<1> QED
  BY <1>5, <1>6

----------------------------------------------------------------------------
(* The inductive invariant                                                 *)

\* The readers that have compared the size, or evicted, and will enter a file.
Entering == {r \in Readers : reader[r].pc = "enter"}

\* The readers' types, without what needs the size.
ReaderOK ==
    /\ evict_lock \in Readers \cup {Nobody}
    /\ reader \in [Readers -> [pc : {"idle", "fetched", "evict", "evicting", "enter"},
                               file : Files, gets : 0 .. MaxGets]]
    /\ \A r \in Readers : reader[r].pc \in {"fetched", "evict", "evicting", "enter"} =>
                              reader[r].gets < MaxGets

\* The counter covers the pool, whatever was counted twice.
CounterCovers ==
    /\ pool \subseteq Files /\ IsFiniteSet(pool)
    /\ current_size \in Nat
    /\ SizeOf(pool) <= current_size

\* Each reader that will enter a file has its two units set aside: a reader
\* passes the comparison only below MaxSize, where there are two for everyone.
RoomToEnter ==
    current_size + 2 * Cardinality(Entering) <= MaxSize + 2 * Cardinality(Readers)

IInv == ReaderOK /\ CounterCovers /\ RoomToEnter

----------------------------------------------------------------------------
(* Who is entering                                                         *)

LEMMA EnteringType ==
    Entering \subseteq Readers /\ IsFiniteSet(Entering) /\ Cardinality(Entering) \in Nat
    /\ Cardinality(Readers) \in Nat /\ Cardinality(Entering) <= Cardinality(Readers)
<1>1. Entering \subseteq Readers
  BY DEF Entering
<1> QED
  BY <1>1, BufferPoolAssumption, FS_Subset, FS_CardinalityType

\* A reader that starts to enter a file was not one of those entering.
LEMMA OneMoreEnters ==
    ASSUME ReaderOK, NEW r \in Readers, reader[r].pc # "enter", Entering' = Entering \cup {r}
    PROVE  Cardinality(Entering') <= Cardinality(Readers)
<1>1. Entering \cup {r} \subseteq Readers
  BY DEF Entering
<1> QED
  BY <1>1, BufferPoolAssumption, FS_Subset

LEMMA OneLessEnters ==
    ASSUME ReaderOK, NEW r \in Readers, reader[r].pc = "enter", Entering' = Entering \ {r}
    PROVE  Cardinality(Entering') = Cardinality(Entering) - 1
<1>1. r \in Entering
  BY DEF Entering
<1> QED
  BY <1>1, EnteringType, FS_RemoveElement

----------------------------------------------------------------------------
(* The steps                                                               *)

\* A reader passes the comparison: the size is below the limit, whatever the
\* others are doing.
LEMMA PassStep ==
    ASSUME IInv, NEW r \in Readers, reader[r].pc \in {"fetched", "evicting"},
           current_size <= MaxSize,
           reader' = [reader EXCEPT ![r].pc = "enter"],
           UNCHANGED <<pool, current_size>>
    PROVE  CounterCovers' /\ RoomToEnter'
<1> USE DEF IInv
<1>1. Entering' = Entering \cup {r}
  BY DEF Entering, ReaderOK
<1>2. Cardinality(Entering') <= Cardinality(Readers)
  BY <1>1, OneMoreEnters
<1>3. Cardinality(Entering') \in Nat
  <2>1. IsFiniteSet(Entering')
    BY <1>1, EnteringType, FS_AddElement
  <2> QED
    BY <2>1, FS_CardinalityType
<1>4. RoomToEnter'
  BY <1>2, <1>3, EnteringType, BufferPoolAssumption DEF RoomToEnter, CounterCovers
<1>5. CounterCovers'
  BY DEF CounterCovers
<1> QED
  BY <1>4, <1>5

\* A step of readers that are not entering, before or after it.
LEMMA OtherStep ==
    ASSUME IInv, \A r \in Readers : reader'[r].pc = "enter" <=> reader[r].pc = "enter",
           UNCHANGED <<pool, current_size>>
    PROVE  CounterCovers' /\ RoomToEnter'
<1>1. Entering' = Entering
  BY DEF Entering
<1> QED
  BY <1>1 DEF IInv, CounterCovers, RoomToEnter

\* A file is taken out of the pool, and its size off the counter.
LEMMA TakeOut ==
    ASSUME IInv, NEW f \in pool, pool' = pool \ {f}, current_size' = current_size - Size(f),
           UNCHANGED reader
    PROVE  CounterCovers' /\ RoomToEnter'
<1> USE DEF IInv
<1>1. /\ IsFiniteSet(pool') /\ SizeOf(pool') \in Nat
      /\ SizeOf(pool') = SizeOf(pool) - Size(f)
  BY SizeOfTaken DEF CounterCovers
<1>2. SizeOf(pool) \in Nat /\ Size(f) \in 1 .. 2
  BY SizeType, SizeOfType DEF CounterCovers
<1>3. CounterCovers'
  BY <1>1, <1>2 DEF CounterCovers
<1>4. RoomToEnter'
  <2>1. Entering' = Entering
    BY DEF Entering
  <2> QED
    BY <1>2, <2>1, EnteringType, BufferPoolAssumption DEF RoomToEnter, CounterCovers
<1> QED
  BY <1>3, <1>4

LEMMA EnterStep == ASSUME IInv, NEW r \in Readers, Enter(r) PROVE IInv'
<1> USE DEF IInv, Enter, Returned
<1>1. reader[r].file \in Files /\ reader[r].gets \in 0 .. MaxGets /\ reader[r].gets < MaxGets
  BY DEF ReaderOK
<1>2. ReaderOK'
  BY <1>1, BufferPoolAssumption DEF ReaderOK
<1>3. Entering' = Entering \ {r}
  BY DEF Entering, ReaderOK
<1>4. Cardinality(Entering') = Cardinality(Entering) - 1
  BY <1>3, OneLessEnters
<1>5. Size(reader[r].file) \in 1 .. 2
  BY SizeType
<1>6. CounterCovers'
  <2>1. IsFiniteSet(pool') /\ SizeOf(pool') <= SizeOf(pool) + Size(reader[r].file)
    BY SizeOfEntered DEF CounterCovers
  <2>2. SizeOf(pool) \in Nat /\ SizeOf(pool') \in Nat
    BY <2>1, SizeOfType DEF CounterCovers
  <2> QED
    BY <1>1, <1>5, <2>1, <2>2 DEF CounterCovers
<1>7. RoomToEnter'
  BY <1>4, <1>5, EnteringType, BufferPoolAssumption DEF RoomToEnter, CounterCovers
<1> QED
  BY <1>2, <1>6, <1>7

LEMMA ReaderStep == ASSUME IInv, NEW r \in Readers, Reader(r) PROVE IInv'
<1> USE DEF IInv
<1>1. CASE CheckSize(r)
  <2> USE <1>1 DEF CheckSize
  <2>1. ReaderOK'
    BY DEF ReaderOK
  <2>2. CASE current_size > MaxSize
    <3>1. reader' = [reader EXCEPT ![r].pc = "evict"]
      BY <2>2
    <3>2. \A s \in Readers : reader'[s].pc = "enter" <=> reader[s].pc = "enter"
      BY <3>1 DEF ReaderOK
    <3> QED
      BY <2>1, <3>2, OtherStep
  <2>3. CASE ~(current_size > MaxSize)
    <3>1. reader' = [reader EXCEPT ![r].pc = "enter"] /\ current_size <= MaxSize
      BY <2>3, BufferPoolAssumption DEF CounterCovers
    <3> QED
      BY <2>1, <3>1, PassStep
  <2> QED
    BY <2>2, <2>3
<1>2. CASE StartEvicting(r)
  <2> USE <1>2 DEF StartEvicting
  <2>1. ReaderOK'
    BY DEF ReaderOK
  <2>2. \A s \in Readers : reader'[s].pc = "enter" <=> reader[s].pc = "enter"
    BY DEF ReaderOK
  <2> QED
    BY <2>1, <2>2, OtherStep
<1>3. CASE StopEvicting(r)
  <2> USE <1>3 DEF StopEvicting
  <2>1. ReaderOK'
    BY DEF ReaderOK
  <2>2. current_size <= MaxSize
    BY BufferPoolAssumption DEF CounterCovers
  <2> QED
    BY <2>1, <2>2, PassStep
<1>4. ASSUME NEW f \in Files, EvictEntry(r, f) PROVE IInv'
  BY <1>4, TakeOut DEF EvictEntry, ReaderOK
<1> QED
  BY <1>1, <1>2, <1>3, <1>4, EnterStep DEF Reader

LEMMA LookUpStep ==
    ASSUME IInv, NEW r \in Readers, NEW f \in Files, Hit(r, f) \/ Miss(r, f) PROVE IInv'
<1> USE DEF IInv, Hit, Miss, Returned
<1>1. ReaderOK'
  BY BufferPoolAssumption DEF ReaderOK
<1>2. \A s \in Readers : reader'[s].pc = "enter" <=> reader[s].pc = "enter"
  BY DEF ReaderOK
<1> QED
  BY <1>1, <1>2, OtherStep

LEMMA CloseStep == ASSUME IInv, Close PROVE IInv'
<1> USE DEF IInv, Close
<1>1. SizeOf({}) = 0 /\ IsFiniteSet({})
  <2>1. {} \cap Large = {}
    OBVIOUS
  <2> QED
    BY <2>1, FS_EmptySet DEF SizeOf
<1>2. CounterCovers'
  BY <1>1 DEF CounterCovers
<1>3. Entering' = Entering
  BY DEF Entering
<1> QED
  BY <1>2, <1>3 DEF ReaderOK, RoomToEnter

----------------------------------------------------------------------------
(* The theorems                                                            *)

LEMMA Invariant == Spec => []IInv
<1>1. Init => IInv
  <2> SUFFICES ASSUME Init PROVE IInv
    OBVIOUS
  <2> USE DEF Init
  <2>1. (CHOOSE f \in Files : TRUE) \in Files
    BY BufferPoolAssumption DEF Files
  <2>2. \A r \in Readers : reader[r].pc = "idle"
    OBVIOUS
  <2>3. ReaderOK
    BY <2>1, BufferPoolAssumption DEF ReaderOK
  <2>4. SizeOf({}) = 0 /\ IsFiniteSet({})
    <3>1. {} \cap Large = {}
      OBVIOUS
    <3> QED
      BY <3>1, FS_EmptySet DEF SizeOf
  <2>5. CounterCovers
    BY <2>4 DEF CounterCovers
  <2>6. Entering = {}
    BY <2>2 DEF Entering
  <2>7. RoomToEnter
    BY <2>6, FS_EmptySet, EnteringType, BufferPoolAssumption DEF RoomToEnter
  <2> QED
    BY <2>3, <2>5, <2>7 DEF IInv
<1>2. IInv /\ [Next]_vars => IInv'
  <2> SUFFICES ASSUME IInv, [Next]_vars PROVE IInv'
    OBVIOUS
  <2>1. ASSUME NEW f \in Files, Forget(f) PROVE IInv'
    BY <2>1, TakeOut DEF Forget, IInv, ReaderOK
  <2>2. CASE UNCHANGED vars
    <3>1. Entering' = Entering
      BY <2>2 DEF vars, Entering
    <3> QED
      BY <2>2, <3>1 DEF vars, IInv, ReaderOK, CounterCovers, RoomToEnter
  <2> QED
    BY <2>1, <2>2, ReaderStep, LookUpStep, CloseStep DEF Next
<1> QED
  BY <1>1, <1>2, PTL DEF Spec

\* The variables keep their types; the counter is never taken below zero.
THEOREM TypeCorrect == Spec => []TypeOK
<1>1. IInv => TypeOK
  BY DEF IInv, ReaderOK, CounterCovers, TypeOK
<1> QED
  BY <1>1, Invariant, PTL

\* For any number of readers the counter covers the pool and is above the limit
\* by at most a large file for each of them, though they compare it unlocked.
THEOREM Bounded == Spec => []PoolStaysBounded
<1>1. IInv => PoolStaysBounded
  BY EnteringType, BufferPoolAssumption
  DEF IInv, CounterCovers, RoomToEnter, PoolStaysBounded
<1> QED
  BY <1>1, Invariant, PTL
=============================================================================
