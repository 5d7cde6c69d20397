-------------------------- MODULE BufferPoolProps ---------------------------
(***************************************************************************)
(* What the buffer pool promises of memory and of the readers' time.       *)
(***************************************************************************)
EXTENDS BufferPool

TypeOK ==
    /\ pool \subseteq Files
    /\ current_size \in Nat
    /\ evict_lock \in Readers \cup {Nobody}
    /\ reader \in [Readers -> [pc : {"idle", "fetched", "evict", "evicting", "enter"},
                               file : Files, gets : 0 .. MaxGets]]

\* The counter is never below what is in memory, and above the limit by no more
\* than one large file for each reader, which may all have compared it before
\* any of them entered its file: neither the unlocked comparison, the double
\* counting nor the compaction lets the pool grow without bound.
PoolStaysBounded ==
    /\ SizeOf(pool) <= current_size
    /\ current_size <= MaxSize + 2 * Cardinality(Readers)

\* What was counted and is not in the pool: files entered by two readers that
\* both missed them, and all that was there when it was closed.
Drift == current_size - SizeOf(pool)

\* A reader returns with its file, unless the files that were counted twice make
\* up the target by themselves: then there is nothing to evict that would bring
\* the size down, the loop does not end, and the lock stays taken.
GetsEndUnlessOvercounted ==
    \A r \in Readers : (reader[r].pc # "idle") ~> (reader[r].pc = "idle" \/ Drift > TargetSize)
=============================================================================
