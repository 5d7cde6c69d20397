----------------------------- MODULE BufferPool -----------------------------
(***************************************************************************)
(* The buffer pool of a database (buffer-pool.lisp): the files that queries *)
(* read stay in memory until the pool is larger than MaxSize; then entries  *)
(* are evicted at random until it is no larger than TargetSize.             *)
(*                                                                         *)
(* The size is a counter beside the table.  Both change under evict-lock,   *)
(* but a reader looks a file up, fetches it and compares the counter        *)
(* without the lock.  Sizes are 1 and 2; a file is fetched as a whole and   *)
(* never changes, so that its arrays are its name.                          *)
(***************************************************************************)
EXTENDS Naturals, FiniteSets

CONSTANTS Readers,     \* threads that run queries
          Small,       \* files of size 1
          Large,       \* files of size 2
          MaxSize,     \* max-size
          TargetSize,  \* evict-ratio of it
          MaxGets,     \* bound: the files a reader reads
          Nobody       \* the owner of a free lock

ASSUME BufferPoolAssumption ==
    /\ TargetSize \in Nat /\ MaxSize \in Nat /\ TargetSize <= MaxSize
    /\ MaxGets \in Nat
    /\ Small \cap Large = {} /\ Small \cup Large # {}
    /\ IsFiniteSet(Readers) /\ Nobody \notin Readers

VARIABLES pool,         \* the files with an entry
          current_size,
          evict_lock,
          reader        \* where each reader is in buffer-pool-get

vars == <<pool, current_size, evict_lock, reader>>

Files == Small \cup Large
Size(f) == IF f \in Large THEN 2 ELSE 1
SizeOf(S) == Cardinality(S) + Cardinality(S \cap Large)

Returned(r) == [reader EXCEPT ![r].pc = "idle", ![r].gets = @ + 1]

-----------------------------------------------------------------------------
(* buffer-pool-get                                                         *)

Hit(r, f) ==
    /\ reader[r].pc = "idle" /\ reader[r].gets < MaxGets
    /\ f \in pool
    /\ reader' = Returned(r)
    /\ UNCHANGED <<pool, current_size, evict_lock>>

\* A file that is not there is fetched.  The compaction reads through: what it
\* fetches is returned at once, as is the answer that there is no such file.
Miss(r, f) ==
    /\ reader[r].pc = "idle" /\ reader[r].gets < MaxGets
    /\ f \notin pool
    /\ \/ reader' = [reader EXCEPT ![r].pc = "fetched", ![r].file = f]
       \/ reader' = Returned(r)
    /\ UNCHANGED <<pool, current_size, evict_lock>>

\* Mutant: only the reader that finds the pool empty evicts.
MCheckSize(r) ==
    /\ reader[r].pc = "fetched"
    /\ reader' = [reader EXCEPT ![r].pc =
                     IF current_size > MaxSize /\ pool = {} THEN "evict" ELSE "enter"]
    /\ UNCHANGED <<pool, current_size, evict_lock>>

CheckSize(r) ==
    /\ reader[r].pc = "fetched"
    /\ reader' = [reader EXCEPT ![r].pc = IF current_size > MaxSize THEN "evict" ELSE "enter"]
    /\ UNCHANGED <<pool, current_size, evict_lock>>

\* The file may have been entered since the look-up: the new entry replaces
\* the other one, and the size counts both.
Enter(r) ==
    /\ reader[r].pc = "enter" /\ evict_lock = Nobody
    /\ pool' = pool \cup {reader[r].file}
    /\ current_size' = current_size + Size(reader[r].file)
    /\ reader' = Returned(r)
    /\ UNCHANGED evict_lock

-----------------------------------------------------------------------------
(* %evict-buffer-pool, which keeps the lock until it is done               *)

StartEvicting(r) ==
    /\ reader[r].pc = "evict" /\ evict_lock = Nobody
    /\ evict_lock' = r
    /\ reader' = [reader EXCEPT ![r].pc = "evicting"]
    /\ UNCHANGED <<pool, current_size>>

\* The loop over the table comes past every entry again and again and takes
\* one in five.
EvictEntry(r, f) ==
    /\ reader[r].pc = "evicting" /\ current_size > TargetSize
    /\ f \in pool
    /\ pool' = pool \ {f}
    /\ current_size' = current_size - Size(f)
    /\ UNCHANGED <<evict_lock, reader>>

\* Mutant: the return from within the loop leaves the lock taken.
MStopEvicting(r) ==
    /\ reader[r].pc = "evicting" /\ current_size <= TargetSize
    /\ reader' = [reader EXCEPT ![r].pc = "enter"]
    /\ UNCHANGED <<pool, current_size, evict_lock>>

StopEvicting(r) ==
    /\ reader[r].pc = "evicting" /\ current_size <= TargetSize
    /\ evict_lock' = Nobody
    /\ reader' = [reader EXCEPT ![r].pc = "enter"]
    /\ UNCHANGED <<pool, current_size>>

-----------------------------------------------------------------------------
(* Others that use the pool                                                *)

\* Mutant: the size is taken off whether the file has an entry or not.
MForget(f) ==
    /\ evict_lock = Nobody
    /\ pool' = pool \ {f}
    /\ current_size' = current_size - Size(f)
    /\ UNCHANGED <<evict_lock, reader>>

\* buffer-pool-evict, of the compaction, for a file it merged.
Forget(f) ==
    /\ evict_lock = Nobody
    /\ f \in pool
    /\ pool' = pool \ {f}
    /\ current_size' = current_size - Size(f)
    /\ UNCHANGED <<evict_lock, reader>>

\* buffer-pool-close, at the end of the process, without the lock and without
\* the size; queries may still read.
Close ==
    /\ pool' = {}
    /\ UNCHANGED <<current_size, evict_lock, reader>>

-----------------------------------------------------------------------------
Init ==
    /\ pool = {} /\ current_size = 0 /\ evict_lock = Nobody
    /\ reader \in [Readers -> [pc : {"idle"}, file : {CHOOSE f \in Files : TRUE}, gets : {0}]]

Reader(r) ==
    \/ CheckSize(r) \/ Enter(r) \/ StartEvicting(r) \/ StopEvicting(r)
    \/ \E f \in Files : EvictEntry(r, f)

Next ==
    \/ \E r \in Readers : Reader(r) \/ \E f \in Files : Hit(r, f) \/ Miss(r, f)
    \/ \E f \in Files : Forget(f)
    \/ Close

Spec == Init /\ [][Next]_vars

\* A reader goes on when it can, and the lock is given to somebody when it is
\* free: to everybody who waits, as the gets of the others are bounded.  That an
\* entry is evicted is a matter of chance, and certain in the end.
FairSpec == Spec /\ \A r \in Readers : WF_vars(Reader(r))
=============================================================================
