--------------------------- MODULE ShutdownProps ----------------------------
(***************************************************************************)
(* What the end of the process promises, and what it does not.             *)
(***************************************************************************)
EXTENDS Shutdown

TypeOK ==
    /\ lock \in Writers \cup Closers \cup {"compactor", Nobody}
    /\ queues["compaction"] \in Seq({Close})
    /\ queues["indexer"] \in Seq(Queries \cup {Close})
    /\ queues["snapshot"] \in Seq((SUBSET File) \cup {Close})
    /\ compactor \in [pc : {"wait", "lock", "locked", "ended", "failed"}, files : SUBSET File]
    /\ indexer \in {"wait", "ended"}
    /\ snapshotter \in [pc : {"wait", "forget", "ended", "failed"}, files : SUBSET File]
    /\ DOMAIN closer = Closers
    /\ writer \in [Writers -> {"new", "lock", "locked", "appended", "acked", "failed"}]
    /\ query \in [Queries -> [pc : {"new", "run", "answered"}, todo : SUBSET File,
                              missed : SUBSET File]]
    /\ visible \subseteq log /\ log \subseteq File
    /\ memTable \subseteq Writers /\ backing \subseteq File /\ pool \subseteq File
    /\ wal \in {"open", "closed"} /\ ended \in BOOLEAN

\* A commit that was acknowledged is in the log, one that was refused is not.
AnswersMatchLog ==
    \A w \in Writers : /\ writer[w] = "acked" => w \in log
                       /\ writer[w] = "failed" => w \notin log

\* The log ends with a whole commit, and the jobs of the snapshot thread were
\* run: no log that was to be unpacked is left to the next start.
ClosedLogIsWhole ==
    wal = "closed" =>
        /\ \A w \in Writers : writer[w] # "appended"
        /\ ~HasJob("snapshot") /\ snapshotter.pc = "ended"

\* Closing leaves the store as the last commit left it, whoever waits for the
\* lock meanwhile and whichever thread failed, and the requests that come too
\* late are told so.
CloseLeavesTheStoreWhole == AnswersMatchLog /\ ClosedLogIsWhole

\* A query answers with rows missing only after the mem table was closed, in
\* the last moments of the process, and then it misses nothing but the files
\* that were still in the mem table.
QueriesMissRowsOnlyAtTheEnd ==
    \A q \in Queries :
        query[q].missed # {} => /\ wal = "closed" /\ memTable = {}
                                /\ query[q].missed \cap backing = {}

\* The compaction thread waits for the lock of the closer that joins it.
Deadlocked ==
    /\ compactor.pc = "lock"
    /\ \E c \in Closers : lock = c /\ closer[c] = "join compaction"

\* Once it was asked to, or a thread failed, the process ends, unless the
\* compaction thread has merged files and waits for the lock to commit them: no
\* request, no job that is queued or still being pushed, and no thread that
\* failed before can keep the closer waiting.
CloseEndsUnlessDeadlocked ==
    (\E c \in Closers : closer[c] # "serving") ~> (ended \/ Deadlocked)
=============================================================================
