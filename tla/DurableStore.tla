---------------------------- MODULE DurableStore ----------------------------
(***************************************************************************)
(* What the store promises the database above it, whatever it does with    *)
(* write-ahead logs, archives and snapshots: a transaction whose commit    *)
(* was acknowledged is never lost, and one that was in flight when the     *)
(* process died is afterwards there as a whole or not at all.              *)
(*                                                                         *)
(* A database state is a function from transaction ids to versions: the    *)
(* version of the transaction applied under that id, or None.              *)
(***************************************************************************)
EXTENDS Naturals

CONSTANTS MaxTx,      \* transaction ids are 1..MaxTx
          MaxBoot     \* versions are 1..MaxBoot, 0 stands for none

VARIABLES acked,      \* the acknowledged database state
          doubt       \* version of the transaction in flight, or None

avars == <<acked, doubt>>

None == 0
States == [1..MaxTx -> 0..MaxBoot]
Empty == [n \in 1..MaxTx |-> None]

\* The id the next transaction takes: one above the last one applied.
NextId(s) == CHOOSE n \in 1..(MaxTx + 1) :
                /\ \A m \in 1..MaxTx : s[m] # None => m < n
                /\ n = 1 \/ s[n - 1] # None

Applied(s, v) == [s EXCEPT ![NextId(s)] = v]

Init == acked = Empty /\ doubt = None

\* A transaction is handed to the store.
Submit ==
    /\ doubt = None
    /\ NextId(acked) <= MaxTx
    /\ doubt' \in 1..MaxBoot
    /\ UNCHANGED acked

\* The store returns: the transaction is acknowledged.
Acknowledge ==
    /\ doubt # None
    /\ acked' = Applied(acked, doubt)
    /\ doubt' = None

\* The process died and the store came back: nothing acknowledged is gone,
\* and the transaction in flight is decided one way or the other.
Recover ==
    /\ doubt # None
    /\ acked' \in {acked, Applied(acked, doubt)}
    /\ doubt' = None

Next == Submit \/ Acknowledge \/ Recover

Spec == Init /\ [][Next]_avars
=============================================================================
