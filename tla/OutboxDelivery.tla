--------------------------- MODULE OutboxDelivery ---------------------------
(***************************************************************************)
(* What the ingest path promises to an Edge outbox, with requests, batches,*)
(* retries and positions left out: rows become durable, and a pending row  *)
(* is settled once, as acknowledged when it is durable or as dead when it  *)
(* can never be stored.  A batch that never arrived whole, or arrived too  *)
(* big, may be given up with all its rows, and then it is on record.       *)
(* Nothing durable goes away and nothing settled moves.                    *)
(***************************************************************************)
CONSTANTS
    Rows,          \* rows of all outboxes
    StorableRows   \* the rows that can be stored at all

VARIABLES
    status,        \* row -> pending, acked, dead
    durable,       \* rows whose measurement is in the database
    lost           \* rows given up with the batch they travelled in

Init ==
    /\ status = [e \in Rows |-> "pending"]
    /\ durable = {}
    /\ lost = {}

(* Measurements reach the database; several rows may share one.            *)
Persist(S) ==
    /\ S \subseteq StorableRows
    /\ durable' = durable \cup S
    /\ UNCHANGED <<status, lost>>

(* One answer settles the rows it speaks for.                              *)
Settle(acked, dead) ==
    /\ \A e \in acked \cup dead : status[e] = "pending"
    /\ acked \subseteq durable
    /\ dead \cap StorableRows = {}
    /\ status' = [e \in Rows |-> IF e \in acked THEN "acked"
                                 ELSE IF e \in dead THEN "dead" ELSE status[e]]
    /\ UNCHANGED <<durable, lost>>

(* A whole batch is given up: every row of it is dead and counted as lost. *)
Lose(S) ==
    /\ \A e \in S : status[e] = "pending"
    /\ status' = [e \in Rows |-> IF e \in S THEN "dead" ELSE status[e]]
    /\ lost' = lost \cup S
    /\ UNCHANGED durable

Next ==
    \/ \E S \in SUBSET Rows : Persist(S)
    \/ \E acked, dead \in SUBSET Rows : Settle(acked, dead)
    \/ \E S \in SUBSET Rows : Lose(S)

Spec == Init /\ [][Next]_<<status, durable, lost>>
=============================================================================
