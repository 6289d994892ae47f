------------------------------ MODULE Layouts ------------------------------
(***************************************************************************)
(* The dashboard layouts of one user in one tenant (internal/app and       *)
(* internal/repo/pg dashboard_layouts).                                    *)
(*                                                                         *)
(* Creating and deleting are transactions under READ COMMITTED: SELECT ... *)
(* FOR UPDATE over the active layouts, a decision on the rows it returned, *)
(* one write, COMMIT.  The SELECT sees the rows committed when it started, *)
(* locks them one at a time, waits for whoever holds one, and leaves out a *)
(* row that was deleted meanwhile; rows committed after it started are not *)
(* there for it.  An UPDATE is a transaction of its own: it locks its row, *)
(* asks the unique index for the new name while it holds the row and the   *)
(* old one, and commits.                                                   *)
(*                                                                         *)
(* A soft-deleted row is invisible to every statement, so an id that no    *)
(* transaction remembers may stand for a new one.                          *)
(***************************************************************************)
EXTENDS Naturals, FiniteSets

CONSTANTS
    Ids,               \* layout ids
    Names,             \* layout names
    Txs,               \* requests that may be in progress at once
    MaxLayoutsPerUser,
    NoName,            \* "this id is not an active layout"
    NoId

ASSUME LayoutsAssumption ==
    /\ IsFiniteSet(Ids) /\ IsFiniteSet(Txs) /\ Txs # {}
    /\ NoName \notin Names /\ NoId \notin Ids
    /\ MaxLayoutsPerUser \in Nat

VARIABLES
    row,   \* id -> name of the active layout as committed, or NoName
    tx     \* request -> its statement, its arguments and its row locks

vars == <<row, tx>>

Active == {l \in Ids : row[l] # NoName}

(* pc is the statement to be executed next; todo and held are the rows the *)
(* locking SELECT has still to lock and has returned.                      *)
NoTx == [pc |-> "idle", id |-> NoId, name |-> NoName, todo |-> {}, held |-> {}]

Init ==
    /\ row = [l \in Ids |-> NoName]
    /\ tx = [t \in Txs |-> NoTx]

(* No transaction knows the id.                                            *)
Fresh(l) ==
    /\ l \notin Active
    /\ \A u \in Txs : l # tx[u].id /\ l \notin tx[u].todo

(* Mutant: the transaction is left open when the request ends.             *)
EndLeaks(t) == tx' = [tx EXCEPT ![t] = [NoTx EXCEPT !.held = tx[t].held]]

(* COMMIT or the deferred Rollback: the locks are released.                *)
End(t) == tx' = [tx EXCEPT ![t] = NoTx]

-----------------------------------------------------------------------------
(* SELECT id ... FOR UPDATE, of Create and of SoftDelete.                  *)
SelectForUpdate(t, op, l, n) ==
    /\ tx[t].pc = "idle"
    /\ tx' = [tx EXCEPT ![t] = [pc |-> op, id |-> l, name |-> n,
                                todo |-> Active, held |-> {}]]
    /\ UNCHANGED row

CreateBegin(t, l, n) == Fresh(l) /\ SelectForUpdate(t, "create", l, n)
DeleteBegin(t, l)    == SelectForUpdate(t, "delete", l, NoName)

(* A row the SELECT has still to lock, and that nobody else holds.         *)
Lockable(t, l) ==
    /\ tx[t].pc \in {"create", "delete"}
    /\ l \in tx[t].todo
    /\ \A u \in Txs \ {t} : l \notin tx[u].held

(* Mutant: a row deleted while the SELECT waited for its lock is counted.  *)
LockRowStale(t, l) ==
    /\ Lockable(t, l)
    /\ tx' = [tx EXCEPT ![t].todo = tx[t].todo \ {l}, ![t].held = tx[t].held \cup {l}]
    /\ UNCHANGED row

LockRow(t, l) ==
    /\ Lockable(t, l)
    /\ tx' = [tx EXCEPT ![t].todo = tx[t].todo \ {l},
                        ![t].held = tx[t].held \cup ({l} \cap Active)]
    /\ UNCHANGED row

(* The partial unique index on the name of active layouts.  The names that *)
(* an open transaction takes or gives up are undecided until it ends, and  *)
(* make the statement that wants one of them wait for it.                  *)
Undecided(u) ==
    (IF tx[u].pc \in {"inserted", "renamed"} THEN {tx[u].name} ELSE {})
        \cup (IF tx[u].pc \in {"deleted", "rename", "renamed"} THEN {row[tx[u].id]} ELSE {})

Settled(t, n) == \A u \in Txs \ {t} : n \notin Undecided(u)

NameTaken(t, l, n) == Settled(t, n) /\ \E k \in Active \ {l} : row[k] = n

(* Mutant: the name is looked up with a SELECT instead of the index.        *)
NameFreeSelect(t, l, n) == \A k \in Active \ {l} : row[k] # n

NameFree(t, l, n) == Settled(t, n) /\ \A k \in Active \ {l} : row[k] # n

-----------------------------------------------------------------------------
(* Waits.  A SELECT waits for the rows it has still to lock, an UPDATE for *)
(* its row and then for its new name, an INSERT for its name.              *)
WaitsFor(t, S) ==
    \/ /\ tx[t].pc \in {"create", "delete"} /\ tx[t].todo # {}
       /\ \A l \in tx[t].todo : \E u \in S : l \in tx[u].held
    \/ tx[t].pc = "update" /\ \E u \in S : tx[t].id \in tx[u].held
    \/ tx[t].pc \in {"insert", "rename"} /\ \E u \in S : tx[t].name \in Undecided(u)

(* Each transaction of S waits for others of S: there is a circle of waits *)
(* among them, and Postgres ends one of them.                              *)
Deadlocked(S) == \A t \in S : WaitsFor(t, S \ {t})

InDeadlock(t) == \E S \in SUBSET Txs : t \in S /\ Deadlocked(S)

DeadlockVictim(t) ==
    /\ InDeadlock(t)
    /\ End(t)
    /\ UNCHANGED row

(* Any statement fails, or the request is cancelled: Rollback.             *)
Fail(t) ==
    /\ tx[t].pc # "idle"
    /\ End(t)
    /\ UNCHANGED row

Selected(t, op) == tx[t].pc = op /\ tx[t].todo = {}

-----------------------------------------------------------------------------
(* Create.                                                                 *)

(* Mutant: the limit is not looked at.                                     *)
BelowLimitAlways(t) == TRUE

BelowLimit(t) == Cardinality(tx[t].held) < MaxLayoutsPerUser

CreateCount(t) ==
    /\ Selected(t, "create")
    /\ IF BelowLimit(t) THEN tx' = [tx EXCEPT ![t].pc = "insert"] ELSE End(t)
    /\ UNCHANGED row

Insertable(t) == tx[t].pc = "insert" /\ NameFree(t, tx[t].id, tx[t].name)
Duplicate(t)  == tx[t].pc = "insert" /\ NameTaken(t, tx[t].id, tx[t].name)

Insert(t) ==
    /\ Insertable(t)
    /\ tx' = [tx EXCEPT ![t].pc = "inserted"]
    /\ UNCHANGED row

InsertDuplicate(t) ==
    /\ Duplicate(t)
    /\ End(t)
    /\ UNCHANGED row

CommitCreate(t) ==
    /\ tx[t].pc = "inserted"
    /\ row' = [row EXCEPT ![tx[t].id] = tx[t].name]
    /\ End(t)

-----------------------------------------------------------------------------
(* SoftDelete.                                                             *)

Deletable(t) == tx[t].id \in tx[t].held /\ Cardinality(tx[t].held) > 1

MarkDeleted(t) ==
    /\ Selected(t, "delete")
    /\ IF Deletable(t) THEN tx' = [tx EXCEPT ![t].pc = "deleted"] ELSE End(t)
    /\ UNCHANGED row

CommitDelete(t) ==
    /\ tx[t].pc = "deleted"
    /\ row' = [row EXCEPT ![tx[t].id] = NoName]
    /\ End(t)

-----------------------------------------------------------------------------
(* UpdateLayout: GetByID, then UPDATE, which waits for the row's lock and  *)
(* for the name one after the other.                                       *)

UpdateRead(t, l, n) ==
    /\ tx[t].pc = "idle"
    /\ l \in Active
    /\ tx' = [tx EXCEPT ![t] = [pc |-> "update", id |-> l, name |-> n,
                                todo |-> {}, held |-> {}]]
    /\ UNCHANGED row

Unlocked(t) == tx[t].pc = "update" /\ \A u \in Txs \ {t} : tx[t].id \notin tx[u].held

UpdateLock(t) ==
    /\ Unlocked(t)
    /\ tx[t].id \in Active
    /\ tx' = [tx EXCEPT ![t].pc = "rename", ![t].held = {tx[t].id}]
    /\ UNCHANGED row

(* The layout is gone: ErrLayoutNotFound.                                  *)
UpdateGone(t) ==
    /\ Unlocked(t)
    /\ tx[t].id \notin Active
    /\ End(t)
    /\ UNCHANGED row

Renamable(t)  == tx[t].pc = "rename" /\ NameFree(t, tx[t].id, tx[t].name)
RenameHits(t) == tx[t].pc = "rename" /\ NameTaken(t, tx[t].id, tx[t].name)

Rename(t) ==
    /\ Renamable(t)
    /\ tx' = [tx EXCEPT ![t].pc = "renamed"]
    /\ UNCHANGED row

(* The new name is another layout's: ErrDuplicateName.                     *)
RenameDuplicate(t) ==
    /\ RenameHits(t)
    /\ End(t)
    /\ UNCHANGED row

CommitRename(t) ==
    /\ tx[t].pc = "renamed"
    /\ row' = [row EXCEPT ![tx[t].id] = tx[t].name]
    /\ End(t)

-----------------------------------------------------------------------------
Step(t) ==
    \/ \E l \in Ids : LockRow(t, l)
    \/ DeadlockVictim(t)
    \/ CreateCount(t) \/ Insert(t) \/ InsertDuplicate(t) \/ CommitCreate(t)
    \/ MarkDeleted(t) \/ CommitDelete(t)
    \/ UpdateLock(t) \/ UpdateGone(t)
    \/ Rename(t) \/ RenameDuplicate(t) \/ CommitRename(t)

Request(t) ==
    \/ \E l \in Ids, n \in Names : CreateBegin(t, l, n) \/ UpdateRead(t, l, n)
    \/ \E l \in Ids : DeleteBegin(t, l)

Next == \E t \in Txs : Request(t) \/ Step(t) \/ Fail(t)

Spec == Init /\ [][Next]_vars

-----------------------------------------------------------------------------
(* Properties.                                                             *)

PCs == {"idle", "create", "insert", "inserted", "delete", "deleted",
        "update", "rename", "renamed"}

(* Every variable keeps its shape, and a row a SELECT ... FOR UPDATE gave  *)
(* back is an active one.                                                  *)
TypeOK ==
    /\ row \in [Ids -> Names \cup {NoName}]
    /\ tx \in [Txs -> [pc : PCs, id : Ids \cup {NoId}, name : Names \cup {NoName},
                       todo : SUBSET Ids, held : SUBSET Ids]]
    /\ \A t \in Txs : tx[t].held \subseteq Active

(* CE-010: a user who has a layout never ends up without one, whatever     *)
(* deletions, creations and editions overlap.                              *)
KeepsOne == [][Active # {} => Active' # {}]_vars

(* The names of a user's active layouts are all different (RF-006).        *)
NamesDiffer == \A k, l \in Active : row[k] = row[l] => k = l

(* The limit may be exceeded only by requests in progress at once: with n  *)
(* of them there are never more than MaxLayoutsPerUser - 1 + n layouts,    *)
(* and one at a time keeps the limit (RF-005).                             *)
LimitBounded == Cardinality(Active) < MaxLayoutsPerUser + Cardinality(Txs)

(* The guards of the steps of Step.                                        *)
Ready(t) ==
    \/ \E l \in Ids : Lockable(t, l)
    \/ InDeadlock(t)
    \/ Selected(t, "create") \/ Selected(t, "delete")
    \/ Insertable(t) \/ Duplicate(t)
    \/ Unlocked(t) \/ Renamable(t) \/ RenameHits(t)
    \/ tx[t].pc \in {"inserted", "deleted", "renamed"}

(* Two transactions of S stand at one of the statements in P.              *)
TwoAt(S, P) == \E t, u \in S : t # u /\ {tx[t].pc, tx[u].pc} \subseteq P

(* While requests are in progress one of them can take its next step: no   *)
(* row lock and no name outlives its transaction, so that whoever waits    *)
(* waits for an open one, and a circle of waits is one Postgres breaks.    *)
(* Such a circle is made of SELECTs that lock the same rows in different   *)
(* orders or of renames that want each other's names: a creation that has  *)
(* counted, or an UPDATE that has no row yet, is never what closes one.    *)
SomebodyProceeds ==
    /\ (\E t \in Txs : tx[t].pc # "idle") => \E t \in Txs : Ready(t)
    /\ \A S \in SUBSET Txs : S # {} /\ Deadlocked(S) =>
           TwoAt(S, {"create", "delete"}) \/ TwoAt(S, {"rename"})

(* What the comment of Create says: concurrent requests cannot both pass   *)
(* the count check and exceed the limit.  It does not hold: the statement  *)
(* locks the rows that exist and does not see the ones committed meanwhile.*)
LimitHolds == Cardinality(Active) <= MaxLayoutsPerUser
=============================================================================
