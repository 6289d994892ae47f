--------------------------- MODULE LayoutsProofs ---------------------------
(***************************************************************************)
(* The dashboard layouts keep their types, one layout at least and         *)
(* different names, for any number of layouts, names and requests.         *)
(*                                                                         *)
(* KeepsOne and NamesDiffer are not inductive.  What a deletion relies on  *)
(* is that the rows it counted are locked by nobody else, so that the ones *)
(* it leaves cannot go before it commits; what an insertion or a rename    *)
(* relies on is that the index entry it made keeps the name for it until   *)
(* it commits, and a rename that its row is locked.                        *)
(***************************************************************************)
EXTENDS Layouts, FiniteSetTheorems, TLAPS

Creating(t) == tx[t].pc \in {"create", "insert", "inserted"}

(* A row is locked by one transaction at most.                             *)
LocksExclusive ==
    \A t, u \in Txs : t # u => tx[t].held \cap tx[u].held = {}

(* A deletion that was decided leaves a row it has locked.                 *)
DeletionLeavesOne ==
    \A t \in Txs : tx[t].pc = "deleted" =>
        /\ tx[t].id \in tx[t].held
        /\ \E l \in tx[t].held : l # tx[t].id

(* The id of a creation in progress is a layout of nobody else.            *)
IdsReserved ==
    /\ \A t \in Txs : Creating(t) => tx[t].id \in Ids \ Active /\ tx[t].name \in Names
    /\ \A t, u \in Txs : Creating(t) /\ Creating(u) /\ t # u => tx[t].id # tx[u].id

Taking(t) == tx[t].pc \in {"inserted", "renamed"}

(* The name of an insertion or a rename to be committed is nobody else's.  *)
NamesReserved ==
    \A t \in Txs : Taking(t) =>
        /\ \A l \in Active : l # tx[t].id => row[l] # tx[t].name
        /\ \A u \in Txs : Taking(u) /\ u # t => tx[u].name # tx[t].name

(* Only ids and names of the tables are edited.                            *)
UpdatesTyped ==
    \A t \in Txs : tx[t].pc \in {"update", "rename", "renamed"} =>
        tx[t].id \in Ids /\ tx[t].name \in Names

(* A rename has locked its row.                                            *)
RenamesHold ==
    \A t \in Txs : tx[t].pc \in {"rename", "renamed"} => tx[t].id \in tx[t].held

(* Who holds a row lock has locked it in a transaction still open.         *)
OnlyLockersHold ==
    \A t \in Txs : tx[t].pc \in {"idle", "update"} => tx[t].held = {}

LayoutsInv ==
    /\ TypeOK
    /\ LocksExclusive
    /\ DeletionLeavesOne
    /\ IdsReserved
    /\ NamesReserved
    /\ UpdatesTyped
    /\ NamesDiffer
    /\ OnlyLockersHold
    /\ RenamesHold

-----------------------------------------------------------------------------
(* Two rows at least were counted, so one is left.                         *)
LEMMA MoreThanOne ==
    ASSUME NEW S, IsFiniteSet(S), Cardinality(S) > 1, NEW x \in S
    PROVE  \E y \in S : y # x
<1>1. SUFFICES ASSUME \A y \in S : y = x PROVE FALSE
  OBVIOUS
<1>2. S = {x}
  BY <1>1
<1>3. Cardinality(S) = 1
  BY <1>2, FS_Singleton
<1> QED
  BY <1>3

LEMMA InitInv == Init => LayoutsInv
  BY LayoutsAssumption
  DEF Init, LayoutsInv, TypeOK, LocksExclusive, DeletionLeavesOne, IdsReserved,
      NamesReserved, UpdatesTyped, NamesDiffer, OnlyLockersHold, RenamesHold, Active, NoTx, PCs, Creating, Taking

(* A request that ends, whatever the reason, without changing a row.       *)
LEMMA EndInv ==
    ASSUME LayoutsInv, NEW t \in Txs, End(t), row' = row
    PROVE  LayoutsInv'
  BY LayoutsAssumption
  DEF LayoutsInv, TypeOK, LocksExclusive, DeletionLeavesOne, IdsReserved, End,
      NamesReserved, UpdatesTyped, NamesDiffer, OnlyLockersHold, RenamesHold, Active, NoTx, PCs, Creating, Taking

(* A request that goes on to its next statement.                           *)
LEMMA MoveOn ==
    ASSUME LayoutsInv, NEW t \in Txs, NEW p \in PCs,
           tx' = [tx EXCEPT ![t].pc = p], row' = row
    PROVE  /\ TypeOK' /\ LocksExclusive' /\ NamesDiffer'
           /\ tx'[t].pc = p /\ tx'[t].id = tx[t].id
           /\ tx'[t].name = tx[t].name /\ tx'[t].held = tx[t].held
           /\ \A u \in Txs \ {t} : tx'[u] = tx[u]
           /\ Active' = Active
<1>1. /\ tx' \in [Txs -> [pc : PCs, id : Ids \cup {NoId}, name : Names \cup {NoName},
                          todo : SUBSET Ids, held : SUBSET Ids]]
      /\ tx'[t].pc = p /\ tx'[t].id = tx[t].id
      /\ tx'[t].name = tx[t].name /\ tx'[t].held = tx[t].held
      /\ \A u \in Txs \ {t} : tx'[u] = tx[u]
  BY DEF LayoutsInv, TypeOK
<1>2. Active' = Active
  BY DEF Active
<1>3. TypeOK' /\ LocksExclusive'
  BY <1>1, <1>2 DEF LayoutsInv, TypeOK, LocksExclusive
<1>4. NamesDiffer'
  BY <1>2 DEF LayoutsInv, NamesDiffer
<1> QED
  BY <1>1, <1>2, <1>3, <1>4

LEMMA NextInv == LayoutsInv /\ [Next]_vars => LayoutsInv'
<1> SUFFICES ASSUME LayoutsInv, [Next]_vars PROVE LayoutsInv'
  OBVIOUS
<1>1. CASE UNCHANGED vars
  BY <1>1
  DEF vars, LayoutsInv, TypeOK, LocksExclusive, DeletionLeavesOne, IdsReserved,
      NamesReserved, UpdatesTyped, NamesDiffer, OnlyLockersHold, RenamesHold, Active, NoTx, PCs, Creating, Taking
<1>2. ASSUME NEW t \in Txs, NEW l \in Ids, NEW n \in Names, CreateBegin(t, l, n)
      PROVE  LayoutsInv'
  BY <1>2, LayoutsAssumption
  DEF CreateBegin, Fresh, SelectForUpdate, LayoutsInv, TypeOK, LocksExclusive, DeletionLeavesOne, IdsReserved,
      NamesReserved, UpdatesTyped, NamesDiffer, OnlyLockersHold, RenamesHold, Active, NoTx, PCs, Creating, Taking
<1>3. ASSUME NEW t \in Txs, NEW l \in Ids, DeleteBegin(t, l) PROVE LayoutsInv'
  BY <1>3, LayoutsAssumption
  DEF DeleteBegin, SelectForUpdate, LayoutsInv, TypeOK, LocksExclusive, DeletionLeavesOne, IdsReserved,
      NamesReserved, UpdatesTyped, NamesDiffer, OnlyLockersHold, RenamesHold, Active, NoTx, PCs, Creating, Taking
<1>4. ASSUME NEW t \in Txs, NEW l \in Ids, NEW n \in Names, UpdateRead(t, l, n)
      PROVE  LayoutsInv'
  BY <1>4, LayoutsAssumption
  DEF UpdateRead, LayoutsInv, TypeOK, LocksExclusive, DeletionLeavesOne, IdsReserved,
      NamesReserved, UpdatesTyped, NamesDiffer, OnlyLockersHold, RenamesHold, Active, NoTx, PCs, Creating, Taking
<1>5. ASSUME NEW t \in Txs, NEW l \in Ids, LockRow(t, l) PROVE LayoutsInv'
  <2>1. /\ tx' \in [Txs -> [pc : PCs, id : Ids \cup {NoId}, name : Names \cup {NoName},
                            todo : SUBSET Ids, held : SUBSET Ids]]
        /\ tx'[t].pc = tx[t].pc /\ tx'[t].id = tx[t].id /\ tx'[t].name = tx[t].name
        /\ tx'[t].held = tx[t].held \cup ({l} \cap Active)
        /\ \A u \in Txs \ {t} : tx'[u] = tx[u]
    <3>1. /\ tx' = [tx EXCEPT ![t].todo = tx[t].todo \ {l},
                             ![t].held = tx[t].held \cup ({l} \cap Active)]
          /\ tx[t].todo \ {l} \in SUBSET Ids /\ tx[t].held \cup ({l} \cap Active) \in SUBSET Ids
      BY <1>5 DEF LockRow, LayoutsInv, TypeOK
    <3>2. tx \in [Txs -> [pc : PCs, id : Ids \cup {NoId}, name : Names \cup {NoName},
                         todo : SUBSET Ids, held : SUBSET Ids]]
      BY DEF LayoutsInv, TypeOK
    <3> QED
      BY <3>1, <3>2, ZenonT(40)
  <2>2. row' = row /\ Active' = Active
    BY <1>5 DEF LockRow, Lockable, Active
  <2>3. \A u \in Txs \ {t} : l \notin tx[u].held
    BY <1>5 DEF LockRow, Lockable
  <2>4. TypeOK' /\ LocksExclusive'
    BY <2>1, <2>2, <2>3 DEF LayoutsInv, TypeOK, LocksExclusive
  <2>5. DeletionLeavesOne' /\ UpdatesTyped' /\ NamesDiffer'
    BY <2>1, <2>2 DEF LayoutsInv, DeletionLeavesOne, UpdatesTyped, NamesDiffer
  <2>6. IdsReserved'
    BY <2>1, <2>2 DEF LayoutsInv, IdsReserved, Creating
  <2>7. NamesReserved'
    BY <2>1, <2>2 DEF LayoutsInv, NamesReserved, Taking
  <2>8. OnlyLockersHold'
    BY <1>5, <2>1 DEF LayoutsInv, OnlyLockersHold, LockRow, Lockable
  <2>9. RenamesHold'
    BY <2>1 DEF LayoutsInv, RenamesHold
  <2> QED
    BY <2>4, <2>5, <2>6, <2>7, <2>8, <2>9 DEF LayoutsInv
<1>6. ASSUME NEW t \in Txs, DeadlockVictim(t) \/ Fail(t) PROVE LayoutsInv'
  BY <1>6, EndInv DEF DeadlockVictim, Fail
<1>7. ASSUME NEW t \in Txs, CreateCount(t) PROVE LayoutsInv'
  <2>1. CASE BelowLimit(t)
    <3>1. tx[t].pc = "create" /\ row' = row /\ tx' = [tx EXCEPT ![t].pc = "insert"]
      BY <1>7, <2>1 DEF CreateCount, Selected
    <3> DEFINE Frame == /\ tx'[t].pc = "insert" /\ tx'[t].id = tx[t].id
                        /\ tx'[t].name = tx[t].name /\ tx'[t].held = tx[t].held
                        /\ \A u \in Txs \ {t} : tx'[u] = tx[u]
                        /\ Active' = Active
    <3>2. "insert" \in PCs
      BY DEF PCs
    <3>3. TypeOK' /\ LocksExclusive' /\ NamesDiffer' /\ Frame
      BY <3>1, <3>2, MoveOn
    <3>4. DeletionLeavesOne' /\ UpdatesTyped' /\ RenamesHold'
      BY <3>3 DEF LayoutsInv, DeletionLeavesOne, UpdatesTyped, RenamesHold
    <3>5. IdsReserved'
      BY <3>1, <3>3 DEF LayoutsInv, IdsReserved, Creating
    <3>6. NamesReserved' /\ OnlyLockersHold'
      BY <3>1, <3>3 DEF LayoutsInv, NamesReserved, OnlyLockersHold, Taking
    <3> QED
      BY <3>3, <3>4, <3>5, <3>6 DEF LayoutsInv
  <2> QED
    BY <1>7, <2>1, EndInv DEF CreateCount
<1>8. ASSUME NEW t \in Txs, Insert(t) PROVE LayoutsInv'
  <2>1. /\ tx[t].pc = "insert" /\ Settled(t, tx[t].name)
        /\ \A k \in Active \ {tx[t].id} : row[k] # tx[t].name
        /\ row' = row /\ tx' = [tx EXCEPT ![t].pc = "inserted"]
    BY <1>8 DEF Insert, Insertable, NameFree
  <2> DEFINE Frame == /\ tx'[t].pc = "inserted" /\ tx'[t].id = tx[t].id
                      /\ tx'[t].name = tx[t].name /\ tx'[t].held = tx[t].held
                      /\ \A u \in Txs \ {t} : tx'[u] = tx[u]
                      /\ Active' = Active
  <2>2. "inserted" \in PCs
    BY DEF PCs
  <2>3. TypeOK' /\ LocksExclusive' /\ NamesDiffer' /\ Frame
    BY <2>1, <2>2, MoveOn
  <2>4. DeletionLeavesOne' /\ UpdatesTyped' /\ RenamesHold'
    BY <2>3 DEF LayoutsInv, DeletionLeavesOne, UpdatesTyped, RenamesHold
  <2>5. IdsReserved'
    BY <2>1, <2>3 DEF LayoutsInv, IdsReserved, Creating
  <2>6. tx[t].id \notin Active
    BY <2>1 DEF LayoutsInv, IdsReserved, Creating
  <2>7. NamesReserved'
    BY <2>1, <2>3, <2>6 DEF LayoutsInv, NamesReserved, Settled, Undecided, Taking
  <2>8. OnlyLockersHold'
    BY <2>1, <2>3 DEF LayoutsInv, OnlyLockersHold
  <2> QED
    BY <2>3, <2>4, <2>5, <2>7, <2>8 DEF LayoutsInv
<1>9. ASSUME NEW t \in Txs, InsertDuplicate(t) \/ UpdateGone(t) \/ RenameDuplicate(t)
      PROVE  LayoutsInv'
  BY <1>9, EndInv DEF InsertDuplicate, UpdateGone, RenameDuplicate
<1>10. ASSUME NEW t \in Txs, CommitCreate(t) PROVE LayoutsInv'
  BY <1>10, LayoutsAssumption
  DEF CommitCreate, End, LayoutsInv, TypeOK, LocksExclusive, DeletionLeavesOne, IdsReserved,
      NamesReserved, UpdatesTyped, NamesDiffer, OnlyLockersHold, RenamesHold, Active, NoTx, PCs, Creating, Taking
<1>11. ASSUME NEW t \in Txs, MarkDeleted(t) PROVE LayoutsInv'
  <2>1. CASE Deletable(t)
    <3>1. IsFiniteSet(tx[t].held)
      BY LayoutsAssumption, FS_Subset DEF LayoutsInv, TypeOK
    <3>2. tx[t].id \in tx[t].held /\ \E l \in tx[t].held : l # tx[t].id
      BY <2>1, <3>1, MoreThanOne DEF Deletable
    <3>3. /\ tx' \in [Txs -> [pc : PCs, id : Ids \cup {NoId}, name : Names \cup {NoName},
                              todo : SUBSET Ids, held : SUBSET Ids]]
          /\ tx'[t].pc = "deleted" /\ tx'[t].id = tx[t].id /\ tx'[t].held = tx[t].held
          /\ \A u \in Txs \ {t} : tx'[u] = tx[u]
          /\ row' = row /\ Active' = Active
      BY <1>11, <2>1 DEF MarkDeleted, LayoutsInv, TypeOK, PCs, Active
    <3>4. TypeOK' /\ LocksExclusive'
      BY <3>3 DEF LayoutsInv, TypeOK, LocksExclusive
    <3>5. DeletionLeavesOne' /\ UpdatesTyped' /\ NamesDiffer'
      BY <3>2, <3>3 DEF LayoutsInv, DeletionLeavesOne, UpdatesTyped, NamesDiffer
    <3>6. IdsReserved' /\ NamesReserved'
      BY <3>3 DEF LayoutsInv, IdsReserved, NamesReserved, Creating, Taking
    <3>7. OnlyLockersHold' /\ RenamesHold'
      BY <3>3 DEF LayoutsInv, OnlyLockersHold, RenamesHold
    <3> QED
      BY <3>4, <3>5, <3>6, <3>7 DEF LayoutsInv
  <2> QED
    BY <1>11, <2>1, EndInv DEF MarkDeleted
<1>12. ASSUME NEW t \in Txs, CommitDelete(t) PROVE LayoutsInv'
  BY <1>12, LayoutsAssumption
  DEF CommitDelete, End, LayoutsInv, TypeOK, LocksExclusive, DeletionLeavesOne, IdsReserved,
      NamesReserved, UpdatesTyped, NamesDiffer, OnlyLockersHold, RenamesHold, Active, NoTx, PCs, Creating, Taking
<1>13. ASSUME NEW t \in Txs, UpdateLock(t) PROVE LayoutsInv'
  <2>1. /\ tx[t].pc = "update" /\ tx[t].id \in Active /\ row' = row
        /\ \A u \in Txs \ {t} : tx[t].id \notin tx[u].held
        /\ tx' = [tx EXCEPT ![t].pc = "rename", ![t].held = {tx[t].id}]
    BY <1>13 DEF UpdateLock, Unlocked
  <2>2. Active' = Active /\ Active \subseteq Ids
    BY <2>1 DEF Active
  <2>3. /\ tx' \in [Txs -> [pc : PCs, id : Ids \cup {NoId}, name : Names \cup {NoName},
                            todo : SUBSET Ids, held : SUBSET Ids]]
        /\ tx'[t].pc = "rename" /\ tx'[t].id = tx[t].id /\ tx'[t].name = tx[t].name
        /\ tx'[t].held = {tx[t].id} /\ \A u \in Txs \ {t} : tx'[u] = tx[u]
    BY <2>1, <2>2, ZenonT(60) DEF LayoutsInv, TypeOK, PCs
  <2>4. TypeOK' /\ LocksExclusive'
    BY <2>1, <2>2, <2>3 DEF LayoutsInv, TypeOK, LocksExclusive
  <2>5. DeletionLeavesOne' /\ UpdatesTyped' /\ NamesDiffer'
    BY <2>1, <2>2, <2>3 DEF LayoutsInv, DeletionLeavesOne, UpdatesTyped, NamesDiffer
  <2>6. IdsReserved' /\ NamesReserved'
    BY <2>1, <2>2, <2>3 DEF LayoutsInv, IdsReserved, NamesReserved, Creating, Taking
  <2>7. OnlyLockersHold' /\ RenamesHold'
    BY <2>3 DEF LayoutsInv, OnlyLockersHold, RenamesHold
  <2> QED
    BY <2>4, <2>5, <2>6, <2>7 DEF LayoutsInv
<1>14. ASSUME NEW t \in Txs, Rename(t) PROVE LayoutsInv'
  <2>1. /\ tx[t].pc = "rename" /\ Settled(t, tx[t].name)
        /\ \A k \in Active \ {tx[t].id} : row[k] # tx[t].name
        /\ row' = row /\ tx' = [tx EXCEPT ![t].pc = "renamed"]
    BY <1>14 DEF Rename, Renamable, NameFree
  <2> DEFINE Frame == /\ tx'[t].pc = "renamed" /\ tx'[t].id = tx[t].id
                      /\ tx'[t].name = tx[t].name /\ tx'[t].held = tx[t].held
                      /\ \A u \in Txs \ {t} : tx'[u] = tx[u]
                      /\ Active' = Active
  <2>2. "renamed" \in PCs
    BY DEF PCs
  <2>3. TypeOK' /\ LocksExclusive' /\ NamesDiffer' /\ Frame
    BY <2>1, <2>2, MoveOn
  <2>4. DeletionLeavesOne' /\ UpdatesTyped' /\ RenamesHold'
    BY <2>1, <2>3 DEF LayoutsInv, DeletionLeavesOne, UpdatesTyped, RenamesHold
  <2>5. IdsReserved' /\ OnlyLockersHold'
    BY <2>1, <2>3 DEF LayoutsInv, IdsReserved, OnlyLockersHold, Creating
  <2>6. NamesReserved'
    BY <2>1, <2>3 DEF LayoutsInv, NamesReserved, Settled, Undecided, Taking
  <2> QED
    BY <2>3, <2>4, <2>5, <2>6 DEF LayoutsInv
<1>15. ASSUME NEW t \in Txs, CommitRename(t) PROVE LayoutsInv'
  <2>1. /\ tx[t].pc = "renamed" /\ tx[t].id \in Active /\ tx[t].id \in Ids
        /\ tx[t].name \in Names /\ tx[t].name # NoName
    BY <1>15, LayoutsAssumption DEF CommitRename, LayoutsInv, TypeOK, RenamesHold, UpdatesTyped
  <2>2. /\ row' \in [Ids -> Names \cup {NoName}] /\ row'[tx[t].id] = tx[t].name
        /\ \A l \in Ids : l # tx[t].id => row'[l] = row[l]
    BY <1>15, <2>1 DEF CommitRename, LayoutsInv, TypeOK
  <2>3. Active' = Active
    BY <2>1, <2>2 DEF Active
  <2>4. /\ tx' \in [Txs -> [pc : PCs, id : Ids \cup {NoId}, name : Names \cup {NoName},
                            todo : SUBSET Ids, held : SUBSET Ids]]
        /\ tx'[t].pc = "idle" /\ tx'[t].held = {} /\ \A u \in Txs \ {t} : tx'[u] = tx[u]
    BY <1>15 DEF CommitRename, End, NoTx, LayoutsInv, TypeOK, PCs
  <2>5. TypeOK' /\ LocksExclusive'
    BY <2>2, <2>3, <2>4 DEF LayoutsInv, TypeOK, LocksExclusive
  <2>6. DeletionLeavesOne' /\ UpdatesTyped' /\ OnlyLockersHold' /\ RenamesHold'
    BY <2>4 DEF LayoutsInv, DeletionLeavesOne, UpdatesTyped, OnlyLockersHold, RenamesHold
  <2>7. IdsReserved'
    BY <2>3, <2>4 DEF LayoutsInv, IdsReserved, Creating
  <2>8. NamesDiffer'
    <3>1. \A l \in Active : l # tx[t].id => row[l] # tx[t].name
      BY <2>1 DEF LayoutsInv, NamesReserved, Taking
    <3> QED
      BY <2>1, <2>2, <2>3, <3>1 DEF LayoutsInv, NamesDiffer, Active
  <2>9. NamesReserved'
    <3> SUFFICES ASSUME NEW u \in Txs, Taking(u)'
                 PROVE  /\ \A l \in Active : l # tx[u].id => row'[l] # tx[u].name
                        /\ \A v \in Txs : Taking(v)' /\ v # u => tx'[v].name # tx[u].name
                        /\ tx'[u] = tx[u]
      BY <2>3 DEF NamesReserved
    <3>1. u # t /\ tx'[u] = tx[u] /\ Taking(u) /\ Taking(t)
      BY <2>1, <2>4 DEF Taking
    <3>2. tx[u].name # tx[t].name /\ \A l \in Active : l # tx[u].id => row[l] # tx[u].name
      BY <3>1 DEF LayoutsInv, NamesReserved
    <3>3. \A l \in Active : l # tx[u].id => row'[l] # tx[u].name
      BY <2>2, <3>2 DEF Active
    <3>4. \A v \in Txs : Taking(v)' => v # t /\ Taking(v) /\ tx'[v] = tx[v]
      BY <2>4 DEF Taking
    <3> QED
      BY <3>1, <3>3, <3>4 DEF LayoutsInv, NamesReserved
  <2> QED
    BY <2>5, <2>6, <2>7, <2>8, <2>9 DEF LayoutsInv
<1> QED
  BY <1>1, <1>2, <1>3, <1>4, <1>5, <1>6, <1>7, <1>8, <1>9, <1>10, <1>11, <1>12, <1>13,
     <1>14, <1>15
  DEF Next, Request, Step

-----------------------------------------------------------------------------
(* The rows a SELECT ... FOR UPDATE returned, to Create or to SoftDelete,  *)
(* stay active until its transaction ends.                                 *)
THEOREM LayoutsTyped == Spec => []TypeOK
<1>1. Spec => []LayoutsInv
  BY InitInv, NextInv, PTL DEF Spec
<1>2. LayoutsInv => TypeOK
  BY DEF LayoutsInv
<1> QED
  BY <1>1, <1>2, PTL

(* The names of the active layouts differ, whatever creations and editions *)
(* overlap: the unique index decides, not a SELECT.                        *)
THEOREM LayoutsDiffer == Spec => []NamesDiffer
<1>1. Spec => []LayoutsInv
  BY InitInv, NextInv, PTL DEF Spec
<1>2. LayoutsInv => NamesDiffer
  BY DEF LayoutsInv
<1> QED
  BY <1>1, <1>2, PTL

(* No step of any request takes the last layout: SoftDelete counts rows    *)
(* that nobody else can delete before it commits.                          *)
THEOREM LayoutsKeepOne == Spec => KeepsOne
<1>1. Spec => []LayoutsInv
  BY InitInv, NextInv, PTL DEF Spec
<1>2. ASSUME LayoutsInv, [Next]_vars PROVE [Active # {} => Active' # {}]_vars
  <2>1. ASSUME NEW t \in Txs, CommitDelete(t) PROVE Active' # {}
    <3>1. PICK l \in tx[t].held : l # tx[t].id
      BY <1>2, <2>1 DEF CommitDelete, LayoutsInv, DeletionLeavesOne
    <3>2. l \in Ids /\ row[l] # NoName
      BY <1>2, <3>1 DEF LayoutsInv, TypeOK, Active
    <3>3. row'[l] = row[l]
      BY <1>2, <2>1, <3>1, <3>2 DEF CommitDelete, LayoutsInv, TypeOK
    <3> QED
      BY <3>2, <3>3 DEF Active
  <2>2. ASSUME NEW t \in Txs, CommitCreate(t) \/ CommitRename(t), Active # {}
        PROVE  Active' # {}
    <3>1. tx[t].id \in Ids /\ tx[t].name # NoName
      BY <1>2, <2>2, LayoutsAssumption
      DEF CommitCreate, CommitRename, LayoutsInv, IdsReserved, UpdatesTyped, Creating
    <3> QED
      BY <1>2, <2>2, <3>1 DEF CommitCreate, CommitRename, Active, LayoutsInv, TypeOK
  <2>3. ASSUME row' = row PROVE Active' = Active
    BY <2>3 DEF Active
  <2> QED
    BY <1>2, <2>1, <2>2, <2>3
    DEF Next, Request, Step, Fail, CreateBegin, DeleteBegin, SelectForUpdate,
        UpdateRead, LockRow, DeadlockVictim, CreateCount, Insert, InsertDuplicate,
        MarkDeleted, UpdateLock, UpdateGone, Rename, RenameDuplicate, vars
<1> QED
  BY <1>1, <1>2, PTL DEF Spec, KeepsOne

-----------------------------------------------------------------------------
(* The limit.  LimitBounded is not inductive: what the open transactions   *)
(* may still add has to be counted in, and a deletion both makes room for  *)
(* them and takes a row away, so that every limit L from MaxLayoutsPerUser *)
(* on has its own bound.                                                   *)

(* The rows that the SELECT of t returned or may still return.             *)
Selectable(t) == (tx[t].todo \cup tx[t].held) \cap Active

(* The creations that may still pass a count against the limit L.          *)
Contenders(L) ==
    {t \in Txs : \/ tx[t].pc \in {"insert", "inserted"}
                 \/ tx[t].pc = "create" /\ Cardinality(Selectable(t)) < L}

CrowdBounded ==
    \A L \in Nat : L >= MaxLayoutsPerUser =>
        Cardinality(Active) + Cardinality(Contenders(L)) < L + Cardinality(Txs)

LEMMA Finite ==
    /\ IsFiniteSet(Txs) /\ Cardinality(Txs) \in Nat /\ Cardinality(Txs) > 0
    /\ IsFiniteSet(Active) /\ Cardinality(Active) \in Nat
    /\ \A S : S \subseteq Txs => /\ IsFiniteSet(S) /\ Cardinality(S) \in Nat
                                 /\ Cardinality(S) <= Cardinality(Txs)
    /\ \A L : Contenders(L) \subseteq Txs
<1>1. Active \subseteq Ids
  BY DEF Active
<1>2. \A S : S \subseteq Txs => IsFiniteSet(S) /\ Cardinality(S) <= Cardinality(Txs)
  BY LayoutsAssumption, FS_Subset
<1>3. \A L : Contenders(L) \subseteq Txs
  BY DEF Contenders
<1>4. Cardinality(Txs) # 0
  BY LayoutsAssumption, FS_EmptySet
<1> QED
  BY <1>1, <1>2, <1>3, <1>4, LayoutsAssumption, FS_Subset, FS_CardinalityType

(* No row changes and nobody new contends.                                 *)
LEMMA CrowdKept ==
    ASSUME CrowdBounded, Active' = Active, \A L \in Nat : L >= MaxLayoutsPerUser => Contenders(L)' \subseteq Contenders(L)
    PROVE  CrowdBounded'
<1> SUFFICES ASSUME NEW L \in Nat, L >= MaxLayoutsPerUser
             PROVE  Cardinality(Active') + Cardinality(Contenders(L)') < L + Cardinality(Txs)
  BY DEF CrowdBounded
<1>1. Contenders(L) \subseteq Txs /\ IsFiniteSet(Contenders(L))
  BY Finite
<1>2. Cardinality(Contenders(L)') <= Cardinality(Contenders(L))
  BY <1>1, FS_Subset
<1>3. Contenders(L)' \subseteq Txs
  BY <1>1
<1>4. Cardinality(Contenders(L)') \in Nat /\ Cardinality(Contenders(L)) \in Nat
  BY <1>1, <1>3, Finite
<1> QED
  BY <1>2, <1>4, Finite DEF CrowdBounded

(* What a step leaves of the other transactions.                           *)
LEMMA OthersKept ==
    ASSUME NEW t \in Txs, NEW u \in Txs, tx'[u] = tx[u], Active' = Active, NEW L \in Nat,
           u \in Contenders(L)'
    PROVE  u \in Contenders(L)
  BY DEF Contenders, Selectable

LEMMA CrowdEnd ==
    ASSUME LayoutsInv, CrowdBounded, NEW t \in Txs, End(t), Active' = Active
    PROVE  CrowdBounded'
<1>1. tx'[t].pc = "idle" /\ \A u \in Txs \ {t} : tx'[u] = tx[u]
  BY DEF LayoutsInv, TypeOK, End, NoTx
<1>2. ASSUME NEW L \in Nat, NEW u \in Contenders(L)' PROVE u \in Contenders(L)
  <2>1. u \in Txs /\ u # t
    BY <1>1, <1>2 DEF Contenders
  <2> QED
    BY <1>1, <1>2, <2>1, OthersKept
<1> QED
  BY <1>2, CrowdKept

LEMMA CrowdBegin ==
    ASSUME LayoutsInv, CrowdBounded, NEW t \in Txs, NEW l \in Ids, NEW n,
           SelectForUpdate(t, "create", l, n)
    PROVE  CrowdBounded'
<1>1. /\ tx'[t].pc = "create" /\ tx'[t].todo = Active /\ tx'[t].held = {}
      /\ row' = row /\ Active' = Active /\ \A u \in Txs \ {t} : tx'[u] = tx[u]
  BY DEF SelectForUpdate, LayoutsInv, TypeOK, Active
<1>2. Selectable(t)' = Active
  BY <1>1 DEF Selectable
<1> SUFFICES ASSUME NEW L \in Nat, L >= MaxLayoutsPerUser
             PROVE  Cardinality(Active) + Cardinality(Contenders(L)') < L + Cardinality(Txs)
  BY <1>1 DEF CrowdBounded
<1>3. Contenders(L)' \subseteq Txs
  BY DEF Contenders
<1>4. CASE Cardinality(Active) < L
  BY <1>3, <1>4, Finite
<1>5. CASE ~(Cardinality(Active) < L)
  <2>1. t \notin Contenders(L)'
    BY <1>1, <1>2, <1>5 DEF Contenders
  <2>2. Contenders(L)' \subseteq Contenders(L)
    BY <1>1, <1>3, <2>1, OthersKept
  <2>3. Cardinality(Contenders(L)') <= Cardinality(Contenders(L))
    BY <2>2, Finite, FS_Subset
  <2>4. Cardinality(Contenders(L)') \in Nat /\ Cardinality(Contenders(L)) \in Nat
    BY <1>3, Finite
  <2> QED
    BY <2>3, <2>4, Finite DEF CrowdBounded
<1> QED
  BY <1>4, <1>5

(* A committed creation leaves the contenders and the others see no less.  *)
LEMMA CrowdCreate ==
    ASSUME LayoutsInv, CrowdBounded, NEW t \in Txs, CommitCreate(t)
    PROVE  CrowdBounded'
<1> DEFINE l == tx[t].id
<1>1. tx'[t].pc = "idle" /\ \A u \in Txs \ {t} : tx'[u] = tx[u]
  BY DEF LayoutsInv, TypeOK, CommitCreate, End, NoTx
<1>2. l \in Ids \ Active /\ tx[t].name # NoName
  BY LayoutsAssumption DEF LayoutsInv, IdsReserved, Creating, CommitCreate
<1>3. Active' = Active \cup {l}
  BY <1>2 DEF LayoutsInv, TypeOK, CommitCreate, Active
<1> SUFFICES ASSUME NEW L \in Nat, L >= MaxLayoutsPerUser
             PROVE  Cardinality(Active') + Cardinality(Contenders(L)') < L + Cardinality(Txs)
  BY DEF CrowdBounded
<1>4. Cardinality(Active') = Cardinality(Active) + 1
  BY <1>2, <1>3, Finite, FS_AddElement
<1>5. t \in Contenders(L)
  BY DEF CommitCreate, Contenders
<1>6. ASSUME NEW u \in Contenders(L)' PROVE u \in Contenders(L) \ {t}
  <2>1. u \in Txs /\ u # t /\ tx'[u] = tx[u]
    BY <1>1, <1>6 DEF Contenders
  <2>2. Selectable(u) \subseteq Selectable(u)' /\ Selectable(u)' \subseteq Active'
    BY <1>3, <2>1 DEF Selectable
  <2>3. IsFiniteSet(Active')
    BY <1>2, <1>3, Finite, FS_AddElement
  <2>4. /\ Cardinality(Selectable(u)) <= Cardinality(Selectable(u)')
        /\ Cardinality(Selectable(u)) \in Nat /\ Cardinality(Selectable(u)') \in Nat
    BY <2>2, <2>3, FS_Subset, FS_CardinalityType
  <2> QED
    BY <1>6, <2>1, <2>4 DEF Contenders
<1>7. Cardinality(Contenders(L) \ {t}) = Cardinality(Contenders(L)) - 1
  BY <1>5, Finite, FS_RemoveElement
<1>8. Contenders(L) \ {t} \subseteq Txs /\ Contenders(L)' \subseteq Contenders(L) \ {t}
  BY <1>6, Finite
<1>9. Cardinality(Contenders(L)') <= Cardinality(Contenders(L) \ {t})
  BY <1>8, Finite, FS_Subset
<1>10. Cardinality(Contenders(L)') \in Nat /\ Cardinality(Contenders(L)) \in Nat
  BY <1>8, Finite
<1> QED
  BY <1>4, <1>7, <1>9, <1>10, Finite DEF CrowdBounded

(* A committed deletion brings the others one row nearer to the limit: who *)
(* contends for L now contended for L + 1 before.                          *)
LEMMA CrowdDelete ==
    ASSUME LayoutsInv, CrowdBounded, NEW t \in Txs, CommitDelete(t)
    PROVE  CrowdBounded'
<1> DEFINE l == tx[t].id
<1>1. tx'[t].pc = "idle" /\ \A u \in Txs \ {t} : tx'[u] = tx[u]
  BY DEF LayoutsInv, TypeOK, CommitDelete, End, NoTx
<1>2. l \in Active
  BY DEF LayoutsInv, TypeOK, DeletionLeavesOne, CommitDelete
<1>3. Active' = Active \ {l}
  BY <1>2 DEF LayoutsInv, TypeOK, CommitDelete, Active
<1> SUFFICES ASSUME NEW L \in Nat, L >= MaxLayoutsPerUser
             PROVE  Cardinality(Active') + Cardinality(Contenders(L)') < L + Cardinality(Txs)
  BY DEF CrowdBounded
<1>4. Cardinality(Active') = Cardinality(Active) - 1
  BY <1>2, <1>3, Finite, FS_RemoveElement
<1>5. ASSUME NEW u \in Contenders(L)' PROVE u \in Contenders(L + 1)
  <2>1. u \in Txs /\ u # t /\ tx'[u] = tx[u]
    BY <1>1, <1>5 DEF Contenders
  <2>2. Selectable(u)' = Selectable(u) \ {l} /\ Selectable(u) \subseteq Active
    BY <1>3, <2>1 DEF Selectable
  <2>3. IsFiniteSet(Selectable(u)) /\ Cardinality(Selectable(u)) \in Nat
    BY <2>2, Finite, FS_Subset, FS_CardinalityType
  <2>4. Cardinality(Selectable(u)') \in Nat /\ Cardinality(Selectable(u)) <= Cardinality(Selectable(u)') + 1
    <3>1. CASE l \in Selectable(u)
      <4>1. Cardinality(Selectable(u) \ {l}) = Cardinality(Selectable(u)) - 1
        BY <2>3, <3>1, FS_RemoveElement
      <4>2. Cardinality(Selectable(u) \ {l}) \in Nat
        BY <2>3, <3>1, FS_RemoveElement, FS_CardinalityType
      <4> QED
        BY <2>2, <2>3, <4>1, <4>2
    <3>2. CASE l \notin Selectable(u)
      <4>1. Selectable(u)' = Selectable(u)
        BY <2>2, <3>2
      <4> QED
        BY <2>3, <4>1
    <3> QED
      BY <3>1, <3>2
  <2> QED
    BY <1>5, <2>1, <2>3, <2>4 DEF Contenders
<1>6. Contenders(L)' \subseteq Contenders(L + 1)
  BY <1>5
<1>7. Cardinality(Contenders(L)') <= Cardinality(Contenders(L + 1))
  BY <1>6, Finite, FS_Subset
<1>8. Contenders(L)' \subseteq Txs
  BY DEF Contenders
<1>9. Cardinality(Contenders(L)') \in Nat /\ Cardinality(Contenders(L + 1)) \in Nat
  BY <1>8, Finite
<1>10. L + 1 \in Nat /\ L + 1 >= MaxLayoutsPerUser
  BY LayoutsAssumption
<1>11. Cardinality(Active) + Cardinality(Contenders(L + 1)) < L + 1 + Cardinality(Txs)
  BY <1>10 DEF CrowdBounded
<1> QED
  BY <1>4, <1>7, <1>9, <1>11, Finite

LEMMA CrowdNext ==
    ASSUME LayoutsInv, CrowdBounded, [Next]_vars
    PROVE  CrowdBounded'
<1>t. tx \in [Txs -> [pc : PCs, id : Ids \cup {NoId}, name : Names \cup {NoName},
                      todo : SUBSET Ids, held : SUBSET Ids]]
  BY DEF LayoutsInv, TypeOK
<1>0. row' = row => Active' = Active
  BY DEF Active
<1>1. CASE UNCHANGED vars
  <2>1. tx' = tx /\ Active' = Active
    BY <1>0, <1>1 DEF vars
  <2>2. \A L \in Nat : Contenders(L)' \subseteq Contenders(L)
    BY <2>1 DEF Contenders, Selectable
  <2> QED
    BY <2>1, <2>2, CrowdKept
<1>2. ASSUME NEW t \in Txs, NEW l \in Ids, NEW n \in Names, CreateBegin(t, l, n)
      PROVE  CrowdBounded'
  BY <1>2, CrowdBegin DEF CreateBegin
(* A step of t that does not make a contender of it.                       *)
<1>3. ASSUME NEW t \in Txs, Active' = Active, \A u \in Txs \ {t} : tx'[u] = tx[u],
             \A L \in Nat : L >= MaxLayoutsPerUser /\ t \in Contenders(L)' => t \in Contenders(L)
      PROVE  CrowdBounded'
  <2>1. ASSUME NEW L \in Nat, L >= MaxLayoutsPerUser, NEW u \in Contenders(L)'
        PROVE  u \in Contenders(L)
    <3>1. u \in Txs
      BY <2>1 DEF Contenders
    <3> QED
      BY <1>3, <2>1, <3>1, OthersKept
  <2> QED
    BY <1>3, <2>1, CrowdKept
<1>4. ASSUME NEW t \in Txs, NEW l \in Ids, DeleteBegin(t, l) PROVE CrowdBounded'
  <2>1. /\ tx'[t].pc = "delete" /\ Active' = Active
        /\ \A u \in Txs \ {t} : tx'[u] = tx[u]
    BY <1>t, <1>0, <1>4 DEF DeleteBegin, SelectForUpdate
  <2>2. \A L \in Nat : t \notin Contenders(L)'
    BY <2>1 DEF Contenders
  <2> QED
    BY <1>3, <2>1, <2>2
<1>5. ASSUME NEW t \in Txs, NEW l \in Ids, NEW n \in Names, UpdateRead(t, l, n)
      PROVE  CrowdBounded'
  <2>1. /\ tx'[t].pc = "update" /\ Active' = Active
        /\ \A u \in Txs \ {t} : tx'[u] = tx[u]
    BY <1>t, <1>0, <1>5 DEF UpdateRead
  <2>2. \A L \in Nat : t \notin Contenders(L)'
    BY <2>1 DEF Contenders
  <2> QED
    BY <1>3, <2>1, <2>2
<1>6. ASSUME NEW t \in Txs, NEW l \in Ids, LockRow(t, l) PROVE CrowdBounded'
  <2>1. /\ tx'[t].pc = tx[t].pc /\ Active' = Active
        /\ tx'[t].todo = tx[t].todo \ {l} /\ l \in tx[t].todo
        /\ tx'[t].held = tx[t].held \cup ({l} \cap Active)
        /\ \A u \in Txs \ {t} : tx'[u] = tx[u]
    BY <1>t, <1>0, <1>6 DEF LockRow, Lockable
  <2>2. Selectable(t)' = Selectable(t)
    BY <2>1 DEF Selectable
  <2>3. \A L \in Nat : t \in Contenders(L)' => t \in Contenders(L)
    BY <2>1, <2>2 DEF Contenders
  <2> QED
    BY <1>3, <2>1, <2>3
<1>7. ASSUME NEW t \in Txs, End(t), row' = row PROVE CrowdBounded'
  BY <1>0, <1>7, CrowdEnd
<1>8. ASSUME NEW t \in Txs, CreateCount(t) PROVE CrowdBounded'
  <2>1. CASE BelowLimit(t)
    <3>1. /\ tx[t].pc = "create" /\ tx[t].todo = {} /\ Active' = Active
          /\ \A u \in Txs \ {t} : tx'[u] = tx[u]
      BY <1>t, <1>0, <1>8, <2>1 DEF CreateCount, Selected
    <3>2. Selectable(t) = tx[t].held
      BY <3>1 DEF Selectable, LayoutsInv, TypeOK
    <3>3. IsFiniteSet(tx[t].held) /\ Cardinality(tx[t].held) \in Nat
      BY <1>t, LayoutsAssumption, FS_Subset, FS_CardinalityType
    <3>4. Cardinality(tx[t].held) < MaxLayoutsPerUser
      BY <2>1 DEF BelowLimit
    <3>5. \A L \in Nat : L >= MaxLayoutsPerUser => t \in Contenders(L)
      BY <3>1, <3>2, <3>3, <3>4, LayoutsAssumption DEF Contenders
    <3> QED
      BY <1>3, <3>1, <3>5
  <2>2. CASE ~BelowLimit(t)
    BY <1>7, <1>8, <2>2 DEF CreateCount
  <2> QED
    BY <2>1, <2>2
<1>9. ASSUME NEW t \in Txs, Insert(t) PROVE CrowdBounded'
  <2>1. /\ tx[t].pc = "insert" /\ Active' = Active
        /\ \A u \in Txs \ {t} : tx'[u] = tx[u]
    BY <1>t, <1>0, <1>9 DEF Insert, Insertable
  <2>2. \A L \in Nat : t \in Contenders(L)
    BY <2>1 DEF Contenders
  <2> QED
    BY <1>3, <2>1, <2>2
<1>10. ASSUME NEW t \in Txs, MarkDeleted(t) PROVE CrowdBounded'
  <2>1. CASE Deletable(t)
    <3>1. /\ tx'[t].pc = "deleted" /\ Active' = Active
          /\ \A u \in Txs \ {t} : tx'[u] = tx[u]
      BY <1>t, <1>0, <1>10, <2>1 DEF MarkDeleted
    <3>2. \A L \in Nat : t \notin Contenders(L)'
      BY <3>1 DEF Contenders
    <3> QED
      BY <1>3, <3>1, <3>2
  <2>2. CASE ~Deletable(t)
    BY <1>7, <1>10, <2>2 DEF MarkDeleted
  <2> QED
    BY <2>1, <2>2
<1>11. ASSUME NEW t \in Txs, UpdateLock(t) \/ Rename(t) PROVE CrowdBounded'
  <2>1. /\ tx'[t].pc \in {"rename", "renamed"} /\ Active' = Active
        /\ \A u \in Txs \ {t} : tx'[u] = tx[u]
    BY <1>t, <1>0, <1>11 DEF UpdateLock, Rename
  <2>2. \A L \in Nat : t \notin Contenders(L)'
    BY <2>1 DEF Contenders
  <2> QED
    BY <1>3, <2>1, <2>2
<1>12. ASSUME NEW t \in Txs, CommitRename(t) PROVE CrowdBounded'
  <2>1. tx[t].id \in Active /\ tx[t].name # NoName
    BY <1>12, LayoutsAssumption
    DEF CommitRename, LayoutsInv, TypeOK, RenamesHold, UpdatesTyped
  <2>2. Active' = Active /\ End(t)
    BY <1>12, <2>1 DEF CommitRename, Active, LayoutsInv, TypeOK
  <2> QED
    BY <2>2, CrowdEnd
<1> QED
  BY <1>1, <1>2, <1>4, <1>5, <1>6, <1>7, <1>8, <1>9, <1>10, <1>11, <1>12, CrowdCreate, CrowdDelete
  DEF Next, Request, Step, Fail, DeadlockVictim, InsertDuplicate, UpdateGone, RenameDuplicate

(* RF-005 as far as the code keeps it: with n requests at once there are   *)
(* never more than MaxLayoutsPerUser - 1 + n active layouts, for every n   *)
(* and every limit; one request at a time keeps the limit.                 *)
THEOREM LayoutsBounded == Spec => []LimitBounded
<1>1. Init => CrowdBounded
  <2> SUFFICES ASSUME Init, NEW L \in Nat, L >= MaxLayoutsPerUser
               PROVE  Cardinality(Active) + Cardinality(Contenders(L)) < L + Cardinality(Txs)
    BY DEF CrowdBounded
  <2>1. Active = {} /\ Contenders(L) = {}
    BY DEF Init, Active, Contenders, NoTx
  <2> QED
    BY <2>1, Finite, FS_EmptySet
<1>2. LayoutsInv /\ CrowdBounded => LimitBounded
  <2> SUFFICES ASSUME CrowdBounded PROVE LimitBounded
    OBVIOUS
  <2>1. Cardinality(Active) + Cardinality(Contenders(MaxLayoutsPerUser)) < MaxLayoutsPerUser + Cardinality(Txs)
    BY LayoutsAssumption DEF CrowdBounded
  <2>2. Cardinality(Contenders(MaxLayoutsPerUser)) \in Nat
    BY Finite
  <2> QED
    BY <2>1, <2>2, Finite, LayoutsAssumption DEF LimitBounded
<1> QED
  BY <1>1, <1>2, InitInv, NextInv, CrowdNext, PTL DEF Spec
-----------------------------------------------------------------------------
(* Who wants a name and cannot be told whether it is free waits for it.    *)
LEMMA NameDecided ==
    ASSUME NEW t \in Txs, NEW l, NEW n, ~NameFree(t, l, n), ~NameTaken(t, l, n)
    PROVE  \E u \in Txs \ {t} : n \in Undecided(u)
  BY DEF NameFree, NameTaken, Settled

(* An open transaction that nothing lets go on waits for other open ones.  *)
LEMMA UnreadyWaits ==
    ASSUME LayoutsInv, NEW t \in Txs, tx[t].pc # "idle", ~Ready(t)
    PROVE  WaitsFor(t, {u \in Txs : tx[u].pc # "idle"} \ {t})
<1> DEFINE S == {u \in Txs : tx[u].pc # "idle"}
<1>1. /\ tx[t].pc \in PCs /\ tx[t].todo \subseteq Ids
      /\ \A u \in Txs : tx[u].pc = "idle" => tx[u].held = {}
  BY DEF LayoutsInv, TypeOK, OnlyLockersHold
<1>2. tx[t].pc \notin {"inserted", "deleted", "renamed"}
  BY DEF Ready
<1>3. CASE tx[t].pc \in {"create", "delete"}
  <2>1. tx[t].todo # {}
    BY <1>3 DEF Ready, Selected
  <2>2. ASSUME NEW l \in tx[t].todo PROVE \E u \in S \ {t} : l \in tx[u].held
    <3>1. ~Lockable(t, l)
      BY <1>1, <2>2 DEF Ready
    <3>2. PICK u \in Txs \ {t} : l \in tx[u].held
      BY <1>3, <2>2, <3>1 DEF Lockable
    <3> QED
      BY <1>1, <3>2
  <2> QED
    BY <1>3, <2>1, <2>2 DEF WaitsFor
<1>4. CASE tx[t].pc = "update"
  <2>1. PICK u \in Txs \ {t} : tx[t].id \in tx[u].held
    BY <1>4 DEF Ready, Unlocked
  <2>2. u \in S \ {t}
    BY <1>1, <2>1
  <2> QED
    BY <1>4, <2>1, <2>2 DEF WaitsFor
<1>5. CASE tx[t].pc \in {"insert", "rename"}
  <2>1. ~NameFree(t, tx[t].id, tx[t].name) /\ ~NameTaken(t, tx[t].id, tx[t].name)
    BY <1>5 DEF Ready, Insertable, Duplicate, Renamable, RenameHits
  <2>2. PICK u \in Txs \ {t} : tx[t].name \in Undecided(u)
    BY <2>1, NameDecided
  <2>3. tx[u].pc # "idle"
    BY <2>2 DEF Undecided
  <2>4. u \in S \ {t}
    BY <2>2, <2>3
  <2> QED
    BY <1>5, <2>2, <2>4 DEF WaitsFor
<1> QED
  BY <1>1, <1>2, <1>3, <1>4, <1>5 DEF PCs

(* A rename in a circle waits for the name another rename gives up, since  *)
(* whoever has its index entry already waits for nobody.                   *)
LEMMA RenamesMeet ==
    ASSUME NEW S \in SUBSET Txs, Deadlocked(S), NEW t \in S,
           tx[t].pc \in {"insert", "rename"}
    PROVE  TwoAt(S, {"rename"})
<1>1. ASSUME NEW v \in S, tx[v].pc \in {"insert", "rename"}
      PROVE  \E w \in S : w # v /\ tx[w].pc = "rename"
  <2>1. PICK w \in S \ {v} : tx[v].name \in Undecided(w)
    BY <1>1 DEF Deadlocked, WaitsFor
  <2>2. tx[w].pc \notin {"inserted", "deleted", "renamed"}
    BY <2>1 DEF Deadlocked, WaitsFor
  <2>3. tx[w].pc = "rename"
    BY <2>1, <2>2 DEF Undecided
  <2> QED
    BY <2>1, <2>3
<1>2. PICK u \in S : tx[u].pc = "rename"
  BY <1>1
<1>3. PICK w \in S : w # u /\ tx[w].pc = "rename"
  BY <1>1, <1>2
<1> QED
  BY <1>2, <1>3 DEF TwoAt

(* What a circle of waits is made of.                                      *)
LEMMA CirclesKnown ==
    ASSUME LayoutsInv, NEW S \in SUBSET Txs, S # {}, Deadlocked(S)
    PROVE  TwoAt(S, {"create", "delete"}) \/ TwoAt(S, {"rename"})
<1>1. /\ \A t \in S : tx[t].pc \in PCs
      /\ \A t \in S : tx[t].pc \in {"idle", "update"} => tx[t].held = {}
  BY DEF LayoutsInv, TypeOK, OnlyLockersHold
<1>2. \A t \in S : tx[t].pc \in {"create", "delete", "update", "insert", "rename"}
  BY DEF Deadlocked, WaitsFor
(* Who waits for a row waits for a SELECT, or else names are waited for.   *)
<1>3. ASSUME NEW t \in S, tx[t].pc \in {"create", "delete", "update"},
             ~TwoAt(S, {"rename"})
      PROVE  \E u \in S : u # t /\ tx[u].pc \in {"create", "delete"}
  <2>1. PICK u \in S \ {t}, l \in Ids : l \in tx[u].held
    <3>1. CASE tx[t].pc = "update"
      <4>1. PICK u \in S \ {t} : tx[t].id \in tx[u].held
        BY <3>1 DEF Deadlocked, WaitsFor
      <4>2. tx[u].held \subseteq Ids
        BY DEF LayoutsInv, TypeOK
      <4> QED
        BY <4>1, <4>2
    <3>2. CASE tx[t].pc \in {"create", "delete"}
      <4>1. PICK l \in tx[t].todo : \E u \in S \ {t} : l \in tx[u].held
        BY <3>2 DEF Deadlocked, WaitsFor
      <4>2. tx[t].todo \subseteq Ids
        BY DEF LayoutsInv, TypeOK
      <4> QED
        BY <4>1, <4>2
    <3> QED
      BY <1>3, <3>1, <3>2
  <2>2. tx[u].pc \notin {"update", "insert", "rename"}
    BY <1>1, <1>3, <2>1, RenamesMeet
  <2> QED
    BY <1>2, <2>1, <2>2
<1>4. CASE TwoAt(S, {"rename"})
  BY <1>4
<1>5. CASE ~TwoAt(S, {"rename"})
  <2>1. \A t \in S : tx[t].pc \in {"create", "delete", "update"}
    BY <1>2, <1>5, RenamesMeet
  <2>2. PICK t \in S : TRUE
    OBVIOUS
  <2>3. PICK u \in S : tx[u].pc \in {"create", "delete"}
    BY <1>3, <1>5, <2>1, <2>2
  <2>4. PICK w \in S : w # u /\ tx[w].pc \in {"create", "delete"}
    BY <1>3, <1>5, <2>3
  <2> QED
    BY <2>3, <2>4 DEF TwoAt
<1> QED
  BY <1>4, <1>5

(* Nobody waits for ever.  If no request could take its next step, all the *)
(* open ones would wait for open ones, which is a circle that Postgres     *)
(* breaks; and the circles there are made of SELECTs or of renames.        *)
THEOREM LayoutsProceed == Spec => []SomebodyProceeds
<1>1. Spec => []LayoutsInv
  BY InitInv, NextInv, PTL DEF Spec
<1>2. LayoutsInv => SomebodyProceeds
  <2> SUFFICES ASSUME LayoutsInv PROVE SomebodyProceeds
    OBVIOUS
  <2> DEFINE S == {u \in Txs : tx[u].pc # "idle"}
  <2>1. ASSUME NEW t \in Txs, tx[t].pc # "idle", \A u \in Txs : ~Ready(u)
        PROVE  FALSE
    <3>1. \A u \in S : WaitsFor(u, S \ {u})
      BY <2>1, UnreadyWaits
    <3> HIDE DEF S
    <3>2. Deadlocked(S)
      BY <3>1 DEF Deadlocked
    <3>3. t \in S /\ S \in SUBSET Txs
      BY <2>1 DEF S
    <3>4. InDeadlock(t)
      BY <3>2, <3>3 DEF InDeadlock
    <3> QED
      BY <2>1, <3>4 DEF Ready
  <2> QED
    BY <2>1, CirclesKnown DEF SomebodyProceeds
<1> QED
  BY <1>1, <1>2, PTL
=============================================================================
