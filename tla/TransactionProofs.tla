--------------------------- MODULE TransactionProofs ---------------------------
(***************************************************************************)
(* Overlapping database transactions, for any number of sessions, rows and *)
(* instances: the database pool is never overbooked, and transactions that *)
(* wait for each other include one that does not keep to LockOrder.        *)
(***************************************************************************)
EXTENDS DatabasePool, RowLocks, FiniteSetTheorems, WellFoundedInduction, TLAPS

(***************************************************************************)
(* The capacity of the database pool.  WithinCapacity is not inductive:    *)
(* what a transaction counted must still be an upper bound when it         *)
(* commits, which CountsAreSafe adds.                                      *)
(***************************************************************************)

PoolInv == PTypeOK /\ WithinCapacity /\ CountsAreSafe

\* Allocations of one database can be counted.
LEMMA UsedType ==
    ASSUME NEW d
    PROVE  /\ IsFiniteSet(Allocated(d))
           /\ Used(d) \in Nat
<1>1. Allocated(d) \subseteq Instances
  BY DEF Allocated
<1>2. IsFiniteSet(Allocated(d))
  BY <1>1, PoolAssumption, FS_Subset
<1> QED BY <1>2, FS_CardinalityType DEF Used

\* The same in the next state.
LEMMA UsedTypePrime ==
    ASSUME NEW d
    PROVE  /\ IsFiniteSet(Allocated(d)')
           /\ Used(d)' \in Nat
<1>1. Allocated(d)' \subseteq Instances
  BY DEF Allocated
<1>2. IsFiniteSet(Allocated(d)')
  BY <1>1, PoolAssumption, FS_Subset
<1> QED BY <1>2, FS_CardinalityType DEF Used

\* A committed creation takes one slot of one database.
LEMMA SlotTaken ==
    ASSUME PTypeOK, NEW i \in Instances, NEW d \in Databases,
           allocation[i] = NoDatabase,
           allocation' = [allocation EXCEPT ![i] = d]
    PROVE  /\ Used(d)' = Used(d) + 1
           /\ \A e \in Databases \ {d} : Used(e)' = Used(e)
<1>1. Allocated(d)' = Allocated(d) \cup {i}
  BY DEF PTypeOK, Allocated
<1>2. i \notin Allocated(d)
  BY PoolAssumption DEF Allocated
<1>3. Used(d)' = Used(d) + 1
  BY <1>1, <1>2, UsedType, FS_AddElement DEF Used
<1>4. ASSUME NEW e \in Databases \ {d} PROVE Used(e)' = Used(e)
  <2>1. Allocated(e)' = Allocated(e)
    BY PoolAssumption DEF PTypeOK, Allocated
  <2> QED BY <2>1 DEF Used
<1> QED BY <1>3, <1>4

\* A removed instance frees at most one slot and takes none.
LEMMA SlotFreed ==
    ASSUME PTypeOK, NEW i \in Instances,
           allocation' = [allocation EXCEPT ![i] = NoDatabase],
           NEW d \in Databases
    PROVE  Used(d)' <= Used(d)
<1>1. Allocated(d)' \subseteq Allocated(d)
  BY PoolAssumption DEF PTypeOK, Allocated
<1> QED BY <1>1, UsedType, FS_Subset DEF Used

\* Without a change of allocations the counts stay.
LEMMA SlotsKept ==
    ASSUME UNCHANGED allocation, NEW d
    PROVE  Used(d)' = Used(d)
<1>1. Allocated(d)' = Allocated(d)
  BY DEF Allocated
<1> QED BY <1>1 DEF Used

-----------------------------------------------------------------------------
TxnType == [kind : Kinds, counted : BOOLEAN, wanted : SUBSET Databases,
            rows : SUBSET Databases, counts : [Databases -> Nat],
            size : 0 .. MaxSlots]

\* A transaction that ends keeps the types.
LEMMA ReleaseType ==
    ASSUME PTypeOK, NEW s \in Sessions, Release(s)
    PROVE  /\ locks' \in [Databases -> Sessions \cup {NoSession}]
           /\ txn' \in [Sessions -> TxnType]
<1>1. NoTxn \in TxnType
  BY PoolAssumption DEF NoTxn, Txn, NoCounts, TxnType, Kinds
<1> QED BY <1>1 DEF PTypeOK, Release, TxnType

\* A session that ends its transaction disturbs no row of another one.
LEMMA OthersKeepRows ==
    ASSUME PTypeOK, CountsAreSafe, NEW s \in Sessions, Release(s),
           NEW t \in Sessions, NEW d \in txn'[t].rows
    PROVE  /\ t # s
           /\ d \in Databases
           /\ txn'[t] = txn[t]
           /\ locks[d] = t
           /\ locks'[d] = t
           /\ instance_max[d] > 0
           /\ txn[t].counted => Used(d) <= txn[t].counts[d]
<1>1. t # s
  BY DEF PTypeOK, Release, NoTxn, Txn
<1>2. txn'[t] = txn[t]
  BY <1>1 DEF PTypeOK, Release
<1>3. d \in Databases
  BY <1>2 DEF PTypeOK
<1>4. locks[d] = t /\ instance_max[d] > 0
  BY <1>2 DEF CountsAreSafe
<1>5. txn[t].counted => Used(d) <= txn[t].counts[d]
  BY <1>2 DEF CountsAreSafe
<1> QED BY <1>1, <1>2, <1>3, <1>4, <1>5 DEF Release

\* One step of the pool preserves the inductive invariant.
LEMMA PoolStep == PoolInv /\ [PNext]_pvars => PoolInv'
<1> SUFFICES ASSUME PoolInv, [PNext]_pvars PROVE PoolInv'
  OBVIOUS
<1> USE DEF PoolInv
<1> HIDE DEF Used
<1>T. PTypeOK /\ WithinCapacity /\ CountsAreSafe
  OBVIOUS
<1>0. txn \in [Sessions -> TxnType]
  BY <1>T DEF PTypeOK, TxnType
<1>1. ASSUME NEW s \in Sessions, NEW kind \in Kinds, NEW wanted \in SUBSET Databases,
             NEW size \in 0 .. MaxSlots, Begin(s, kind, wanted, size)
      PROVE  PoolInv'
  <2>1. Txn(kind, FALSE, wanted, {}, NoCounts, size) \in TxnType
    BY DEF Txn, TxnType, NoCounts
  <2>2. PTypeOK'
    BY <1>0, <1>1, <2>1, <1>T DEF PTypeOK, Begin, TxnType
  <2>3. WithinCapacity'
    BY <1>1, <1>T, SlotsKept DEF WithinCapacity, Begin
  <2>4. SUFFICES ASSUME NEW t \in Sessions, NEW e \in txn'[t].rows
                 PROVE  /\ locks'[e] = t
                        /\ instance_max'[e] > 0
                        /\ txn'[t].counted => Used(e)' <= txn'[t].counts[e]
    BY <2>2, <2>3 DEF CountsAreSafe
  <2>5. t # s /\ txn'[t] = txn[t]
    BY <1>0, <1>1 DEF Begin, Txn
  <2>6. Used(e)' = Used(e)
    BY <1>1, SlotsKept DEF Begin
  <2> QED BY <1>1, <1>T, <2>5, <2>6 DEF CountsAreSafe, Begin
<1>2. ASSUME NEW s \in Sessions, NEW d \in Databases, LockRow(s, d)
      PROVE  PoolInv'
  <2>1. Fetched(txn[s], d) \in TxnType
    BY <1>0 DEF Fetched, Txn, TxnType, NoCounts
  <2>2. PTypeOK'
    BY <1>0, <1>2, <2>1, <1>T DEF PTypeOK, LockRow, TxnType
  <2>3. WithinCapacity'
    BY <1>2, <1>T, SlotsKept DEF WithinCapacity, LockRow
  <2>4. SUFFICES ASSUME NEW t \in Sessions, NEW e \in txn'[t].rows
                 PROVE  /\ locks'[e] = t
                        /\ instance_max'[e] > 0
                        /\ txn'[t].counted => Used(e)' <= txn'[t].counts[e]
    BY <2>2, <2>3 DEF CountsAreSafe
  <2>5. CASE t # s
    <3>1. txn'[t] = txn[t] /\ e \in txn[t].rows
      BY <1>0, <1>2, <2>5 DEF LockRow
    <3>2. locks[e] = t /\ instance_max[e] > 0
      BY <3>1, <1>T DEF CountsAreSafe
    <3>3. e # d
      BY <1>2, <3>2, PoolAssumption DEF LockRow
    <3> QED BY <1>2, <1>T, <3>1, <3>2, <3>3, SlotsKept
            DEF CountsAreSafe, LockRow, PTypeOK
  <2>6. CASE t = s
    <3>1. txn'[s] = Fetched(txn[s], d)
      BY <1>0, <1>2 DEF LockRow
    <3>2. ~txn'[s].counted
      BY <3>1 DEF Fetched, Txn
    <3>3. e \in txn[s].rows \/ (e = d /\ instance_max[d] > 0)
      BY <2>6, <3>1 DEF Fetched, Txn
    <3>4. CASE e \in txn[s].rows
      <4>1. locks[e] = s /\ instance_max[e] > 0
        BY <3>4, <1>T DEF CountsAreSafe
      <4>2. e # d
        BY <1>2, <4>1, PoolAssumption DEF LockRow
      <4> QED BY <1>2, <1>T, <2>6, <3>2, <4>1, <4>2 DEF LockRow, PTypeOK
    <3>5. CASE e = d /\ instance_max[d] > 0
      BY <1>2, <1>T, <2>6, <3>2, <3>5 DEF LockRow, PTypeOK
    <3> QED BY <3>3, <3>4, <3>5
  <2> QED BY <2>5, <2>6
<1>3. ASSUME NEW s \in Sessions, Count(s)
      PROVE  PoolInv'
  <2> DEFINE counts == [d \in Databases |-> Used(d)]
  <2>1. counts \in [Databases -> Nat]
    BY UsedType
  <2>2. Txn(txn[s].kind, TRUE, {}, txn[s].rows, counts, txn[s].size) \in TxnType
    BY <1>0, <2>1 DEF Txn, TxnType
  <2>3. PTypeOK'
    BY <1>0, <1>3, <2>2, <1>T DEF PTypeOK, Count, TxnType
  <2>4. WithinCapacity'
    BY <1>3, <1>T, SlotsKept DEF WithinCapacity, Count
  <2>5. SUFFICES ASSUME NEW t \in Sessions, NEW e \in txn'[t].rows
                 PROVE  /\ locks'[e] = t
                        /\ instance_max'[e] > 0
                        /\ txn'[t].counted => Used(e)' <= txn'[t].counts[e]
    BY <2>3, <2>4 DEF CountsAreSafe
  <2>6. Used(e)' = Used(e)
    BY <1>3, SlotsKept DEF Count
  <2>7. CASE t # s
    <3>1. txn'[t] = txn[t]
      BY <1>0, <1>3, <2>7 DEF Count
    <3> QED BY <1>3, <1>T, <2>6, <3>1 DEF CountsAreSafe, Count
  <2>8. CASE t = s
    <3>1. txn'[s] = Txn(txn[s].kind, TRUE, {}, txn[s].rows, counts, txn[s].size)
      BY <1>0, <1>3 DEF Count
    <3>2. e \in txn[s].rows /\ txn'[s].counts = counts
      BY <2>8, <3>1 DEF Txn
    <3>3. e \in Databases
      BY <1>0, <3>2 DEF TxnType
    <3>4. locks[e] = s /\ instance_max[e] > 0
      BY <1>T, <3>2 DEF CountsAreSafe
    <3>5. txn'[s].counts[e] = Used(e)
      BY <3>2, <3>3
    <3>6. Used(e)' <= txn'[s].counts[e]
      BY <2>6, <3>5, UsedType
    <3> QED BY <1>3, <2>8, <3>4, <3>6 DEF Count
  <2> QED BY <2>7, <2>8
<1>4. ASSUME NEW s \in Sessions, NEW d \in Databases, NEW i \in Instances,
             CommitCreate(s, d, i)
      PROVE  PoolInv'
  <2>1. /\ allocation[i] = NoDatabase
        /\ allocation' = [allocation EXCEPT ![i] = d]
        /\ instance_max' = instance_max
        /\ Release(s)
        /\ txn[s].counted
        /\ d \in txn[s].rows
        /\ txn[s].counts[d] < instance_max[d]
    BY <1>4 DEF CommitCreate, LeastUtilized, Available
  <2>2. PTypeOK'
    BY <1>T, <2>1, ReleaseType DEF PTypeOK, TxnType
  <2>3. /\ Used(d)' = Used(d) + 1
        /\ \A e \in Databases \ {d} : Used(e)' = Used(e)
    BY <1>T, <2>1, SlotTaken
  <2>4. locks[d] = s /\ Used(d) <= txn[s].counts[d]
    BY <1>T, <2>1 DEF CountsAreSafe
  <2>5. WithinCapacity'
    <3>1. Used(d)' <= instance_max'[d]
      <4>1. txn[s].counts[d] \in Nat /\ instance_max[d] \in Nat
        BY <1>0, <1>T, PoolAssumption DEF TxnType, PTypeOK
      <4> QED BY <4>1, <2>1, <2>3, <2>4, UsedType
    <3> QED BY <3>1, <2>1, <2>3, <1>T DEF WithinCapacity
  <2>6. SUFFICES ASSUME NEW t \in Sessions, NEW e \in txn'[t].rows
                 PROVE  /\ locks'[e] = t
                        /\ instance_max'[e] > 0
                        /\ txn'[t].counted => Used(e)' <= txn'[t].counts[e]
    BY <2>2, <2>5 DEF CountsAreSafe
  <2>7. /\ t # s /\ e \in Databases /\ txn'[t] = txn[t] /\ locks[e] = t
        /\ locks'[e] = t /\ instance_max[e] > 0
        /\ txn[t].counted => Used(e) <= txn[t].counts[e]
    BY <1>T, <2>1, OthersKeepRows
  <2>8. e # d
    BY <2>4, <2>7
  <2> QED BY <2>1, <2>3, <2>7, <2>8
<1>5. ASSUME NEW s \in Sessions, NEW d \in Databases, NEW n \in 0 .. MaxSlots,
             Release(s), UNCHANGED allocation,
             instance_max' = [instance_max EXCEPT ![d] = n],
             d \in txn[s].rows, Used(d) <= n
      PROVE  PoolInv'
  <2>1. PTypeOK'
    BY <1>T, <1>5, ReleaseType DEF PTypeOK, TxnType
  <2>2. WithinCapacity'
    BY <1>T, <1>5, SlotsKept DEF WithinCapacity, PTypeOK
  <2>3. SUFFICES ASSUME NEW t \in Sessions, NEW e \in txn'[t].rows
                 PROVE  /\ locks'[e] = t
                        /\ instance_max'[e] > 0
                        /\ txn'[t].counted => Used(e)' <= txn'[t].counts[e]
    BY <2>1, <2>2 DEF CountsAreSafe
  <2>4. /\ t # s /\ e \in Databases /\ txn'[t] = txn[t] /\ locks[e] = t
        /\ locks'[e] = t /\ instance_max[e] > 0
        /\ txn[t].counted => Used(e) <= txn[t].counts[e]
    BY <1>T, <1>5, OthersKeepRows
  <2>5. locks[d] = s
    BY <1>T, <1>5 DEF CountsAreSafe
  <2>6. e # d
    BY <2>4, <2>5
  <2>7. Used(e)' = Used(e)
    BY <1>5, SlotsKept
  <2> QED BY <1>5, <1>T, <2>4, <2>6, <2>7 DEF PTypeOK
<1>6. ASSUME NEW s \in Sessions, NEW d \in Databases, CommitUpdate(s, d)
      PROVE  PoolInv'
  <2>1. /\ Release(s) /\ UNCHANGED allocation /\ d \in txn[s].rows
        /\ instance_max' = [instance_max EXCEPT ![d] = txn[s].size]
        /\ txn[s].counted /\ txn[s].size >= txn[s].counts[d]
    BY <1>6 DEF CommitUpdate
  <2>2. Used(d) <= txn[s].counts[d]
    BY <1>T, <2>1 DEF CountsAreSafe
  <2>3. txn[s].size \in 0 .. MaxSlots /\ txn[s].counts[d] \in Nat
    BY <1>0 DEF TxnType
  <2>4. Used(d) <= txn[s].size
    BY <2>1, <2>2, <2>3, UsedType, PoolAssumption
  <2> QED BY <1>5, <2>1, <2>3, <2>4
<1>7. ASSUME NEW s \in Sessions, NEW d \in Databases, CommitDelete(s, d)
      PROVE  PoolInv'
  <2>1. /\ Release(s) /\ UNCHANGED allocation /\ d \in txn[s].rows
        /\ instance_max' = [instance_max EXCEPT ![d] = 0]
        /\ txn[s].counted /\ txn[s].counts[d] = 0
    BY <1>7 DEF CommitDelete
  <2>2. Used(d) <= 0
    BY <1>T, <2>1 DEF CountsAreSafe
  <2>3. 0 \in 0 .. MaxSlots
    BY PoolAssumption
  <2> QED BY <1>5, <2>1, <2>2, <2>3
<1>8. ASSUME NEW s \in Sessions, Rollback(s)
      PROVE  PoolInv'
  <2>1. Release(s) /\ UNCHANGED <<instance_max, allocation>>
    BY <1>8 DEF Rollback
  <2>2. PTypeOK'
    BY <1>T, <2>1, ReleaseType DEF PTypeOK, TxnType
  <2>3. WithinCapacity'
    BY <1>T, <2>1, SlotsKept DEF WithinCapacity
  <2>4. SUFFICES ASSUME NEW t \in Sessions, NEW e \in txn'[t].rows
                 PROVE  /\ locks'[e] = t
                        /\ instance_max'[e] > 0
                        /\ txn'[t].counted => Used(e)' <= txn'[t].counts[e]
    BY <2>2, <2>3 DEF CountsAreSafe
  <2>5. Used(e)' = Used(e)
    BY <2>1, SlotsKept
  <2> QED BY <1>T, <2>1, <2>5, OthersKeepRows
<1>9. ASSUME NEW d \in Databases, NEW n \in 1 .. MaxSlots, AddDatabase(d, n)
      PROVE  PoolInv'
  <2>1. /\ instance_max[d] = 0
        /\ instance_max' = [instance_max EXCEPT ![d] = n]
        /\ UNCHANGED <<allocation, locks, txn>>
    BY <1>9 DEF AddDatabase
  <2>2. PTypeOK'
    BY <1>T, <2>1, PoolAssumption DEF PTypeOK
  <2>3. \A e \in Databases : Used(e)' = Used(e)
    BY <2>1, SlotsKept
  <2>4. WithinCapacity'
    <3>1. \A e \in Databases : instance_max'[e] >= instance_max[e]
      BY <1>T, <2>1, PoolAssumption DEF PTypeOK
    <3>2. SUFFICES ASSUME NEW e \in Databases PROVE Used(e) <= instance_max'[e]
      BY <2>3 DEF WithinCapacity
    <3>3. instance_max[e] \in Nat /\ instance_max'[e] \in Nat
      BY <1>T, <2>2, PoolAssumption DEF PTypeOK
    <3>4. Used(e) <= instance_max[e]
      BY <1>T DEF WithinCapacity
    <3> QED BY <3>1, <3>3, <3>4, UsedType
  <2>5. SUFFICES ASSUME NEW t \in Sessions, NEW e \in txn[t].rows
                 PROVE  /\ locks[e] = t
                        /\ instance_max'[e] > 0
                        /\ txn[t].counted => Used(e)' <= txn[t].counts[e]
    BY <2>1, <2>2, <2>4 DEF CountsAreSafe
  <2>6. e \in Databases
    BY <1>0 DEF TxnType
  <2> QED BY <1>T, <2>1, <2>3, <2>6, PoolAssumption DEF CountsAreSafe, PTypeOK
<1>10. ASSUME NEW i \in Instances, FreeSlot(i)
       PROVE  PoolInv'
  <2>1. /\ allocation' = [allocation EXCEPT ![i] = NoDatabase]
        /\ UNCHANGED <<instance_max, locks, txn>>
    BY <1>10 DEF FreeSlot
  <2>2. PTypeOK'
    BY <1>T, <2>1 DEF PTypeOK
  <2>3. \A d \in Databases : Used(d)' <= Used(d)
    BY <1>T, <2>1, SlotFreed
  <2>4. \A d \in Databases : Used(d)' \in Nat /\ Used(d) \in Nat
    BY UsedType, UsedTypePrime
  <2>5. \A d \in Databases : instance_max[d] \in Nat
    BY <1>T, PoolAssumption DEF PTypeOK
  <2>6. WithinCapacity'
    BY <1>T, <2>1, <2>3, <2>4, <2>5 DEF WithinCapacity
  <2>7. SUFFICES ASSUME NEW t \in Sessions, NEW e \in txn[t].rows
                 PROVE  /\ locks[e] = t
                        /\ instance_max[e] > 0
                        /\ txn[t].counted => Used(e)' <= txn[t].counts[e]
    BY <2>1, <2>2, <2>6 DEF CountsAreSafe
  <2>8. e \in Databases /\ txn[t].counts[e] \in Nat
    BY <1>0 DEF TxnType
  <2>9. /\ locks[e] = t /\ instance_max[e] > 0
        /\ txn[t].counted => Used(e) <= txn[t].counts[e]
    BY <1>T DEF CountsAreSafe
  <2> QED BY <2>3, <2>4, <2>8, <2>9
<1>11. CASE UNCHANGED pvars
  <2>1. UNCHANGED <<instance_max, allocation, locks, txn>>
    BY <1>11 DEF pvars
  <2>2. PTypeOK'
    BY <1>T, <2>1 DEF PTypeOK
  <2>3. WithinCapacity'
    BY <1>T, <2>1, SlotsKept DEF WithinCapacity
  <2>4. CountsAreSafe'
    BY <1>T, <2>1, SlotsKept DEF CountsAreSafe
  <2> QED BY <2>2, <2>3, <2>4
<1>12. ASSUME NEW s \in Sessions, BeginCreate(s) PROVE PoolInv'
  <2>1. "create" \in Kinds /\ Live \in SUBSET Databases /\ 0 \in 0 .. MaxSlots
    BY PoolAssumption DEF Kinds, Live
  <2> QED BY <1>1, <1>12, <2>1 DEF BeginCreate
<1>13. ASSUME NEW s \in Sessions, NEW d \in Databases, NEW n \in 1 .. MaxSlots,
              BeginUpdate(s, d, n)
       PROVE  PoolInv'
  <2>1. "update" \in Kinds /\ {d} \in SUBSET Databases /\ n \in 0 .. MaxSlots
    BY PoolAssumption DEF Kinds
  <2> QED BY <1>1, <1>13, <2>1 DEF BeginUpdate
<1>14. ASSUME NEW s \in Sessions, NEW d \in Databases, BeginDelete(s, d)
       PROVE  PoolInv'
  <2>1. "delete" \in Kinds /\ {d} \in SUBSET Databases /\ 0 \in 0 .. MaxSlots
    BY PoolAssumption DEF Kinds
  <2> QED BY <1>1, <1>14, <2>1 DEF BeginDelete
<1>15. CASE PNext
  <2> HIDE DEF PoolInv
  <2> QED BY <1>15, <1>2, <1>3, <1>4, <1>6, <1>7, <1>8, <1>9, <1>10, <1>12,
             <1>13, <1>14 DEF PNext
<1> QED BY <1>11, <1>15

\* The pool starts empty.
LEMMA PoolInit == PInit => PoolInv
<1> SUFFICES ASSUME PInit PROVE PoolInv
  OBVIOUS
<1>1. NoTxn \in TxnType
  BY PoolAssumption DEF NoTxn, Txn, NoCounts, TxnType, Kinds
<1>2. PTypeOK
  BY <1>1, PoolAssumption DEF PInit, PTypeOK, TxnType
<1>3. \A d \in Databases : Allocated(d) = {}
  BY PoolAssumption DEF PInit, Allocated
<1>4. WithinCapacity
  BY <1>3, FS_EmptySet DEF PInit, WithinCapacity, Used
<1>5. \A s \in Sessions : txn[s].rows = {}
  BY DEF PInit, NoTxn, Txn
<1>6. CountsAreSafe
  BY <1>5 DEF CountsAreSafe
<1> QED BY <1>2, <1>4, <1>6 DEF PoolInv

\* The pool's inductive invariant: types, capacity, and counts that stay upper
\* bounds while the row is locked.
THEOREM PoolCorrect == PSpec => []PoolInv
<1> QED BY PoolInit, PoolStep, PTL DEF PSpec

\* No interleaving of creations, capacity changes, deletions and removals
\* overbooks a database or deletes one in use (InstanceRepository.create's
\* "Lock every candidate so concurrent requests cannot overbook a database").
THEOREM CapacityCorrect == PSpec => []WithinCapacity
<1>1. PoolInv => WithinCapacity
  BY DEF PoolInv
<1> QED BY <1>1, PoolCorrect, PTL

\* What a transaction has counted on a row it holds is never below the use of
\* that database, although slots are freed and taken all the time.
THEOREM CountsCorrect == PSpec => []CountsAreSafe
<1>1. PoolInv => CountsAreSafe
  BY DEF PoolInv
<1> QED BY <1>1, PoolCorrect, PTL

\* Capacities, allocations, locks and transactions keep their types.
THEOREM PoolTypeCorrect == PSpec => []PTypeOK
<1>1. PoolInv => PTypeOK
  BY DEF PoolInv
<1> QED BY <1>1, PoolCorrect, PTL

-----------------------------------------------------------------------------
(***************************************************************************)
(* The order of row locks.  An orderly session has locked only rows before *)
(* the one it waits for; so in a group of orderly sessions that wait for   *)
(* each other every awaited row would be followed by a later one, which a  *)
(* finite number of sessions does not allow.                               *)
(***************************************************************************)

\* The statements of q go along LockOrder, and none of them locks several rows
\* in no fixed order.
Ordered(q) ==
    /\ \A i, j \in DOMAIN q : i < j => Rank(q[i].table) < Rank(q[j].table)
    /\ \A i \in DOMAIN q : q[i].rows # "any"

\* Row x comes before row y: in LockOrder, or in the order of one statement.
Before(x, y) == \/ Rank(x[1]) < Rank(y[1])
                \/ x[1] = y[1] /\ x[2] < y[2]

\* Row x comes before what the statements of q lock, but for the further rows
\* of the statement under way.
Precedes(x, q) ==
    \A i \in DOMAIN q : \/ Rank(x[1]) < Rank(q[i].table)
                        \/ i = 1 /\ q[1].rows = "sorted" /\ x[1] = q[1].table

\* What an orderly session has locked comes before what it waits for, and both
\* come before what it has still to lock.
InOrder(s) ==
    tx[s] \notin Disorderly =>
        /\ Ordered(todo[s])
        /\ \A x \in held[s] : Precedes(x, todo[s])
        /\ want[s] # NoRow => /\ Precedes(want[s], todo[s])
                              /\ \A x \in held[s] : Before(x, want[s])

LockInv ==
    /\ LocksTypeOK
    /\ \A s \in Connections : Idle(s) =>
          todo[s] = <<>> /\ want[s] = NoRow /\ held[s] = {}
    /\ \A s \in Connections : InOrder(s)

\* Every table has one of the seven ranks.
LEMMA RankType == \A t \in Tables : Rank(t) \in 1..7
<1>1. SUFFICES ASSUME NEW t \in Tables PROVE Rank(t) \in 1..7
  OBVIOUS
<1>2. \E i \in 1..7 : t \in LockOrder[i]
  BY DEF Tables
<1>3. QED
  BY <1>2 DEF Rank

\* The tables and their places in LockOrder.
LEMMA RanksOfTables ==
    /\ Tables = {"live_job", "database", "workspace", "instance", "template",
                 "assignment", "member", "settled_job", "deployment", "image",
                 "parameter"}
    /\ Rank("live_job") = 1 /\ Rank("database") = 1 /\ Rank("workspace") = 2
    /\ Rank("instance") = 3 /\ Rank("template") = 4 /\ Rank("assignment") = 5
    /\ Rank("member") = 5 /\ Rank("settled_job") = 5 /\ Rank("deployment") = 6
    /\ Rank("image") = 6 /\ Rank("parameter") = 7
<1>1. /\ LockOrder[1] = {"live_job", "database"} /\ LockOrder[2] = {"workspace"}
      /\ LockOrder[3] = {"instance"} /\ LockOrder[4] = {"template"}
      /\ LockOrder[5] = {"assignment", "member", "settled_job"}
      /\ LockOrder[6] = {"deployment", "image"} /\ LockOrder[7] = {"parameter"}
  BY DEF LockOrder
<1>2. \A i \in 1..7 : \/ i = 1 \/ i = 2 \/ i = 3 \/ i = 4 \/ i = 5 \/ i = 6 \/ i = 7
  OBVIOUS
<1> HIDE DEF LockOrder
<1>3. Tables = LockOrder[1] \cup LockOrder[2] \cup LockOrder[3] \cup LockOrder[4]
               \cup LockOrder[5] \cup LockOrder[6] \cup LockOrder[7]
  BY <1>2 DEF Tables
<1>4. Tables = {"live_job", "database", "workspace", "instance", "template",
                "assignment", "member", "settled_job", "deployment", "image",
                "parameter"}
  BY <1>1, <1>3
<1>5. QED
  BY <1>1, <1>2, <1>4 DEF Rank

\* What one statement locks.
LEMMA StatementFields ==
    ASSUME NEW t \in Tables
    PROVE  /\ One(t) \in Statements /\ One(t).table = t /\ One(t).rows = "one"
           /\ Sorted(t) \in Statements /\ Sorted(t).table = t
           /\ Sorted(t).rows = "sorted"
           /\ Several(t) \in Statements
BY DEF One, Sorted, Several, Statements, Extents

\* Every transaction is a sequence of statements.
LEMMA TransactionsAreStatements == AllTransactions \subseteq Seq(Statements)
<1> USE StatementFields, RanksOfTables
<1>1. ExecutionTransactions \subseteq Seq(Statements)
  <2>1. \A t \in Tables : One(t) \in Statements
    OBVIOUS
  <2>2. \A t \in Tables : <<One("live_job"), One(t)>> \in Seq(Statements)
    BY <2>1
  <2>3. <<One("settled_job")>> \in Seq(Statements)
    BY <2>1
  <2>4. {"instance", "template", "assignment", "workspace"} \subseteq Tables
    OBVIOUS
  <2>5. ASSUME NEW x \in ExecutionTransactions
        PROVE  x = <<One("settled_job")>> \/
               \E t \in {"instance", "template", "assignment", "workspace"} :
                   x = <<One("live_job"), One(t)>>
    BY <2>5, ZenonT(40) DEF ExecutionTransactions
  <2>6. ASSUME NEW x \in ExecutionTransactions PROVE x \in Seq(Statements)
    BY <2>2, <2>3, <2>4, <2>5, <2>6, ZenonT(40)
  <2> QED BY <2>6
<1>2. DatabaseTransactions \cup ImageTransactions \subseteq Seq(Statements)
  BY DEF DatabaseTransactions, ImageTransactions
<1>3. WorkspaceTransactions \subseteq Seq(Statements)
  BY DEF WorkspaceTransactions
<1>4. /\ PublicationTransaction \in Seq(Statements)
      /\ ClaimMembersTransaction \in Seq(Statements)
      /\ EndUpdateTransaction \in Seq(Statements)
      /\ InstanceTransaction \in Seq(Statements)
      /\ InstanceSyncTransaction \in Seq(Statements)
      /\ MemberTransaction \in Seq(Statements)
  BY DEF PublicationTransaction, ClaimMembersTransaction, EndUpdateTransaction,
         InstanceTransaction, InstanceSyncTransaction, MemberTransaction
<1>5. /\ AssignmentTransaction \in Seq(Statements)
      /\ TemplateTransaction \in Seq(Statements)
      /\ ParameterTransaction \in Seq(Statements)
      /\ RemoveInstanceTransaction \in Seq(Statements)
      /\ RemoveAssignmentTransaction \in Seq(Statements)
  BY DEF AssignmentTransaction, TemplateTransaction, ParameterTransaction,
         RemoveInstanceTransaction, RemoveAssignmentTransaction
<1>6. QED
  BY <1>1, <1>2, <1>3, <1>4, <1>5, SMTT(30) DEF AllTransactions

\* Every request and every transition of the job engine but the four of
\* Disorderly locks its rows along LockOrder: jobs or databases, workspaces,
\* instances, templates, then what they own.
THEOREM OthersLockInOrder ==
    \A x \in AllTransactions \ Disorderly : Ordered(x)
<1> USE StatementFields, RanksOfTables
<1>1. \A x \in ExecutionTransactions : Ordered(x)
  BY DEF ExecutionTransactions, Ordered
<1>2. \A x \in DatabaseTransactions \cup ImageTransactions : Ordered(x)
  BY DEF DatabaseTransactions, ImageTransactions, Ordered
<1>3. \A x \in WorkspaceTransactions : Ordered(x)
  BY DEF WorkspaceTransactions, Ordered
<1>4. Ordered(PublicationTransaction)
  BY DEF PublicationTransaction, Ordered
<1>5. /\ Ordered(ClaimMembersTransaction) /\ Ordered(InstanceTransaction)
      /\ Ordered(MemberTransaction) /\ Ordered(AssignmentTransaction)
      /\ Ordered(TemplateTransaction) /\ Ordered(ParameterTransaction)
  BY DEF ClaimMembersTransaction, InstanceTransaction, MemberTransaction,
         AssignmentTransaction, TemplateTransaction, ParameterTransaction, Ordered
<1>6. QED
  BY <1>1, <1>2, <1>3, <1>4, <1>5 DEF AllTransactions, Disorderly

\* Rows are ordered.
LEMMA BeforeIsAnOrder ==
    ASSUME NEW x \in Rows, NEW y \in Rows, NEW z \in Rows
    PROVE  ~Before(x, x) /\ (Before(x, y) /\ Before(y, z) => Before(x, z))
<1>1. ASSUME NEW r \in Rows PROVE Rank(r[1]) \in Int /\ r[2] \in Int
  <2>1. r[1] \in Tables /\ r[2] \in Int
    BY LockAssumption
  <2>2. Rank(r[1]) \in 1..7
    BY <2>1, RankType
  <2> QED BY <2>1, <2>2
<1>2. QED
  BY <1>1 DEF Before

\* Orderly sessions do not wait for each other in a circle.
LEMMA OrderPreventsDeadlock ==
    ASSUME IsFiniteSet(Connections), LockInv
    PROVE  DeadlocksNeedDisorder
<1> SUFFICES ASSUME NEW D \in SUBSET Connections, Deadlock(D),
                    \A s \in D : tx[s] \notin Disorderly
             PROVE  FALSE
  BY DEF DeadlocksNeedDisorder
<1> DEFINE After(s) == {u \in D : Before(want[s], want[u])}
           T == {After(s) : s \in D}
<1>1. D # {} /\ \A s \in D : want[s] # NoRow /\ want[s] \in Rows
  BY DEF Deadlock, WaitsFor, LockInv, LocksTypeOK
<1>2. \A s \in D : \E t \in D : Before(want[s], want[t])
  <2> TAKE s \in D
  <2>1. PICK t \in D : want[s] \in held[t]
    BY DEF Deadlock, WaitsFor
  <2>2. Before(want[s], want[t])
    BY <1>1, <2>1 DEF LockInv, InOrder
  <2> QED
    BY <2>2
<1>3. \A s \in D : \E t \in D : After(t) \subseteq After(s) /\ After(t) # After(s)
  <2> TAKE s \in D
  <2>1. PICK t \in D : Before(want[s], want[t])
    BY <1>2
  <2>2. t \in After(s) /\ t \notin After(t)
    BY <1>1, <2>1, BeforeIsAnOrder
  <2>3. ASSUME NEW u \in After(t) PROVE u \in After(s)
    BY <1>1, <2>1, <2>3, BeforeIsAnOrder
  <2> QED
    BY <2>2, <2>3
<1>4. T # {} /\ T \subseteq SUBSET D
  BY <1>1
<1>5. IsWellFoundedOn(StrictSubsetOrdering(D), SUBSET D)
  <2>1. IsFiniteSet(D)
    BY FS_Subset
  <2>2. FiniteSubsetsOf(D) = SUBSET D
    BY <2>1, FS_FiniteSubsetsOfFinite
  <2>3. IsWellFoundedOn(StrictSubsetOrdering(D), FiniteSubsetsOf(D))
    BY FS_StrictSubsetOrderingWellFounded
  <2> QED
    BY <2>2, <2>3
<1>6. PICK m \in T : \A y \in T : ~(<<y, m>> \in StrictSubsetOrdering(D))
  <2> HIDE DEF T
  <2> QED
    BY <1>4, <1>5, WFMin
<1>7. PICK s \in D : m = After(s)
  OBVIOUS
<1>8. PICK t \in D : After(t) \subseteq After(s) /\ After(t) # After(s)
  BY <1>3
<1>9. <<After(t), After(s)>> \in StrictSubsetOrdering(D)
  BY <1>8 DEF StrictSubsetOrdering
<1>10. QED
  BY <1>6, <1>7, <1>9

\* The statements that remain after the first one.
LEMMA RestOfStatements ==
    ASSUME NEW q \in Seq(Statements), q # <<>>
    PROVE  /\ 1 \in DOMAIN q /\ Head(q) = q[1] /\ q[1] \in Statements
           /\ Tail(q) \in Seq(Statements)
           /\ \A i \in DOMAIN Tail(q) :
                 /\ i \in Nat /\ i > 0 /\ i + 1 \in DOMAIN q /\ i + 1 # 1
                 /\ Tail(q)[i] = q[i + 1]
           /\ Ordered(q) => Ordered(Tail(q))
           /\ Ordered(q) => \A i \in DOMAIN Tail(q) :
                               Rank(q[1].table) < Rank(Tail(q)[i].table)
           /\ \A x : Precedes(x, q) => Precedes(x, Tail(q))
<1>1. /\ 1 \in DOMAIN q /\ Head(q) = q[1] /\ q[1] \in Statements
      /\ Tail(q) \in Seq(Statements)
      /\ \A i \in DOMAIN Tail(q) :
            /\ i \in Nat /\ i > 0 /\ i + 1 \in DOMAIN q /\ i + 1 # 1
            /\ Tail(q)[i] = q[i + 1]
  OBVIOUS
<1>2. ASSUME Ordered(q) PROVE Ordered(Tail(q))
  <2>1. ASSUME NEW i \in DOMAIN Tail(q), NEW j \in DOMAIN Tail(q), i < j
        PROVE  Rank(Tail(q)[i].table) < Rank(Tail(q)[j].table)
    <3>1. i + 1 < j + 1
      BY <1>1, <2>1
    <3> QED BY <1>1, <1>2, <3>1 DEF Ordered
  <2> QED BY <1>1, <1>2, <2>1 DEF Ordered
<1>3. ASSUME Ordered(q), NEW i \in DOMAIN Tail(q)
      PROVE  Rank(q[1].table) < Rank(Tail(q)[i].table)
  <2>1. 1 < i + 1
    BY <1>1
  <2> QED BY <1>1, <1>3, <2>1 DEF Ordered
<1>4. ASSUME NEW x, Precedes(x, q) PROVE Precedes(x, Tail(q))
  BY <1>1, <1>4 DEF Precedes
<1>5. QED
  BY <1>1, <1>2, <1>3, <1>4

\* A session that gives everything back has no locks to be out of order.
LEMMA GiveBackStep ==
    ASSUME LockInv, NEW s \in Connections, GiveBack(s)
    PROVE  LockInv'
<1>1. LocksTypeOK'
  BY DEF LockInv, GiveBack, LocksTypeOK
<1>2. ASSUME NEW u \in Connections
      PROVE  Idle(u)' => todo'[u] = <<>> /\ want'[u] = NoRow /\ held'[u] = {}
  BY DEF LockInv, GiveBack, LocksTypeOK, Idle
<1>3. ASSUME NEW u \in Connections PROVE InOrder(u)'
  <2>1. CASE u = s
    <3>1. todo'[s] = <<>> /\ want'[s] = NoRow /\ held'[s] = {}
      BY DEF LockInv, GiveBack, LocksTypeOK
    <3> QED BY <2>1, <3>1 DEF InOrder, Ordered
  <2>2. CASE u # s
    <3>1. /\ tx'[u] = tx[u] /\ todo'[u] = todo[u] /\ want'[u] = want[u]
          /\ held'[u] = held[u]
      BY <2>2 DEF LockInv, GiveBack, LocksTypeOK
    <3> QED BY <3>1 DEF LockInv, InOrder, Ordered, Precedes, Before
  <2> QED BY <2>1, <2>2
<1>4. QED
  BY <1>1, <1>2, <1>3 DEF LockInv

\* Only session s changes its place.
Others(s) == \A u \in Connections \ {s} :
    /\ tx'[u] = tx[u] /\ todo'[u] = todo[u] /\ want'[u] = want[u]
    /\ held'[u] = held[u]

\* When the others stay as they are, their order does.
LEMMA OthersStayInOrder ==
    ASSUME LockInv, NEW s \in Connections, Others(s), LocksTypeOK', InOrder(s)',
           Idle(s)' => todo'[s] = <<>> /\ want'[s] = NoRow /\ held'[s] = {}
    PROVE  LockInv'
<1>1. ASSUME NEW u \in Connections, u # s
      PROVE  /\ InOrder(u)'
             /\ Idle(u)' => todo'[u] = <<>> /\ want'[u] = NoRow /\ held'[u] = {}
  <2>1. /\ tx'[u] = tx[u] /\ todo'[u] = todo[u] /\ want'[u] = want[u]
        /\ held'[u] = held[u]
    BY <1>1 DEF Others
  <2>2. InOrder(u)'
    BY <2>1 DEF LockInv, InOrder, Ordered, Precedes, Before
  <2> QED BY <2>1, <2>2 DEF LockInv, Idle
<1>2. QED
  BY <1>1 DEF LockInv

\* The locks of the orderly transactions stay in order along every behaviour.
LEMMA LockInvIsInductive == LSpec => []LockInv
<1>1. LInit => LockInv
  BY DEF LInit, LockInv, LocksTypeOK, InOrder, Ordered
<1>2. LockInv /\ [LNext]_lvars => LockInv'
  <2> SUFFICES ASSUME LockInv, [LNext]_lvars PROVE LockInv'
    OBVIOUS
  <2>0. LocksTypeOK
    BY DEF LockInv
  <2>1. ASSUME NEW s \in Connections, NEW x \in Transactions, Start(s, x)
        PROVE  LockInv'
    <3>1. x \in Seq(Statements) /\ (x \notin Disorderly => Ordered(x))
      BY LockAssumption, TransactionsAreStatements, OthersLockInOrder
    <3>2. /\ tx' = [tx EXCEPT ![s] = x] /\ todo' = [todo EXCEPT ![s] = x]
          /\ want' = want /\ held' = held /\ want[s] = NoRow /\ held[s] = {}
      BY <2>1 DEF Start, LockInv
    <3>3. LocksTypeOK'
      BY <2>0, <3>1, <3>2 DEF LocksTypeOK
    <3>4. /\ tx'[s] = x /\ todo'[s] = x /\ want'[s] = NoRow /\ held'[s] = {}
          /\ Others(s)
      BY <2>0, <3>2 DEF LocksTypeOK, Others
    <3>5. InOrder(s)'
      BY <3>1, <3>4 DEF InOrder, Ordered
    <3> QED
      BY <3>3, <3>4, <3>5, OthersStayInOrder DEF Idle
  <2>2. ASSUME NEW s \in Connections, NEW x \in Rows, Ask(s, x)
        PROVE  LockInv'
    <3> DEFINE q == todo[s]
               r == IF q[1].rows = "one" THEN Tail(q) ELSE q
    <3>1. /\ q \in Seq(Statements) /\ q # <<>> /\ x[1] = q[1].table
          /\ Head(q) = q[1] /\ x # NoRow /\ x \in Rows /\ 1 \in DOMAIN q
      BY <2>0, <2>2, LockAssumption DEF Ask, LocksTypeOK
    <3>2. /\ tx' = tx /\ todo' = [todo EXCEPT ![s] = r]
          /\ want' = [want EXCEPT ![s] = x] /\ held' = held
          /\ q[1].rows = "sorted" => \A y \in held[s] : y[1] = x[1] => y[2] < x[2]
      BY <2>2, <3>1 DEF Ask
    <3>3. r \in Seq(Statements)
      BY <3>1, RestOfStatements
    <3>4. LocksTypeOK'
      <4> HIDE DEF r, q
      <4> QED BY <2>0, <3>1, <3>2, <3>3 DEF LocksTypeOK
    <3>5. /\ tx'[s] = tx[s] /\ todo'[s] = r /\ want'[s] = x /\ held'[s] = held[s]
          /\ Others(s)
      <4> HIDE DEF r, q
      <4> QED BY <2>0, <3>2 DEF LocksTypeOK, Others
    <3>6. ASSUME tx[s] \notin Disorderly
          PROVE  /\ Ordered(r) /\ Precedes(x, r)
                 /\ \A y \in held[s] : Precedes(y, r) /\ Before(y, x)
      <4>1. Ordered(q) /\ \A y \in held[s] : Precedes(y, q)
        BY <3>6 DEF LockInv, InOrder
      <4>2. Ordered(r) /\ \A y \in held[s] : Precedes(y, r)
        <5> HIDE DEF q
        <5> QED BY <3>1, <4>1, RestOfStatements
      <4>3. q[1].rows \in {"one", "sorted"}
        <5>1. q[1] \in Statements
          BY <3>1
        <5>2. q[1].rows # "any"
          BY <3>1, <4>1 DEF Ordered
        <5> QED BY <5>1, <5>2 DEF Statements, Extents
      <4>4. CASE q[1].rows = "one"
        <5>1. Precedes(x, Tail(q))
          <6> HIDE DEF q
          <6> QED BY <3>1, <4>1, RestOfStatements DEF Precedes
        <5>2. \A y \in held[s] : Before(y, x)
          BY <3>1, <4>1, <4>4 DEF Precedes, Before
        <5> QED BY <4>2, <4>4, <5>1, <5>2
      <4>5. CASE q[1].rows = "sorted"
        <5>1. Precedes(x, q)
          <6> SUFFICES ASSUME NEW i \in DOMAIN q, i # 1
                       PROVE  Rank(x[1]) < Rank(q[i].table)
            BY <3>1, <4>5 DEF Precedes
          <6>1. 1 < i
            BY <3>1
          <6> QED BY <3>1, <4>1, <6>1 DEF Ordered
        <5>2. \A y \in held[s] : Before(y, x)
          BY <3>1, <3>2, <4>1, <4>5 DEF Precedes, Before
        <5> QED BY <4>2, <4>5, <5>1, <5>2
      <4> QED BY <4>3, <4>4, <4>5
    <3>7. InOrder(s)'
      <4> HIDE DEF r, q
      <4>1. ASSUME tx[s] \notin Disorderly
            PROVE  /\ Ordered(todo[s])' /\ Precedes(want[s], todo[s])'
                   /\ \A y \in held'[s] : Precedes(y, todo'[s]) /\ Before(y, want'[s])
        BY <3>5, <3>6, <4>1 DEF Ordered, Precedes, Before
      <4> QED BY <3>5, <4>1 DEF InOrder, Precedes, Before
    <3>8. ~Idle(s)'
      BY <3>1, <3>5 DEF LockInv, Idle
    <3> QED
      BY <3>4, <3>5, <3>7, <3>8, OthersStayInOrder
  <2>3. ASSUME NEW s \in Connections, NoMoreRows(s)
        PROVE  LockInv'
    <3> DEFINE q == todo[s]
    <3>1. /\ q \in Seq(Statements) /\ q # <<>> /\ want[s] = NoRow
          /\ tx' = tx /\ todo' = [todo EXCEPT ![s] = Tail(q)]
          /\ want' = want /\ held' = held
      BY <2>0, <2>3 DEF NoMoreRows, LocksTypeOK
    <3> HIDE DEF q
    <3>2. /\ Tail(q) \in Seq(Statements)
          /\ Ordered(q) => Ordered(Tail(q))
          /\ \A x : Precedes(x, q) => Precedes(x, Tail(q))
      BY <3>1, RestOfStatements
    <3>3. LocksTypeOK'
      BY <2>0, <3>1, <3>2 DEF LocksTypeOK
    <3>4. /\ tx'[s] = tx[s] /\ todo'[s] = Tail(q) /\ want'[s] = NoRow
          /\ held'[s] = held[s] /\ Others(s)
      BY <2>0, <3>1 DEF LocksTypeOK, Others
    <3>5. InOrder(s)'
      <4>1. tx[s] \notin Disorderly =>
               Ordered(q) /\ \A x \in held[s] : Precedes(x, q)
        BY DEF LockInv, InOrder, q
      <4> QED BY <3>2, <3>4, <4>1 DEF InOrder, Ordered, Precedes
    <3>6. ~Idle(s)'
      BY <3>1, <3>4 DEF LockInv, Idle, q
    <3> QED
      BY <3>3, <3>4, <3>5, <3>6, OthersStayInOrder
  <2>4. ASSUME NEW s \in Connections, Take(s)
        PROVE  LockInv'
    <3>1. LocksTypeOK'
      BY <2>0, <2>4 DEF Take, Free, LocksTypeOK
    <3>2. /\ tx'[s] = tx[s] /\ todo'[s] = todo[s] /\ want'[s] = NoRow
          /\ held'[s] = held[s] \cup {want[s]} /\ Others(s) /\ want[s] # NoRow
      BY <2>0, <2>4 DEF Take, LocksTypeOK, Others
    <3>3. InOrder(s)'
      <4>1. tx[s] \notin Disorderly =>
               /\ Ordered(todo[s])
               /\ \A x \in held[s] \cup {want[s]} : Precedes(x, todo[s])
        BY <3>2 DEF LockInv, InOrder
      <4> QED BY <3>2, <4>1 DEF InOrder, Ordered, Precedes
    <3>4. ~Idle(s)'
      BY <3>2 DEF LockInv, Idle
    <3> QED
      BY <3>1, <3>2, <3>3, <3>4, OthersStayInOrder
  <2>5. ASSUME NEW s \in Connections, End(s) \/ Detect(s)
        PROVE  LockInv'
    BY <2>5, GiveBackStep DEF End, Detect
  <2>6. CASE UNCHANGED lvars
    BY <2>6 DEF lvars, LockInv, LocksTypeOK, InOrder, Ordered, Precedes, Before, Idle
  <2>7. QED
    BY <2>1, <2>2, <2>3, <2>4, <2>5, <2>6 DEF LNext
<1>3. QED
  BY <1>1, <1>2, PTL DEF LSpec

\* For every finite number of sessions, any rows and all the transactions of
\* the requests and steps: those that wait for each other include a removal or
\* one that locks an instance's members in no fixed order.
THEOREM DeadlocksNeedDisorderCorrect ==
    ASSUME IsFiniteSet(Connections)
    PROVE  LSpec => []DeadlocksNeedDisorder
<1>1. LockInv => DeadlocksNeedDisorder
  BY OrderPreventsDeadlock
<1>2. QED
  BY <1>1, LockInvIsInductive, PTL
=============================================================================
