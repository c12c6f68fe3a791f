---------------------------- MODULE DatabasePool ----------------------------
(***************************************************************************)
(* The pool of PostgreSQL databases and the schema slots that instances    *)
(* reserve on them.  Transactions run under READ COMMITTED and are split   *)
(* where another one may come in between: the SELECT ... FOR UPDATE locks  *)
(* one row at a time, the allocation count is a statement of its own, and  *)
(* the writes become visible at the commit.                                *)
(*                                                                         *)
(* Rows are locked in any order: the code orders by name, but an update    *)
(* may rename a database in between, and PostgreSQL aborts a lock cycle.   *)
(***************************************************************************)
EXTENDS Integers, FiniteSets

CONSTANTS Databases,   \* identifiers of database rows
          Instances,   \* identifiers of instance rows
          Sessions,    \* database sessions serving requests
          MaxSlots,    \* bound on instance_max
          NoDatabase,  \* an instance without an allocation row
          NoSession    \* nobody holds the row lock

ASSUME PoolAssumption ==
    /\ MaxSlots \in Nat
    /\ IsFiniteSet(Instances)
    /\ NoDatabase \notin Databases
    /\ NoSession \notin Sessions

VARIABLES instance_max,  \* instance_max[d]; 0 while no row has identifier d
          allocation,    \* allocation[i]: the database instance i has a slot on
          locks,         \* locks[d]: the session that holds the row lock of d
          txn            \* txn[s]: the transaction session s runs

pvars == <<instance_max, allocation, locks, txn>>

Kinds == {"none", "create", "update", "delete"}

\* wanted are the rows the SELECT still has to lock, rows the ones it has
\* returned, counts the allocations counted, and size the instance_max an
\* update asks for.
Txn(kind, counted, wanted, rows, counts, size) ==
    [kind |-> kind, counted |-> counted, wanted |-> wanted, rows |-> rows,
     counts |-> counts, size |-> size]

NoCounts == [d \in Databases |-> 0]
NoTxn == Txn("none", FALSE, {}, {}, NoCounts, 0)

\* Every variable has the type its columns declare, and no capacity exceeds
\* the one a request asked for.
PTypeOK ==
    /\ instance_max \in [Databases -> 0 .. MaxSlots]
    /\ allocation \in [Instances -> Databases \cup {NoDatabase}]
    /\ locks \in [Databases -> Sessions \cup {NoSession}]
    /\ txn \in [Sessions -> [kind : Kinds, counted : BOOLEAN,
                             wanted : SUBSET Databases,
                             rows : SUBSET Databases,
                             counts : [Databases -> Nat],
                             size : 0 .. MaxSlots]]

PInit ==
    /\ instance_max = [d \in Databases |-> 0]
    /\ allocation = [i \in Instances |-> NoDatabase]
    /\ locks = [d \in Databases |-> NoSession]
    /\ txn = [s \in Sessions |-> NoTxn]

-----------------------------------------------------------------------------
Live == {d \in Databases : instance_max[d] > 0}
Allocated(d) == {i \in Instances : allocation[i] = d}
Used(d) == Cardinality(Allocated(d))

\* The databases a creation may choose from, by what it counted.
Available(s) == {d \in txn[s].rows : txn[s].counts[d] < instance_max[d]}

\* d has the lowest utilization ratio; equal ratios are decided by the name.
LeastUtilized(s, d) ==
    /\ d \in Available(s)
    /\ \A e \in Available(s) : txn[s].counts[d] * instance_max[e]
                                  <= txn[s].counts[e] * instance_max[d]

\* The end of a transaction: every row lock of the session is released.
Release(s) ==
    /\ locks' = [d \in Databases |->
                   IF locks[d] = s THEN NoSession ELSE locks[d]]
    /\ txn' = [txn EXCEPT ![s] = NoTxn]

-----------------------------------------------------------------------------
\* The first statement of a transaction fixes the rows it will lock.
Begin(s, kind, wanted, size) ==
    /\ txn[s].kind = "none"
    /\ txn' = [txn EXCEPT ![s] = Txn(kind, FALSE, wanted, {}, NoCounts, size)]
    /\ UNCHANGED <<instance_max, allocation, locks>>

BeginCreate(s) == Live # {} /\ Begin(s, "create", Live, 0)
BeginUpdate(s, d, n) == d \in Live /\ Begin(s, "update", {d}, n)
BeginDelete(s, d) == d \in Live /\ Begin(s, "delete", {d}, 0)

\* A row the SELECT has dealt with; deleted while it was waited for, it drops
\* out of the result.
Fetched(t, d) ==
    Txn(t.kind, FALSE, t.wanted \ {d},
        IF instance_max[d] > 0 THEN t.rows \cup {d} ELSE t.rows,
        NoCounts, t.size)

\* Mutant of LockRow: the SELECT has no FOR UPDATE and waits for nobody.
ReadRow(s, d) ==
    /\ txn[s].kind # "none"
    /\ d \in txn[s].wanted
    /\ txn' = [txn EXCEPT ![s] = Fetched(txn[s], d)]
    /\ UNCHANGED <<instance_max, allocation, locks>>

\* SELECT ... FOR UPDATE gets the lock of one more row.
LockRow(s, d) ==
    /\ txn[s].kind # "none"
    /\ d \in txn[s].wanted
    /\ locks[d] = NoSession
    /\ txn' = [txn EXCEPT ![s] = Fetched(txn[s], d)]
    /\ locks' = [locks EXCEPT ![d] = IF instance_max[d] > 0 THEN s ELSE NoSession]
    /\ UNCHANGED <<instance_max, allocation>>

\* The allocation count, a statement with a snapshot of its own.
Count(s) ==
    /\ txn[s].kind # "none"
    /\ txn[s].wanted = {}
    /\ ~txn[s].counted
    /\ txn' = [txn EXCEPT ![s] = Txn(txn[s].kind, TRUE, {}, txn[s].rows,
                                     [d \in Databases |-> Used(d)],
                                     txn[s].size)]
    /\ UNCHANGED <<instance_max, allocation, locks>>

\* InstanceRepository.create commits the instance with its reserved slot.
CommitCreate(s, d, i) ==
    /\ txn[s].kind = "create"
    /\ txn[s].counted
    /\ LeastUtilized(s, d)
    /\ allocation[i] = NoDatabase
    /\ allocation' = [allocation EXCEPT ![i] = d]
    /\ Release(s)
    /\ UNCHANGED instance_max

\* Mutant of CommitUpdate: the new capacity is added to the old one.
CommitIncrement(s, d) ==
    /\ txn[s].kind = "update"
    /\ txn[s].counted
    /\ d \in txn[s].rows
    /\ txn[s].size >= txn[s].counts[d]
    /\ instance_max' = [instance_max EXCEPT ![d] = @ + txn[s].size]
    /\ Release(s)
    /\ UNCHANGED allocation

\* DatabaseRepository.update: not below what is allocated.
CommitUpdate(s, d) ==
    /\ txn[s].kind = "update"
    /\ txn[s].counted
    /\ d \in txn[s].rows
    /\ txn[s].size >= txn[s].counts[d]
    /\ instance_max' = [instance_max EXCEPT ![d] = txn[s].size]
    /\ Release(s)
    /\ UNCHANGED allocation

\* DatabaseRepository.delete: only an unused database.
CommitDelete(s, d) ==
    /\ txn[s].kind = "delete"
    /\ txn[s].counted
    /\ d \in txn[s].rows
    /\ txn[s].counts[d] = 0
    /\ instance_max' = [instance_max EXCEPT ![d] = 0]
    /\ Release(s)
    /\ UNCHANGED allocation

\* The request is refused (full pool, capacity conflict, database in use or
\* gone), violates a uniqueness constraint, is a deadlock victim, or dies.
Rollback(s) ==
    /\ txn[s].kind # "none"
    /\ Release(s)
    /\ UNCHANGED <<instance_max, allocation>>

\* DatabaseRepository.create: one INSERT under a fresh identifier.
AddDatabase(d, n) ==
    /\ instance_max[d] = 0
    /\ \A s \in Sessions : d \notin txn[s].wanted
    /\ instance_max' = [instance_max EXCEPT ![d] = n]
    /\ UNCHANGED <<allocation, locks, txn>>

\* step_04_remove_local_configuration deletes the allocation of an instance
\* and locks no database row for it.
FreeSlot(i) ==
    /\ allocation[i] # NoDatabase
    /\ allocation' = [allocation EXCEPT ![i] = NoDatabase]
    /\ UNCHANGED <<instance_max, locks, txn>>

PNext ==
    \/ \E s \in Sessions : BeginCreate(s)
    \/ \E s \in Sessions, d \in Databases, n \in 1 .. MaxSlots :
          BeginUpdate(s, d, n)
    \/ \E s \in Sessions, d \in Databases : BeginDelete(s, d)
    \/ \E s \in Sessions, d \in Databases : LockRow(s, d)
    \/ \E s \in Sessions : Count(s)
    \/ \E s \in Sessions, d \in Databases, i \in Instances :
          CommitCreate(s, d, i)
    \/ \E s \in Sessions, d \in Databases : CommitUpdate(s, d)
    \/ \E s \in Sessions, d \in Databases : CommitDelete(s, d)
    \/ \E s \in Sessions : Rollback(s)
    \/ \E d \in Databases, n \in 1 .. MaxSlots : AddDatabase(d, n)
    \/ \E i \in Instances : FreeSlot(i)

PSpec == PInit /\ [][PNext]_pvars

-----------------------------------------------------------------------------
\* No database is overbooked, and none that is used disappears (its
\* instance_max would be 0), although creations, capacity changes and
\* deletions overlap and slots are freed without a lock.
WithinCapacity == \A d \in Databases : Used(d) <= instance_max[d]

\* What a transaction counted on a row it holds is never too low: whoever
\* could raise the number or lower the capacity needs the same row lock.
CountsAreSafe ==
    \A s \in Sessions :
        \A d \in txn[s].rows :
            /\ locks[d] = s
            /\ instance_max[d] > 0
            /\ txn[s].counted => Used(d) <= txn[s].counts[d]
=============================================================================
