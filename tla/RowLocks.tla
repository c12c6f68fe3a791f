------------------------------- MODULE RowLocks -------------------------------
(***************************************************************************)
(* The row locks of the transactions.  Requests and workers lock rows with *)
(* SELECT ... FOR UPDATE, by updating or by deleting them, one after the   *)
(* other, and hold them until they commit or roll back; PostgreSQL lets a  *)
(* transaction wait for a row that another one holds, and rolls one back   *)
(* that waits for itself.  Only the order of the locks is modelled here:   *)
(* what the transactions do is in the other modules.                       *)
(***************************************************************************)
EXTENDS Integers, Sequences, FiniteSets

CONSTANTS Connections,   \* database connections, one session each
          Rows,          \* the rows, each a table and an identifier
          Transactions,  \* the transactions that are run
          NoRow          \* a session that waits for no row

\* The order that requests and transitions of the engine keep, but for the
\* transactions in Disorderly.  A live job is pending, running or in error; a
\* settled one has succeeded.
LockOrder == <<{"live_job", "database"}, {"workspace"}, {"instance"}, {"template"},
               {"assignment", "member", "settled_job"},
               {"deployment", "image"}, {"parameter"}>>

Tables == UNION {LockOrder[i] : i \in 1..7}

Rank(t) == CHOOSE i \in 1..7 : t \in LockOrder[i]

\* A statement locks one row of a table, or several: in the order of an ORDER
\* BY, or in any order.
Extents == {"one", "sorted", "any"}
Statements == [table : Tables, rows : Extents]

One(t) == [table |-> t, rows |-> "one"]
Sorted(t) == [table |-> t, rows |-> "sorted"]
Several(t) == [table |-> t, rows |-> "any"]

-----------------------------------------------------------------------------
\* The transactions, by what they lock.

\* claim_execution, owned_execution and prepare_execution_retry: the job, and
\* unless it has succeeded its resource.
ExecutionTransactions ==
    {<<One("live_job"), One(t)>> :
        t \in {"instance", "template", "assignment", "workspace"}}
    \cup {<<One("settled_job")>>}

\* _lock_owned_template_target
PublicationTransaction ==
    <<One("live_job"), One("instance"), One("template"), One("assignment"),
      One("deployment")>>

\* _claim_members and _claim_cleanup, without the job or the instance
ClaimMembersTransaction == <<Sorted("member")>>

\* _finalize_update, and the failure or deferral of the step
EndUpdateTransaction ==
    <<One("live_job"), One("instance"), Several("member")>>

\* InstanceRepository.create; the requests on one managed database
DatabaseTransactions == {<<Sorted("database")>>, <<One("database")>>}

\* Stop, start and delete an instance, upload its provider, and the
\* observation of its state
InstanceTransaction == <<One("instance")>>

\* InstanceRepository.request_sync, which takes up the failed members
InstanceSyncTransaction == <<One("instance"), Several("member")>>

\* MemberRepository: _lock_available_instance and _lock_member
MemberTransaction == <<One("instance"), One("member")>>

\* TemplateAssignmentRepository: put and request_deletion
AssignmentTransaction == <<One("instance"), One("template"), One("assignment")>>

\* TemplateRepository: the row, and the job _discard_current_job deletes
TemplateTransaction == <<One("template"), One("settled_job")>>

\* TemplateParameterRepository and TemplateImageRepository
ParameterTransaction == <<One("template"), One("parameter")>>
ImageTransactions == {<<One("template")>>, <<One("image")>>}

\* Mutant of WorkspaceTransactions: a creation locks the template first.
TemplateFirst ==
    {<<One("template"), One("instance"), One("member"), One("image"),
       Sorted("parameter")>>}

\* WorkspaceRepository: create, update and request_deletion
WorkspaceTransactions ==
    {<<One("instance"), One("template"), One("member"), One("image"),
       Sorted("parameter")>>,
     <<One("workspace"), One("instance"), One("template"), One("image"),
       Sorted("parameter")>>,
     <<One("workspace"), One("instance"), One("template")>>}

\* The last steps of the deletions of an instance and of an assignment
RemoveInstanceTransaction ==
    <<One("live_job"), One("instance"), Several("workspace"), Several("member")>>
RemoveAssignmentTransaction ==
    <<One("live_job"), One("assignment"), Several("workspace"), One("deployment")>>

AllTransactions ==
    ExecutionTransactions \cup DatabaseTransactions \cup ImageTransactions
    \cup WorkspaceTransactions
    \cup {PublicationTransaction, ClaimMembersTransaction, EndUpdateTransaction,
          InstanceTransaction, InstanceSyncTransaction, MemberTransaction,
          AssignmentTransaction, TemplateTransaction, ParameterTransaction,
          RemoveInstanceTransaction, RemoveAssignmentTransaction}

\* The transactions that go back to an earlier table, or lock the members of an
\* instance in no fixed order.
Disorderly == {EndUpdateTransaction, InstanceSyncTransaction,
               RemoveInstanceTransaction, RemoveAssignmentTransaction}

ASSUME LockAssumption ==
    /\ Rows \subseteq Tables \X Int
    /\ Transactions \subseteq AllTransactions
    /\ NoRow \notin Rows

-----------------------------------------------------------------------------
VARIABLES tx,     \* tx[s]: the transaction session s runs, empty when idle
          todo,   \* todo[s]: the statements it has still to run
          want,   \* want[s]: the row it waits for
          held    \* held[s]: the rows it has locked

lvars == <<tx, todo, want, held>>

Idle(s) == tx[s] = <<>>

\* Statements, awaited rows and locked rows have their types, and no row is
\* locked twice.
LocksTypeOK ==
    /\ tx \in [Connections -> Transactions \cup {<<>>}]
    /\ todo \in [Connections -> Seq(Statements)]
    /\ want \in [Connections -> Rows \cup {NoRow}]
    /\ held \in [Connections -> SUBSET Rows]
    /\ \A s, t \in Connections : s # t => held[s] \cap held[t] = {}

LInit ==
    /\ tx = [s \in Connections |-> <<>>]
    /\ todo = [s \in Connections |-> <<>>]
    /\ want = [s \in Connections |-> NoRow]
    /\ held = [s \in Connections |-> {}]

Start(s, x) ==
    /\ Idle(s)
    /\ tx' = [tx EXCEPT ![s] = x]
    /\ todo' = [todo EXCEPT ![s] = x]
    /\ UNCHANGED <<want, held>>

\* The next row of the statement under way.  A statement on one row is then
\* over; an ordered one goes up.
Ask(s, x) ==
    /\ want[s] = NoRow
    /\ todo[s] # <<>>
    /\ x[1] = Head(todo[s]).table
    /\ x \notin held[s]
    /\ Head(todo[s]).rows = "sorted" =>
          \A y \in held[s] : y[1] = x[1] => y[2] < x[2]
    /\ want' = [want EXCEPT ![s] = x]
    /\ todo' = [todo EXCEPT ![s] = IF Head(@).rows = "one" THEN Tail(@) ELSE @]
    /\ UNCHANGED <<tx, held>>

\* A statement on several rows has no more of them.
NoMoreRows(s) ==
    /\ want[s] = NoRow
    /\ todo[s] # <<>>
    /\ Head(todo[s]).rows # "one"
    /\ todo' = [todo EXCEPT ![s] = Tail(@)]
    /\ UNCHANGED <<tx, want, held>>

Free(x) == \A t \in Connections : x \notin held[t]

Take(s) ==
    /\ want[s] # NoRow
    /\ Free(want[s])
    /\ held' = [held EXCEPT ![s] = held[s] \cup {want[s]}]
    /\ want' = [want EXCEPT ![s] = NoRow]
    /\ UNCHANGED <<tx, todo>>

\* Every lock of s is given back, and the connection with it.
GiveBack(s) ==
    /\ tx' = [tx EXCEPT ![s] = <<>>]
    /\ todo' = [todo EXCEPT ![s] = <<>>]
    /\ want' = [want EXCEPT ![s] = NoRow]
    /\ held' = [held EXCEPT ![s] = {}]

\* Mutant of End: a failed check returns without a rollback.
LeakLocks(s) ==
    /\ ~Idle(s)
    /\ want[s] = NoRow
    /\ todo' = [todo EXCEPT ![s] = <<>>]
    /\ UNCHANGED <<tx, want, held>>

\* Commit, or a rollback as soon as a check fails
End(s) == ~Idle(s) /\ want[s] = NoRow /\ GiveBack(s)

-----------------------------------------------------------------------------
\* s waits for a row that t holds.
WaitsFor(s, t) == want[s] # NoRow /\ want[s] \in held[t]

\* The sessions of D wait for each other.
Deadlock(D) == D # {} /\ \A s \in D : \E t \in D : WaitsFor(s, t)

\* PostgreSQL's detection: a transaction that waits for itself, through others,
\* is rolled back with an error.
Detect(s) ==
    /\ \E D \in SUBSET Connections :
          /\ s \in D
          /\ Deadlock(D)
          /\ \A t \in D : \E u \in D : WaitsFor(u, t)
    /\ GiveBack(s)

LNext == \E s \in Connections : \/ \E x \in Transactions : Start(s, x)
                                \/ \E x \in Rows : Ask(s, x)
                                \/ NoMoreRows(s) \/ Take(s)
                                \/ End(s) \/ Detect(s)

LSpec == LInit /\ [][LNext]_lvars

\* A statement is answered, a transaction does not stay open for ever, a
\* deadlock is detected after deadlock_timeout, and PostgreSQL grants a lock
\* in the order in which it was asked for, so that nobody is passed over for
\* ever.
LFairness == \A s \in Connections :
    SF_lvars(Take(s)) /\ WF_lvars(End(s)) /\ WF_lvars(Detect(s))

LFairSpec == LSpec /\ LFairness

-----------------------------------------------------------------------------
\* Transactions that wait for each other are never all orderly: in every group
\* of them one removes an instance or an assignment, which deletes workspaces
\* after it locked what a workspace request locks later, or locks the members
\* of an instance in no fixed order.  Without such a transaction no request or
\* step is rolled back by PostgreSQL, whatever else runs.
DeadlocksNeedDisorder ==
    \A D \in SUBSET Connections :
        Deadlock(D) => \E s \in D : tx[s] \in Disorderly

\* Every transaction ends, by itself or rolled back as part of a deadlock.
TransactionsEnd == \A s \in Connections : ~Idle(s) ~> Idle(s)
=============================================================================
