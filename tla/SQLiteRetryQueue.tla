-------------------------- MODULE SQLiteRetryQueue --------------------------
(***************************************************************************)
(* The SQLite backend of the retry queue: two tables behind a pool of one  *)
(* connection.  The two claims and the archive run are transactions of     *)
(* several statements, Enqueue is a query and an insert that are not, and  *)
(* the other operations are one UPDATE each.  Every statement may fail,    *)
(* because its context has ended or the database refuses it, and the       *)
(* program may be killed between any two: write-ahead logging then leaves  *)
(* what has been committed.                                                *)
(*                                                                         *)
(* Jobs are those of RetryQueue; the order in which rows are selected is   *)
(* left open.                                                              *)
(***************************************************************************)
EXTENDS Integers, FiniteSets

CONSTANTS
    Articles, Channels, Stamps, MaxAttempts,    \* as in RetryQueue
    Snapshots,      \* values of job.Attempts that callers pass to the marks
    Callers,        \* goroutines that call the queue
    Dispatcher,     \* the one that files jobs, the goroutine of AsyncDistributor
    Nobody,         \* the connection is free
    Limits,         \* limits that callers pass
    ClaimDefault, ArchiveDefault,   \* limits in place of one that is not positive
    ArticleRows,    \* articles that have a row in the table articles
    MaxFiled        \* bound: jobs filed in a behaviour

ASSUME SQLiteAssumption ==
    /\ MaxAttempts \in Nat \ {0}
    /\ Snapshots \subseteq Nat
    /\ Dispatcher \in Callers
    /\ Nobody \notin Callers
    /\ Limits \subseteq Int
    /\ ClaimDefault \in Nat \ {0}
    /\ ArchiveDefault \in Nat \ {0}
    /\ MaxFiled \in Nat

VARIABLES
    rows,           \* retry_jobs, as committed
    archiveRows,    \* retry_jobs_archive, as committed
    conn,           \* whose transaction has the connection
    call            \* how far each caller has come

\* Observation only.
VARIABLE filed      \* identifiers that have been inserted

vars == <<rows, archiveRows, conn, call, filed>>

Queue == INSTANCE RetryQueue WITH jobs <- rows, archived <- archiveRows

Id == Queue!Id
Absent == Queue!Absent

Stored(id) == rows[id].status # "absent"
Waiting(id) == rows[id].status \in {"queued", "retrying"}
Processing(id) == rows[id].status = "processing"
Active(id) == Waiting(id) \/ Processing(id)
Settled(id) == Stored(id) /\ ~Active(id)
Ready(id) == Waiting(id) /\ rows[id].due

\* begin: the call waits for the connection; body: it is in its transaction,
\* has changed the rows of done and not yet those of todo; insert: Enqueue
\* has found no active job.
Call == [pc: {"idle", "begin", "body", "insert"},
         op: {"none", "claimReady", "claimByID", "archive", "enqueue"},
         limit: Limits \cup {0},
         todo: SUBSET Id,
         done: SUBSET Id]
NoCall == [pc |-> "idle", op |-> "none", limit |-> 0, todo |-> {}, done |-> {}]

Init ==
    /\ rows = [id \in Id |-> Absent]
    /\ archiveRows = {}
    /\ conn = Nobody
    /\ call = [c \in Callers |-> NoCall]
    /\ filed = {}

-----------------------------------------------------------------------------
(* The transactions.                                                       *)

tables == <<rows, archiveRows, filed>>

Calls(c, op, limit, ids) ==
    /\ call[c] = NoCall
    /\ call' = [call EXCEPT ![c] = [pc |-> "begin", op |-> op, limit |-> limit,
                                    todo |-> ids, done |-> {}]]
    /\ UNCHANGED <<conn, tables>>

CallClaimReady(c, limit) == Calls(c, "claimReady", limit, {})
CallClaimByID(c, id) == Calls(c, "claimByID", 0, {id})
CallArchive(c, limit) == Calls(c, "archive", limit, {})

\* BeginTx has the connection and the query has selected the ids.
Select(c, ids) ==
    /\ conn' = c
    /\ call' = [call EXCEPT ![c].pc = "body", ![c].todo = ids]
    /\ UNCHANGED tables

Begins(c, op) == call[c].pc = "begin" /\ call[c].op = op /\ conn = Nobody

OrDefault(limit, default) == IF limit <= 0 THEN default ELSE limit

BeginClaimReady(c) ==
    /\ Begins(c, "claimReady")
    /\ LET ready == {id \in Id : Ready(id)}
           n == Cardinality(ready)
           limit == OrDefault(call[c].limit, ClaimDefault)
       IN \E S \in SUBSET ready :
            /\ Cardinality(S) = IF limit < n THEN limit ELSE n
            /\ Select(c, S)

\* No row, or one in state processing: the transaction is rolled back.
BeginClaimByID(c) ==
    /\ Begins(c, "claimByID")
    /\ \E id \in call[c].todo :
         IF Stored(id) /\ ~Processing(id)
           THEN Select(c, {id})
           ELSE call' = [call EXCEPT ![c] = NoCall] /\ UNCHANGED <<conn, tables>>

\* Which succeeded jobs are old enough is left open.
BeginArchive(c) ==
    /\ Begins(c, "archive")
    /\ \E S \in SUBSET {id \in Id : rows[id].status = "succeeded"} :
         /\ Cardinality(S) <= OrDefault(call[c].limit, ArchiveDefault)
         /\ Select(c, S)

\* Mutant: the row is changed on the pool and not in the transaction: the
\* statement waits for the connection the transaction has.
ChangeOnPool(c, id) ==
    /\ call[c].pc = "body"
    /\ conn = Nobody
    /\ id \in call[c].todo
    /\ call' = [call EXCEPT ![c].todo = @ \ {id}, ![c].done = @ \cup {id}]
    /\ UNCHANGED <<conn, tables>>

\* Mutant: the row is put into the archive outside of the transaction.
ChangeOutside(c, id) ==
    /\ call[c].pc = "body"
    /\ id \in call[c].todo
    /\ call' = [call EXCEPT ![c].todo = @ \ {id}, ![c].done = @ \cup {id}]
    /\ archiveRows' = IF call[c].op = "archive" THEN archiveRows \cup {id} ELSE archiveRows
    /\ UNCHANGED <<conn, rows, filed>>

\* The statements for one selected row, on the connection of the transaction:
\* the UPDATE of a claim, the INSERT OR REPLACE and DELETE of an archive run.
Change(c, id) ==
    /\ call[c].pc = "body"
    /\ id \in call[c].todo
    /\ call' = [call EXCEPT ![c].todo = @ \ {id}, ![c].done = @ \cup {id}]
    /\ UNCHANGED <<conn, tables>>

Return(c) ==
    /\ conn' = Nobody
    /\ call' = [call EXCEPT ![c] = NoCall]

Commit(c) ==
    /\ call[c].pc = "body"
    /\ call[c].todo = {}
    /\ LET ids == call[c].done
       IN IF call[c].op = "archive"
            THEN /\ rows' = [id \in Id |-> IF id \in ids THEN Absent ELSE rows[id]]
                 /\ archiveRows' = archiveRows \cup ids
            ELSE /\ rows' = [id \in Id |-> IF id \in ids
                                             THEN [rows[id] EXCEPT !.status = "processing"]
                                             ELSE rows[id]]
                 /\ UNCHANGED archiveRows
    /\ Return(c)
    /\ UNCHANGED filed

\* A statement or the commit fails: the deferred Rollback.
Fail(c) ==
    /\ call[c].pc = "body"
    /\ Return(c)
    /\ UNCHANGED tables

\* The context ends, or a statement fails, before anything has been done.
GiveUp(c) ==
    /\ call[c].pc \in {"begin", "insert"}
    /\ call' = [call EXCEPT ![c] = NoCall]
    /\ UNCHANGED <<conn, tables>>

-----------------------------------------------------------------------------
(* Operations without a transaction; each statement needs the connection.  *)

\* Mutant: the active job is not looked for.
CheckNothing(id) ==
    /\ Cardinality(filed) < MaxFiled
    /\ call[Dispatcher] = NoCall
    /\ conn = Nobody
    /\ ~Stored(id) /\ id \notin archiveRows
    /\ call' = [call EXCEPT ![Dispatcher] = [pc |-> "insert", op |-> "enqueue", limit |-> 0,
                                             todo |-> {id}, done |-> {}]]
    /\ UNCHANGED <<conn, tables>>

\* Enqueue's query; with an active job of the target it returns at once.
CheckActive(id) ==
    /\ Cardinality(filed) < MaxFiled
    /\ call[Dispatcher] = NoCall
    /\ conn = Nobody
    /\ ~Stored(id) /\ id \notin archiveRows
    /\ \A other \in Id : Queue!SameTarget(id, other) => ~Active(other)
    /\ call' = [call EXCEPT ![Dispatcher] = [pc |-> "insert", op |-> "enqueue", limit |-> 0,
                                             todo |-> {id}, done |-> {}]]
    /\ UNCHANGED <<conn, tables>>

\* The foreign key refuses a job without an article.
Insert(id) ==
    /\ call[Dispatcher].pc = "insert"
    /\ id \in call[Dispatcher].todo
    /\ conn = Nobody
    /\ call' = [call EXCEPT ![Dispatcher] = NoCall]
    /\ IF id.article \in ArticleRows
         THEN rows' = [rows EXCEPT ![id] = Queue!NewJob] /\ filed' = filed \cup {id}
         ELSE UNCHANGED <<rows, filed>>
    /\ UNCHANGED <<archiveRows, conn>>

\* One UPDATE; when it fails, nothing has happened and only the caller knows.
Update(id, job) ==
    /\ conn = Nobody
    /\ rows' = [rows EXCEPT ![id] = job]
    /\ UNCHANGED <<archiveRows, conn, call, filed>>

Reset(id) ==
    /\ Stored(id)
    /\ Update(id, [status |-> "queued", attempts |-> 0, due |-> TRUE])

\* The caller has claimed the job (KeepsContract of RetryProcessor).
MarkSucceeded(id, n) ==
    /\ Active(id)
    /\ Update(id, [status |-> "succeeded", attempts |-> n + 1, due |-> rows[id].due])

MarkFailed(id, n, terminal) ==
    /\ Active(id)
    /\ Update(id, [status |-> IF terminal THEN "failed" ELSE "retrying",
                   attempts |-> n + 1, due |-> FALSE])

\* The clock passes next_attempt_at, whoever has the connection.
BackoffElapses(id) ==
    /\ Waiting(id)
    /\ ~rows[id].due
    /\ rows' = [rows EXCEPT ![id].due = TRUE]
    /\ UNCHANGED <<archiveRows, conn, call, filed>>

\* The program is killed and opens the database again.
Crash ==
    /\ conn' = Nobody
    /\ call' = [c \in Callers |-> NoCall]
    /\ UNCHANGED tables

-----------------------------------------------------------------------------
Begin(c) == BeginClaimReady(c) \/ BeginClaimByID(c) \/ BeginArchive(c)
Body(c) == Commit(c) \/ \E id \in call[c].todo : Change(c, id)

\* What the caller of Enqueue guarantees, not Enqueue: no settled job of the
\* target is there, because an article is dispatched once to a channel
\* (FiledOnce of Dispatch).  Without it the reset of such a job between the
\* query and the insert would make two active jobs of the target.
Unfiled(id) == \A other \in Id : Queue!SameTarget(id, other) => ~Settled(other)

Next ==
    \/ \E c \in Callers, limit \in Limits : CallClaimReady(c, limit) \/ CallArchive(c, limit)
    \/ \E c \in Callers, id \in Id : CallClaimByID(c, id)
    \/ \E c \in Callers : Begin(c) \/ Body(c) \/ Fail(c) \/ GiveUp(c)
    \/ \E id \in Id : Unfiled(id) /\ CheckActive(id)
    \/ \E id \in Id : Insert(id) \/ Reset(id) \/ BackoffElapses(id)
    \/ \E id \in Id, n \in Snapshots : MarkSucceeded(id, n)
    \/ \E id \in Id, n \in Snapshots, terminal \in BOOLEAN : MarkFailed(id, n, terminal)
    \/ Crash

Spec == Init /\ [][Next]_vars

\* Statements return, and database/sql hands a released connection to one of the
\* waiting calls, chosen at random, so each gets it in the end (with probability
\* one; no order of arrival is promised).
Fairness ==
    /\ \A c \in Callers : WF_vars(Body(c)) /\ SF_vars(Begin(c))
    /\ SF_vars(\E id \in Id : Insert(id))

FairSpec == Spec /\ Fairness

-----------------------------------------------------------------------------
TypeOK ==
    /\ rows \in [Id -> Queue!Job]
    /\ archiveRows \subseteq Id
    /\ conn \in Callers \cup {Nobody}
    /\ call \in [Callers -> Call]
    /\ filed \subseteq Id

\* Killed at any moment and with any statement failing, the SQLite backend
\* behaves as the queue of the contract: a batch claim and an archive run
\* happen at their commit, wholly or not at all.
ImplementsQueue ==
    Queue!QueueInit /\ [][Queue!QueueNext(Snapshots)]_(Queue!queueVars)

\* docs/retry.md: the sqlite backend "moves rows from retry_jobs to
\* retry_jobs_archive".  A job that was filed is in exactly one of the tables,
\* whatever fails and whenever the program is killed.
MovedWhole ==
    \A id \in filed : Stored(id) <=> id \notin archiveRows

\* Every call gets the one connection and gives it back: no transaction waits
\* for a connection it holds itself, and none is left open on an error path.
CallsReturn == \A c \in Callers : call[c] # NoCall ~> call[c] = NoCall
=============================================================================
