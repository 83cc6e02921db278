----------------------- MODULE SQLiteRetryQueueProofs -----------------------
(***************************************************************************)
(* The SQLite backend implements the contract of the retry queue, killed   *)
(* anywhere and with any statement failing, and moves its rows wholly.     *)
(***************************************************************************)
EXTENDS SQLiteRetryQueue, TLAPS

USE SQLiteAssumption

\* The connection is with the one caller that is inside a transaction.
OneTransaction == \A c \in Callers : call[c].pc = "body" <=> conn = c

\* Nobody else has the connection meanwhile, so that the rows a transaction
\* has selected are at its commit what they were when it selected them.
SelectedStay ==
    \A c \in Callers :
        LET ids == call[c].todo \cup call[c].done
        IN /\ call[c].pc = "begin" /\ call[c].op = "claimByID" =>
                \E id \in Id : call[c].todo = {id}
           /\ call[c].pc = "begin" => call[c].done = {}
           /\ call[c].pc = "body" =>
                \/ call[c].op = "claimReady" /\ \A id \in ids : Ready(id)
                \/ /\ call[c].op = "claimByID"
                   /\ \E id \in Id : ids = {id} /\ Stored(id) /\ ~Processing(id)
                \/ call[c].op = "archive" /\ \A id \in ids : rows[id].status = "succeeded"

\* Between Enqueue's query and its insert no other job of the target appears.
InsertIsFirst ==
    /\ \A c \in Callers : call[c].pc = "insert" => c = Dispatcher
    /\ call[Dispatcher].pc = "insert" =>
         \A id \in call[Dispatcher].todo :
            /\ id \notin archiveRows
            /\ \A other \in Id : Queue!SameTarget(id, other) => ~Stored(other)

\* What has been inserted is in one table, and nothing else is in any.
OneTable ==
    \A id \in Id :
        /\ id \in filed <=> Stored(id) \/ id \in archiveRows
        /\ ~(Stored(id) /\ id \in archiveRows)

Inv == TypeOK /\ OneTransaction /\ SelectedStay /\ InsertIsFirst /\ OneTable

LEMMA RecordsAreJobs ==
    /\ Absent \in Queue!Job /\ Absent.status = "absent"
    /\ Queue!NewJob \in Queue!Job /\ Queue!NewJob.status = "queued"
    /\ [status |-> "queued", attempts |-> 0, due |-> TRUE] \in Queue!Job
    /\ \A n \in Snapshots, d \in BOOLEAN :
          [status |-> "succeeded", attempts |-> n + 1, due |-> d] \in Queue!Job
    /\ \A n \in Snapshots, terminal \in BOOLEAN :
          [status |-> IF terminal THEN "failed" ELSE "retrying",
           attempts |-> n + 1, due |-> FALSE] \in Queue!Job
    /\ \A job \in Queue!Job :
          /\ [job EXCEPT !.status = "processing"] \in Queue!Job
          /\ [job EXCEPT !.status = "processing"].status = "processing"
          /\ [job EXCEPT !.due = TRUE] \in Queue!Job
          /\ [job EXCEPT !.due = TRUE].status = job.status
          /\ job.due \in BOOLEAN
<1> USE DEF Absent, Queue!Absent, Queue!NewJob, Queue!Job, Queue!Status
<1>1. \A job \in Queue!Job :
          /\ [job EXCEPT !.status = "processing"] \in Queue!Job
          /\ [job EXCEPT !.status = "processing"].status = "processing"
          /\ [job EXCEPT !.due = TRUE] \in Queue!Job
          /\ [job EXCEPT !.due = TRUE].status = job.status
          /\ job.due \in BOOLEAN
  OBVIOUS
<1>3. /\ Absent \in Queue!Job /\ Absent.status = "absent"
      /\ Queue!NewJob \in Queue!Job /\ Queue!NewJob.status = "queued"
      /\ [status |-> "queued", attempts |-> 0, due |-> TRUE] \in Queue!Job
  OBVIOUS
<1>4. /\ \A n \in Snapshots, d \in BOOLEAN :
            [status |-> "succeeded", attempts |-> n + 1, due |-> d] \in Queue!Job
      /\ \A n \in Snapshots, terminal \in BOOLEAN :
            [status |-> IF terminal THEN "failed" ELSE "retrying",
             attempts |-> n + 1, due |-> FALSE] \in Queue!Job
  OBVIOUS
<1> QED BY <1>1, <1>3, <1>4

LEMMA NoCallType ==
    /\ NoCall \in Call
    /\ NoCall.pc = "idle"
BY DEF NoCall, Call

LEMMA SameTargetReflexive == \A id \in Id : Queue!SameTarget(id, id)
BY DEF Queue!SameTarget

LEMMA InitInv == Init => Inv
BY RecordsAreJobs, NoCallType
   DEF Init, Inv, TypeOK, OneTransaction, SelectedStay, InsertIsFirst, OneTable, Stored

\* A caller that comes back without having changed the tables.
LEMMA ReturnInv ==
    ASSUME Inv, NEW c \in Callers,
           call' = [call EXCEPT ![c] = NoCall],
           conn' = IF call[c].pc = "body" THEN Nobody ELSE conn,
           UNCHANGED tables
    PROVE  Inv'
<1> USE NoCallType DEF Inv, TypeOK, tables
<1>1. TypeOK'
  BY DEF OneTransaction
<1>2. OneTransaction'
  BY DEF OneTransaction
<1>3. SelectedStay'
  BY DEF SelectedStay, Ready, Waiting, Stored, Processing
<1>4. InsertIsFirst' /\ OneTable'
  BY DEF InsertIsFirst, OneTable, Stored
<1> QED BY <1>1, <1>2, <1>3, <1>4

\* One row is changed while nobody is in a transaction; it stays stored.
LEMMA UpdateInv ==
    ASSUME Inv, NEW id \in Id, NEW job \in Queue!Job, job.status # "absent",
           Stored(id), Update(id, job)
    PROVE  Inv'
<1> USE DEF Inv, TypeOK, Update
<1>1. TypeOK' /\ OneTransaction'
  BY DEF OneTransaction
<1>2. SelectedStay'
  BY DEF SelectedStay, OneTransaction
<1>3. \A other \in Id : Stored(other)' <=> Stored(other)
  BY DEF Stored
<1>4. InsertIsFirst' /\ OneTable'
  BY <1>3 DEF InsertIsFirst, OneTable
<1> QED BY <1>1, <1>2, <1>4

\* A call begins, or a transaction selects its rows.
LEMMA CallsInv ==
    ASSUME Inv, NEW c \in Callers, NEW op \in {"claimReady", "claimByID", "archive"},
           NEW limit \in Limits \cup {0}, NEW ids \in SUBSET Id,
           op = "claimByID" => \E id \in Id : ids = {id},
           Calls(c, op, limit, ids)
    PROVE  Inv'
<1> USE DEF Inv, TypeOK, Calls, tables, NoCall
<1>1. TypeOK'
  BY DEF Call
<1>2. OneTransaction'
  BY DEF OneTransaction
<1>3. SelectedStay'
  BY DEF SelectedStay, Ready, Waiting, Stored, Processing
<1>4. InsertIsFirst' /\ OneTable'
  BY DEF InsertIsFirst, OneTable, Stored
<1> QED BY <1>1, <1>2, <1>3, <1>4

LEMMA SelectInv ==
    ASSUME Inv, NEW c \in Callers, NEW ids \in SUBSET Id,
           call[c].pc = "begin", conn = Nobody, Select(c, ids),
           \/ call[c].op = "claimReady" /\ \A id \in ids : Ready(id)
           \/ /\ call[c].op = "claimByID"
              /\ \E id \in Id : ids = {id} /\ Stored(id) /\ ~Processing(id)
           \/ call[c].op = "archive" /\ \A id \in ids : rows[id].status = "succeeded"
    PROVE  Inv'
<1> USE DEF Inv, TypeOK, Select, tables
<1>0. call' = [call EXCEPT ![c] = [@ EXCEPT !.pc = "body", !.todo = ids]]
  OBVIOUS
<1>1. TypeOK'
  BY <1>0 DEF Call
<1>2. OneTransaction'
  BY <1>0 DEF OneTransaction, Call
<1>3. SelectedStay'
  BY <1>0 DEF SelectedStay, Ready, Waiting, Stored, Processing, Call
<1>4. InsertIsFirst' /\ OneTable'
  BY <1>0 DEF InsertIsFirst, OneTable, Stored, Call
<1> QED BY <1>1, <1>2, <1>3, <1>4

LEMMA ChangeInv ==
    ASSUME Inv, NEW c \in Callers, NEW id \in call[c].todo, Change(c, id)
    PROVE  Inv'
<1> USE DEF Inv, TypeOK, Change, tables
<1>0. /\ call' = [call EXCEPT ![c] = [@ EXCEPT !.todo = call[c].todo \ {id},
                                              !.done = call[c].done \cup {id}]]
      /\ call[c].todo \in SUBSET Id
  BY DEF Call
<1>1. TypeOK'
  BY <1>0 DEF Call
<1>2. OneTransaction'
  BY <1>0 DEF OneTransaction, Call
<1>3. SelectedStay'
  BY <1>0 DEF SelectedStay, Ready, Waiting, Stored, Processing, Call
<1>4. InsertIsFirst' /\ OneTable'
  BY <1>0 DEF InsertIsFirst, OneTable, Stored, Call
<1> QED BY <1>1, <1>2, <1>3, <1>4

LEMMA CommitInv ==
    ASSUME Inv, NEW c \in Callers, Commit(c)
    PROVE  Inv'
<1> USE NoCallType, RecordsAreJobs DEF Inv, TypeOK, Commit, Return
<1>0. call[c].done \in SUBSET Id /\ call[c].todo = {} /\ conn = c
  BY DEF Call, OneTransaction
<1>1. TypeOK'
  <2>1. CASE call[c].op = "archive"
    BY <1>0, <2>1
  <2>2. CASE call[c].op # "archive"
    <3>1. rows' = [id \in Id |-> IF id \in call[c].done
                                    THEN [rows[id] EXCEPT !.status = "processing"]
                                    ELSE rows[id]]
      BY <2>2
    <3>2. \A id \in Id : [rows[id] EXCEPT !.status = "processing"] \in Queue!Job
      BY RecordsAreJobs
    <3>3. rows' \in [Id -> Queue!Job]
      BY ONLY <3>1, <3>2, TypeOK DEF TypeOK
    <3> QED BY <1>0, <2>2, <3>3
  <2> QED BY <2>1, <2>2
<1>2. OneTransaction'
  BY <1>0 DEF OneTransaction
<1>3. SelectedStay'
  BY <1>0 DEF SelectedStay, OneTransaction
<1>4. \A id \in call[c].done : Stored(id)
  BY <1>0 DEF SelectedStay, Ready, Waiting, Stored
<1>5. CASE call[c].op = "archive"
  <2>1. \A id \in Id : Stored(id)' <=> Stored(id) /\ id \notin call[c].done
    BY <1>0, <1>5 DEF Stored
  <2> QED BY <1>0, <1>1, <1>2, <1>3, <1>4, <1>5, <2>1, SameTargetReflexive
          DEF InsertIsFirst, OneTable, Call
<1>6. CASE call[c].op # "archive"
  <2>1. /\ \A id \in call[c].done : Stored(id)' /\ Stored(id)
        /\ \A id \in Id \ call[c].done : Stored(id)' <=> Stored(id)
    <3>1. \A id \in Id : [rows[id] EXCEPT !.status = "processing"].status = "processing"
      BY RecordsAreJobs
    <3>2. \A id \in Id : rows'[id] = IF id \in call[c].done
                                       THEN [rows[id] EXCEPT !.status = "processing"]
                                       ELSE rows[id]
      BY <1>6
    <3> QED BY <1>0, <1>4, <3>1, <3>2 DEF Stored
  <2> QED BY <1>0, <1>1, <1>2, <1>3, <1>6, <2>1 DEF InsertIsFirst, OneTable
<1> QED BY <1>5, <1>6

LEMMA EnqueueInv ==
    ASSUME Inv, NEW id \in Id, (Unfiled(id) /\ CheckActive(id)) \/ Insert(id)
    PROVE  Inv'
<1> USE NoCallType, RecordsAreJobs DEF Inv, TypeOK
<1>1. CASE Unfiled(id) /\ CheckActive(id)
  <2> USE <1>1 DEF CheckActive, tables
  <2>0. /\ call' = [call EXCEPT ![Dispatcher] = [pc |-> "insert", op |-> "enqueue",
                                   limit |-> 0, todo |-> {id}, done |-> {}]]
        /\ call[Dispatcher].pc # "body"
    BY NoCallType
  <2>1. TypeOK'
    BY <2>0 DEF Call
  <2>2. OneTransaction' /\ OneTable'
    <3>1. OneTransaction'
      BY <2>0 DEF OneTransaction
    <3> QED BY <3>1 DEF OneTable, Stored
  <2>3. SelectedStay'
    BY <2>0 DEF SelectedStay, Ready, Waiting, Stored, Processing
  <2>4. InsertIsFirst'
    BY <2>0 DEF InsertIsFirst, Stored, Settled, Unfiled
  <2> QED BY <2>1, <2>2, <2>3, <2>4
<1>2. CASE Insert(id)
  <2> USE <1>2 DEF Insert
  <2>1. TypeOK'
    BY DEF Call
  <2>a. OneTransaction'
    BY DEF OneTransaction
  <2>2. SelectedStay'
    BY <2>a DEF SelectedStay, OneTransaction
  <2>3. InsertIsFirst'
    BY DEF InsertIsFirst
  <2>4. OneTable'
    BY SameTargetReflexive DEF OneTable, InsertIsFirst, Stored
  <2> QED BY <2>1, <2>a, <2>2, <2>3, <2>4
<1> QED BY <1>1, <1>2

LEMMA CrashInv == Inv /\ Crash => Inv'
<1> SUFFICES ASSUME Inv, Crash PROVE Inv'
  OBVIOUS
<1> USE NoCallType DEF Inv, TypeOK, Crash, tables
<1>1. \A c \in Callers : call'[c].pc = "idle"
  OBVIOUS
<1>2. TypeOK' /\ OneTransaction'
  BY <1>1 DEF OneTransaction
<1>3. SelectedStay' /\ InsertIsFirst' /\ OneTable'
  BY <1>1 DEF SelectedStay, InsertIsFirst, OneTable, Stored
<1> QED BY <1>2, <1>3

LEMMA BackoffElapsesInv ==
    ASSUME Inv, NEW id \in Id, BackoffElapses(id)
    PROVE  Inv'
<1> USE DEF Inv, TypeOK, BackoffElapses
<1>1. TypeOK' /\ OneTransaction'
  BY RecordsAreJobs DEF OneTransaction
<1>2. \A other \in Id : rows'[other].status = rows[other].status
                        /\ (Ready(other) => Ready(other)')
  BY DEF Ready, Waiting
<1>3. SelectedStay'
  BY <1>2 DEF SelectedStay, Stored, Processing, Call
<1>4. InsertIsFirst' /\ OneTable'
  BY <1>2 DEF InsertIsFirst, OneTable, Stored
<1> QED BY <1>1, <1>3, <1>4

LEMMA NextInv == Inv /\ [Next]_vars => Inv'
<1> SUFFICES ASSUME Inv, [Next]_vars PROVE Inv'
  OBVIOUS
<1>1. ASSUME NEW c \in Callers, NEW limit \in Limits, CallClaimReady(c, limit) PROVE Inv'
  BY <1>1, CallsInv DEF CallClaimReady
<1>2. ASSUME NEW c \in Callers, NEW limit \in Limits, CallArchive(c, limit) PROVE Inv'
  BY <1>2, CallsInv DEF CallArchive
<1>3. ASSUME NEW c \in Callers, NEW id \in Id, CallClaimByID(c, id) PROVE Inv'
  BY <1>3, CallsInv DEF CallClaimByID
<1>4. ASSUME NEW c \in Callers, BeginClaimReady(c) PROVE Inv'
  <2>1. PICK S \in SUBSET {id \in Id : Ready(id)} : Select(c, S)
    BY <1>4 DEF BeginClaimReady
  <2> QED BY <1>4, <2>1, SelectInv DEF BeginClaimReady, Begins
<1>5. ASSUME NEW c \in Callers, BeginClaimByID(c) PROVE Inv'
  <2>1. PICK id \in call[c].todo :
          IF Stored(id) /\ ~Processing(id)
            THEN Select(c, {id})
            ELSE call' = [call EXCEPT ![c] = NoCall] /\ UNCHANGED <<conn, tables>>
    BY <1>5 DEF BeginClaimByID
  <2>2. id \in Id
    BY DEF Inv, TypeOK, Call
  <2>3. CASE Stored(id) /\ ~Processing(id)
    BY <1>5, <2>1, <2>2, <2>3, SelectInv DEF BeginClaimByID, Begins
  <2>4. CASE ~(Stored(id) /\ ~Processing(id))
    BY <1>5, <2>1, <2>4, ReturnInv DEF BeginClaimByID, Begins
  <2> QED BY <2>3, <2>4
<1>6. ASSUME NEW c \in Callers, BeginArchive(c) PROVE Inv'
  <2>1. PICK S \in SUBSET {id \in Id : rows[id].status = "succeeded"} : Select(c, S)
    BY <1>6 DEF BeginArchive
  <2> QED BY <1>6, <2>1, SelectInv DEF BeginArchive, Begins
<1>7. ASSUME NEW c \in Callers, Body(c) PROVE Inv'
  BY <1>7, CommitInv, ChangeInv DEF Body
<1>8. ASSUME NEW c \in Callers, Fail(c) PROVE Inv'
  BY <1>8, ReturnInv DEF Fail, Return
<1>9. ASSUME NEW c \in Callers, GiveUp(c) PROVE Inv'
  BY <1>9, ReturnInv DEF GiveUp
<1>10. ASSUME NEW id \in Id, (Unfiled(id) /\ CheckActive(id)) \/ Insert(id) PROVE Inv'
  BY <1>10, EnqueueInv
<1>11. ASSUME NEW id \in Id, Reset(id) PROVE Inv'
  BY <1>11, UpdateInv, RecordsAreJobs DEF Reset
<1>12. ASSUME NEW id \in Id, BackoffElapses(id) PROVE Inv'
  BY <1>12, BackoffElapsesInv
<1>13. ASSUME NEW id \in Id, NEW n \in Snapshots, MarkSucceeded(id, n) PROVE Inv'
  <2>1. Stored(id) /\ rows[id].due \in BOOLEAN
    BY <1>13, RecordsAreJobs DEF MarkSucceeded, Active, Waiting, Processing, Stored, Inv, TypeOK
  <2> QED BY <1>13, <2>1, UpdateInv, RecordsAreJobs DEF MarkSucceeded
<1>14. ASSUME NEW id \in Id, NEW n \in Snapshots, NEW terminal \in BOOLEAN,
              MarkFailed(id, n, terminal)
       PROVE  Inv'
  <2>1. Stored(id)
    BY <1>14 DEF MarkFailed, Active, Waiting, Processing, Stored
  <2> QED BY <1>14, <2>1, UpdateInv, RecordsAreJobs DEF MarkFailed
<1>15. ASSUME Crash PROVE Inv'
  BY <1>15, CrashInv
<1>16. ASSUME UNCHANGED vars PROVE Inv'
  BY <1>16 DEF vars, Inv, TypeOK, OneTransaction, SelectedStay, InsertIsFirst, OneTable,
               Stored, Ready, Waiting, Processing
<1> QED BY <1>1, <1>2, <1>3, <1>4, <1>5, <1>6, <1>7, <1>8, <1>9, <1>10, <1>11, <1>12,
           <1>13, <1>14, <1>15, <1>16 DEF Next, Begin

LEMMA InvHolds == Spec => []Inv
<1> QED BY InitInv, NextInv, PTL DEF Spec

\* The tables, the connection and the calls are well typed in every reachable
\* state.
THEOREM TypeCorrect == Spec => []TypeOK
<1> QED BY InvHolds, PTL DEF Inv

\* A filed job is in exactly one of the tables, whatever fails and whenever
\* the program is killed.
THEOREM MovedWholeHolds == Spec => []MovedWhole
<1>1. Inv => MovedWhole
  BY DEF Inv, TypeOK, OneTable, MovedWhole
<1> QED BY <1>1, InvHolds, PTL

-----------------------------------------------------------------------------
\* A commit is one operation of the contract.
LEMMA CommitRefines ==
    ASSUME Inv, NEW c \in Callers, Commit(c)
    PROVE  Queue!QueueNext(Snapshots) \/ UNCHANGED Queue!queueVars
<1> USE DEF Inv, TypeOK, Commit, Id
<1>0. call[c].done \in SUBSET Id /\ call[c].todo \cup call[c].done = call[c].done
  BY DEF Call
<1>1. CASE call[c].op = "archive"
  <2>1. Queue!ArchiveSucceededBefore(call[c].done)
    BY <1>0, <1>1 DEF SelectedStay, Queue!ArchiveSucceededBefore, Absent
  <2> QED BY <1>0, <2>1 DEF Queue!QueueNext
<1>2. CASE call[c].op = "claimReady"
  <2>1. /\ Queue!ClaimReady(call[c].done)
        /\ call[c].done \in SUBSET {id \in Id : Queue!Ready(id)}
    BY <1>0, <1>2 DEF SelectedStay, Queue!ClaimReady, Ready, Waiting, Queue!Ready, Queue!Waiting
  <2> QED BY <2>1 DEF Queue!QueueNext
<1>3. CASE call[c].op = "claimByID"
  <2>1. PICK id \in Id : call[c].done = {id} /\ Stored(id) /\ ~Processing(id)
    BY <1>0, <1>3 DEF SelectedStay
  <2>2. rows' = [rows EXCEPT ![id].status = "processing"]
    BY <1>3, <2>1
  <2>3. Queue!ClaimByID(id)
    BY <1>3, <2>1, <2>2 DEF Queue!ClaimByID, Stored, Processing, Queue!Stored, Queue!Processing
  <2> QED BY <2>3 DEF Queue!QueueNext
<1> QED BY <1>1, <1>2, <1>3 DEF SelectedStay

LEMMA InsertRefines ==
    ASSUME Inv, NEW id \in Id, Insert(id)
    PROVE  Queue!QueueNext(Snapshots) \/ UNCHANGED Queue!queueVars
<1> USE DEF Inv, TypeOK, Insert, Id
<1>1. CASE id.article \in ArticleRows
  <2>1. /\ id \notin archiveRows
        /\ \A other \in Id : Queue!SameTarget(id, other) => ~Stored(other)
    BY DEF InsertIsFirst
  <2>2. ~Queue!Stored(id)
    BY <2>1, SameTargetReflexive DEF Stored, Queue!Stored
  <2>3. Queue!Enqueue(id)
    BY <1>1, <2>1 DEF Stored, Queue!Enqueue, Queue!Active, Queue!Waiting, Queue!Processing
  <2> QED BY <2>1, <2>2, <2>3 DEF Queue!QueueNext
<1>2. CASE id.article \notin ArticleRows
  BY <1>2 DEF Queue!queueVars
<1> QED BY <1>1, <1>2

LEMMA StepRefines ==
    Inv /\ [Next]_vars => [Queue!QueueNext(Snapshots)]_(Queue!queueVars)
<1> SUFFICES ASSUME Inv, [Next]_vars
             PROVE  Queue!QueueNext(Snapshots) \/ UNCHANGED Queue!queueVars
  OBVIOUS
<1> USE DEF Queue!queueVars, tables, Id
<1>1. ASSUME NEW c \in Callers, NEW limit \in Limits,
             CallClaimReady(c, limit) \/ CallArchive(c, limit)
      PROVE  UNCHANGED Queue!queueVars
  BY <1>1 DEF CallClaimReady, CallArchive, Calls
<1>2. ASSUME NEW c \in Callers, NEW id \in Id, CallClaimByID(c, id)
      PROVE  UNCHANGED Queue!queueVars
  BY <1>2 DEF CallClaimByID, Calls
<1>3. ASSUME NEW c \in Callers, Begin(c)
      PROVE  UNCHANGED Queue!queueVars
  BY <1>3 DEF Begin, BeginClaimReady, BeginClaimByID, BeginArchive, Select
<1>4. ASSUME NEW c \in Callers, NEW id \in call[c].todo, Change(c, id)
      PROVE  UNCHANGED Queue!queueVars
  BY <1>4 DEF Change
<1>5. ASSUME NEW c \in Callers, Fail(c) \/ GiveUp(c)
      PROVE  UNCHANGED Queue!queueVars
  BY <1>5 DEF Fail, GiveUp
<1>6. ASSUME NEW id \in Id, CheckActive(id)
      PROVE  UNCHANGED Queue!queueVars
  BY <1>6 DEF CheckActive
<1>7. ASSUME NEW id \in Id, Reset(id)
      PROVE  Queue!QueueNext(Snapshots)
  <2>1. Queue!Reset(id)
    BY <1>7 DEF Reset, Update, Stored, Queue!Reset, Queue!Stored
  <2> QED BY <2>1 DEF Queue!QueueNext
<1>8. ASSUME NEW id \in Id, BackoffElapses(id)
      PROVE  Queue!QueueNext(Snapshots)
  <2>1. Queue!BackoffElapses(id)
    BY <1>8 DEF BackoffElapses, Waiting, Queue!BackoffElapses, Queue!Waiting
  <2> QED BY <2>1 DEF Queue!QueueNext
<1>9. ASSUME NEW id \in Id, NEW n \in Snapshots, MarkSucceeded(id, n)
      PROVE  Queue!QueueNext(Snapshots)
  <2>1. Queue!Active(id) /\ Queue!Stored(id)
    BY <1>9 DEF MarkSucceeded, Active, Waiting, Processing, Queue!Active, Queue!Waiting,
                Queue!Processing, Queue!Stored
  <2>2. Queue!MarkSucceeded(id, n)
    BY <1>9, <2>1 DEF MarkSucceeded, Update, Queue!MarkSucceeded
  <2> QED BY <2>1, <2>2 DEF Queue!QueueNext
<1>10. ASSUME NEW id \in Id, NEW n \in Snapshots, NEW terminal \in BOOLEAN,
              MarkFailed(id, n, terminal)
       PROVE  Queue!QueueNext(Snapshots)
  <2>1. Queue!Active(id) /\ Queue!Stored(id)
    BY <1>10 DEF MarkFailed, Active, Waiting, Processing, Queue!Active, Queue!Waiting,
                 Queue!Processing, Queue!Stored
  <2>2. Queue!MarkFailed(id, n, terminal)
    BY <1>10, <2>1 DEF MarkFailed, Update, Queue!MarkFailed
  <2> QED BY <2>1, <2>2 DEF Queue!QueueNext
<1>11. ASSUME Crash \/ UNCHANGED vars
       PROVE  UNCHANGED Queue!queueVars
  BY <1>11 DEF Crash, vars
<1> QED BY <1>1, <1>2, <1>3, <1>4, <1>5, <1>6, <1>7, <1>8, <1>9, <1>10, <1>11,
           CommitRefines, InsertRefines DEF Next, Body

\* The SQLite backend refines the contract of the retry queue: for any number
\* of callers, killed anywhere, with any statement failing.
THEOREM SQLiteImplementsQueue == Spec => ImplementsQueue
<1>1. Init => Queue!QueueInit
  BY DEF Init, Queue!QueueInit, Absent, Id
<1> QED BY <1>1, InvHolds, StepRefines, PTL DEF Spec, ImplementsQueue
=============================================================================
