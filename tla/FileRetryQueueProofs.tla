------------------------ MODULE FileRetryQueueProofs ------------------------
(***************************************************************************)
(* The file backend implements the contract of the retry queue, except for *)
(* kills that find its active file behind its map; and wherever it is      *)
(* killed, an accepted job is in exactly one of the two files, unless an   *)
(* archive run was cut short that had half moved it.                       *)
(***************************************************************************)
EXTENDS FileRetryQueue, TLAPS

USE FileQueueAssumption

\* The variables of the contract.
JobsBar == IF up THEN mem ELSE disk
ArchivedBar == {id \in [article: Articles, channel: Channels, stamp: Stamps] :
                  /\ archiveFile[id] > 0
                  /\ (IF up THEN mem ELSE disk)[id].status = "absent"}

\* The loops of ClaimReady and ArchiveSucceededBefore, which go on after the
\* choice they made under q.mu, still see the states they chose on.
LoopsSeeWhatTheyChose ==
    /\ op.kind # "none" => up
    /\ op.kind = "claim" => \A id \in op.todo : Ready(id)
    /\ op.kind = "archive" => \A id \in op.todo : Status(id) = "succeeded"
    /\ op.kind # "archive" => op.moved = {}

Inv == TypeOK /\ LoopsSeeWhatTheyChose

\* A failed append counts one error and writes at most the line it was to.
LEMMA AppendFailsType ==
    ASSUME tail \in TailState, errors \in Nat, NEW id, NEW job, AppendFails(id, job)
    PROVE  /\ tail' \in TailState
           /\ errors' = errors + 1
           /\ disk' = disk \/ disk' = [disk EXCEPT ![id] = job]
<1>1. tail' \in TailState
  BY DEF AppendFails, WriteLine, TailState
<1>2. errors' = errors + 1 /\ (disk' = disk \/ disk' = [disk EXCEPT ![id] = job])
  BY DEF AppendFails, WriteLine
<1> QED BY <1>1, <1>2

\* Put changes one entry of the map and at most the same line of the file.
LEMMA PutType ==
    ASSUME TypeOK, NEW id \in Id, NEW job \in Queue!Job, Put(id, job)
    PROVE  /\ mem' \in [Id -> Queue!Job]
           /\ mem' = [mem EXCEPT ![id] = job]
           /\ disk' \in [Id -> Queue!Job]
           /\ tail' \in TailState
           /\ errors' \in Nat
<1> USE DEF TypeOK
<1>1. CASE Append(id, job)
  BY <1>1 DEF Put, Append, WriteLine, TailState
<1>2. CASE AppendFails(id, job)
  <2>1. tail' \in TailState /\ errors' = errors + 1
        /\ (disk' = disk \/ disk' = [disk EXCEPT ![id] = job])
    BY <1>2, AppendFailsType
  <2> QED BY <2>1 DEF Put
<1> QED BY <1>1, <1>2 DEF Put

LEMMA RecordsAreJobs ==
    /\ Absent \in Queue!Job
    /\ Queue!NewJob \in Queue!Job
    /\ [status |-> "queued", attempts |-> 0, due |-> TRUE] \in Queue!Job
    /\ \A n \in Snapshots, d \in BOOLEAN :
          [status |-> "succeeded", attempts |-> n + 1, due |-> d] \in Queue!Job
    /\ \A n \in Snapshots, terminal \in BOOLEAN :
          [status |-> IF terminal THEN "failed" ELSE "retrying",
           attempts |-> n + 1, due |-> FALSE] \in Queue!Job
    /\ \A job \in Queue!Job : [job EXCEPT !.status = "processing"] \in Queue!Job
    /\ \A job \in Queue!Job : job.due \in BOOLEAN
BY DEF Absent, Queue!Absent, Queue!NewJob, Queue!Job, Queue!Status

LEMMA StatusIsStored ==
    /\ Queue!NewJob.status # "absent"
    /\ \A job \in Queue!Job : [job EXCEPT !.status = "processing"].status # "absent"
BY DEF Queue!NewJob, Queue!Job

LEMMA EmptyType == Empty \in [Id -> Queue!Job]
BY RecordsAreJobs DEF Empty

LEMMA InitInv == Init => Inv
<1> SUFFICES ASSUME Init PROVE Inv
  OBVIOUS
<1>1. TypeOK
  BY EmptyType DEF Init, TypeOK, TailState, NoOp, Op
<1>2. LoopsSeeWhatTheyChose
  BY DEF Init, LoopsSeeWhatTheyChose, NoOp
<1> QED BY <1>1, <1>2 DEF Inv

LEMMA NextInv == Inv /\ [Next]_vars => Inv'
<1> SUFFICES ASSUME Inv, [Next]_vars PROVE Inv'
  OBVIOUS
<1> USE DEF Inv, TypeOK, LoopsSeeWhatTheyChose, Unwatched, Op, NoOp, Idle
<1>1. ASSUME NEW id \in Id, Enqueue(id) PROVE Inv'
  <2>1. CASE UNCHANGED <<mem, disk, tail, errors, accepted>>
    BY <1>1, <2>1 DEF Enqueue
  <2>2. CASE Put(id, Queue!NewJob) /\ accepted' \in {accepted, accepted \cup {id}}
    BY <1>1, <2>2, PutType, RecordsAreJobs DEF Enqueue
  <2> QED BY <1>1, <2>1, <2>2 DEF Enqueue
<1>2. ASSUME NEW id \in Id, Reset(id) PROVE Inv'
  BY <1>2, PutType, RecordsAreJobs DEF Reset
<1>3. ASSUME NEW id \in Id, ClaimByID(id) PROVE Inv'
  BY <1>3, PutType, RecordsAreJobs DEF ClaimByID
<1>4. ASSUME NEW id \in Id, NEW n \in Snapshots, MarkSucceeded(id, n) PROVE Inv'
  BY <1>4, PutType, RecordsAreJobs DEF MarkSucceeded
<1>5. ASSUME NEW id \in Id, NEW n \in Snapshots, NEW terminal \in BOOLEAN,
             MarkFailed(id, n, terminal)
      PROVE  Inv'
  BY <1>5, PutType, RecordsAreJobs DEF MarkFailed
<1>6. ASSUME ClaimReady PROVE Inv'
  BY <1>6 DEF ClaimReady, Ready, Waiting, Status
<1>7. ASSUME NEW id \in op.todo, ClaimNext(id) PROVE Inv'
  <2>1. op.todo \in SUBSET Id
    OBVIOUS
  <2>2. /\ mem' \in [Id -> Queue!Job]
        /\ mem' = [mem EXCEPT ![id] = [mem[id] EXCEPT !.status = "processing"]]
        /\ disk' \in [Id -> Queue!Job]
        /\ tail' \in TailState
        /\ errors' \in Nat
    BY <1>7, <2>1, PutType, RecordsAreJobs DEF ClaimNext
  <2>3. \A other \in Id : other # id => mem'[other] = mem[other]
    BY <2>2
  <2>4. /\ op' \in Op /\ op'.moved = {}
        /\ op'.kind = "none" \/ (op'.kind = "claim" /\ op'.todo = op.todo \ {id})
    BY <1>7, <2>1 DEF ClaimNext
  <2>5. UNCHANGED Unwatched /\ op.kind = "claim"
    BY <1>7 DEF ClaimNext
  <2> QED BY <2>1, <2>2, <2>3, <2>4, <2>5 DEF Ready, Waiting, Status
<1>8. ASSUME ClaimDone PROVE Inv'
  BY <1>8 DEF ClaimDone
<1>9. ASSUME Archive PROVE Inv'
  BY <1>9 DEF Archive, Status
<1>10. ASSUME NEW id \in op.todo, ArchiveNext(id) PROVE Inv'
  <2>1. op.todo \in SUBSET Id
    OBVIOUS
  <2>2. mem' \in [Id -> Queue!Job] /\ \A other \in Id : other # id => mem'[other] = mem[other]
    BY <1>10, <2>1, RecordsAreJobs DEF ArchiveNext
  <2>3. op' \in Op /\ op'.kind = "archive" /\ op'.todo = op.todo \ {id}
    BY <1>10, <2>1 DEF ArchiveNext
  <2>4. archiveFile' \in [Id -> Nat]
    BY <1>10, <2>1 DEF ArchiveNext
  <2> QED BY <1>10, <2>1, <2>2, <2>3, <2>4 DEF ArchiveNext, Status
<1>11. ASSUME ArchiveFails PROVE Inv'
  <2>1. archiveFile' \in [Id -> Nat] /\ cut' \subseteq Id
    <3>1. CASE UNCHANGED archiveFile /\ cut' = cut \cup HalfMoved
      BY <3>1 DEF HalfMoved
    <3>2. ASSUME NEW id \in op.todo, archiveFile' = [archiveFile EXCEPT ![id] = @ + 1],
                 cut' = cut \cup HalfMoved \cup {id}
          PROVE  archiveFile' \in [Id -> Nat] /\ cut' \subseteq Id
      BY <3>2 DEF HalfMoved
    <3> QED BY <1>11, <3>1, <3>2 DEF ArchiveFails
  <2> QED BY <1>11, <2>1 DEF ArchiveFails
<1>12. ASSUME ArchiveNothing PROVE Inv'
  BY <1>12 DEF ArchiveNothing
<1>13. ASSUME Truncate PROVE Inv'
  BY <1>13, EmptyType DEF Truncate, TailState
<1>14. ASSUME NEW id \in op.todo, RewriteNext(id) PROVE Inv'
  <2>1. op.todo \in SUBSET Id /\ id \in Id /\ mem[id] \in Queue!Job
    OBVIOUS
  <2>2. op.kind = "rewrite" /\ UNCHANGED <<mem, archiveFile, up, accepted, crashes>>
    BY <1>14 DEF RewriteNext
  <2>3. CASE Append(id, mem[id]) /\ op' = [op EXCEPT !.todo = @ \ {id}] /\ UNCHANGED cut
    <3>1. disk' \in [Id -> Queue!Job]
      BY <2>1, <2>3 DEF Append, WriteLine
    <3>2. op' \in Op /\ op'.kind = "rewrite"
      BY <2>2, <2>3
    <3> QED BY <2>2, <2>3, <3>1, <3>2 DEF Append, WriteLine, TailState
  <2>4. CASE AppendFails(id, mem[id]) /\ op' = NoOp /\ cut' = cut \cup HalfMoved
    <3>1. op' \in Op /\ op'.kind = "none" /\ cut' \subseteq Id
      BY <2>4 DEF HalfMoved
    <3>2. /\ tail' \in TailState
          /\ errors' = errors + 1
          /\ disk' = disk \/ disk' = [disk EXCEPT ![id] = mem[id]]
      BY <2>4, AppendFailsType
    <3>3. disk' \in [Id -> Queue!Job] /\ errors' \in Nat
      BY <2>1, <3>2
    <3> QED BY <2>2, <2>4, <3>1, <3>2, <3>3
  <2> QED BY <1>14, <2>3, <2>4 DEF RewriteNext
<1>15. ASSUME RewriteDone PROVE Inv'
  BY <1>15 DEF RewriteDone
<1>16. ASSUME NEW id \in Id, BackoffElapses(id) PROVE Inv'
  <2>1. \A job \in Queue!Job : [job EXCEPT !.due = TRUE] \in Queue!Job
    BY DEF Queue!Job
  <2>2. mem' \in [Id -> Queue!Job] /\ disk' \in [Id -> Queue!Job]
    BY <1>16, <2>1 DEF BackoffElapses
  <2> QED BY <1>16, <2>2 DEF BackoffElapses
<1>17. ASSUME Crash PROVE Inv'
  <2>1. cut' \subseteq Id
    BY <1>17 DEF Crash, HalfMoved
  <2>2. /\ UNCHANGED <<disk, tail, archiveFile, accepted, errors>>
        /\ up' = FALSE /\ mem' = Empty /\ op' = NoOp /\ crashes' = crashes + 1
    BY <1>17 DEF Crash
  <2>3. op' \in Op /\ op'.kind = "none"
    BY <2>2
  <2>4. crashes' \in Nat
    BY <2>2
  <2> QED BY <2>1, <2>2, <2>3, <2>4, EmptyType
<1>18. ASSUME Start PROVE Inv'
  BY <1>18 DEF Start
<1>19. ASSUME UNCHANGED vars PROVE Inv'
  BY <1>19 DEF vars, Ready, Waiting, Status
<1> QED
  BY <1>1, <1>2, <1>3, <1>4, <1>5, <1>6, <1>7, <1>8, <1>9, <1>10, <1>11, <1>12,
     <1>13, <1>14, <1>15, <1>16, <1>17, <1>18, <1>19
  DEF Next

\* Every reachable state is well typed, failed writes and kills included.
THEOREM TypeCorrect == Spec => []TypeOK
<1>1. Inv => TypeOK
  BY DEF Inv
<1> QED BY <1>1, InitInv, NextInv, PTL DEF Spec

-----------------------------------------------------------------------------
\* One entry of the map changes while the program runs: what it takes to be the
\* operation of the contract.
\* (a job that is in the archive file and still in the map does not count as
\* archived, and no operation but ArchiveNext takes a job out of the map).
LEMMA PutRefines ==
    ASSUME Inv, up, NEW id \in Id, NEW job \in Queue!Job, job.status # "absent",
           Stored(id) \/ archiveFile[id] = 0,
           Put(id, job), UNCHANGED <<archiveFile, up>>
    PROVE  /\ JobsBar = mem
           /\ JobsBar' = [mem EXCEPT ![id] = job]
           /\ UNCHANGED ArchivedBar
<1>1. mem' = [mem EXCEPT ![id] = job] /\ mem \in [Id -> Queue!Job]
  BY PutType DEF Inv, TypeOK
<1>2. \A k \in Id : /\ archiveFile[k] > 0
                    => (mem'[k].status = "absent" <=> mem[k].status = "absent")
  BY <1>1 DEF Stored, Status
<1> QED BY <1>1, <1>2 DEF JobsBar, ArchivedBar, Id, Queue!Id

LEMMA StepRefines ==
    ASSUME Inv, [Next]_vars
    PROVE  [Queue!QueueNext(Snapshots) \/ KilledBehind]_(Queue!queueVars)
<1> DEFINE Stutter == UNCHANGED <<JobsBar, ArchivedBar>>
<1> USE DEF Unwatched, Idle
<1>0. /\ mem \in [Id -> Queue!Job]
      /\ disk \in [Id -> Queue!Job]
      /\ archiveFile \in [Id -> Nat]
      /\ op.todo \in SUBSET Id
      /\ (op.kind = "claim" \/ op.kind = "archive" \/ op.kind = "rewrite") => up
      /\ op.kind = "claim" => \A id \in op.todo : Ready(id)
      /\ op.kind = "archive" => \A id \in op.todo : Status(id) = "succeeded"
  BY DEF Inv, TypeOK, LoopsSeeWhatTheyChose, Op
<1>1. ASSUME NEW id \in Id, Enqueue(id)
      PROVE  Queue!QueueNext(Snapshots)
  <2>1. ~Queue!Stored(id) /\ id \notin ArchivedBar
    BY <1>1 DEF Enqueue, Queue!Stored, Stored, Status, ArchivedBar, Id, Queue!Id
  <2>2. \A other \in Id : Active(other) <=> Queue!Active(other)
    BY <1>1 DEF Enqueue, Active, Waiting, Processing, Status, Queue!Active,
                Queue!Waiting, Queue!Processing
  <2>3. Queue!Enqueue(id)
    <3>1. CASE \E other \in Id : Queue!SameTarget(id, other) /\ Active(other)
      BY <1>1, <2>2, <3>1 DEF Enqueue, Queue!Enqueue, Id
    <3>2. CASE ~ \E other \in Id : Queue!SameTarget(id, other) /\ Active(other)
      <4>1. Put(id, Queue!NewJob) /\ UNCHANGED <<archiveFile, up>>
        BY <1>1, <3>2 DEF Enqueue
      <4>2. /\ JobsBar = mem
            /\ JobsBar' = [mem EXCEPT ![id] = Queue!NewJob]
            /\ UNCHANGED ArchivedBar
        BY <1>1, <4>1, PutRefines, RecordsAreJobs, StatusIsStored DEF Enqueue
      <4> QED BY <2>2, <3>2, <4>2 DEF Queue!Enqueue, JobsBar, ArchivedBar, Id
    <3> QED BY <3>1, <3>2
  <2> QED BY <2>1, <2>3 DEF Queue!QueueNext, Id, ArchivedBar
<1>2. ASSUME NEW id \in Id, Reset(id)
      PROVE  Queue!QueueNext(Snapshots)
  <2> DEFINE job == [status |-> "queued", attempts |-> 0, due |-> TRUE]
  <2>1. /\ JobsBar = mem
        /\ JobsBar' = [mem EXCEPT ![id] = job]
        /\ UNCHANGED ArchivedBar
    BY <1>2, PutRefines, RecordsAreJobs, StatusIsStored DEF Reset
  <2>2. Queue!Reset(id)
    BY <1>2, <2>1 DEF Reset, Stored, Status, Queue!Reset, Queue!Stored, JobsBar, ArchivedBar
  <2> QED BY <2>2 DEF Queue!QueueNext, Id
<1>3. ASSUME NEW id \in Id, ClaimByID(id)
      PROVE  Queue!QueueNext(Snapshots)
  <2>1. /\ JobsBar = mem
        /\ JobsBar' = [mem EXCEPT ![id] = [mem[id] EXCEPT !.status = "processing"]]
        /\ UNCHANGED ArchivedBar
    BY <1>0, <1>3, PutRefines, RecordsAreJobs, StatusIsStored DEF ClaimByID
  <2>2. Queue!ClaimByID(id)
    BY <1>3, <2>1 DEF ClaimByID, Stored, Processing, Status, Queue!ClaimByID,
                      Queue!Stored, Queue!Processing, JobsBar, ArchivedBar
  <2> QED BY <2>2 DEF Queue!QueueNext, Id
<1>4. ASSUME NEW id \in Id, NEW n \in Snapshots, MarkSucceeded(id, n)
      PROVE  Queue!QueueNext(Snapshots)
  <2> DEFINE job == [status |-> "succeeded", attempts |-> n + 1, due |-> mem[id].due]
  <2>1. /\ JobsBar = mem
        /\ JobsBar' = [mem EXCEPT ![id] = job]
        /\ UNCHANGED ArchivedBar
    BY <1>0, <1>4, PutRefines, RecordsAreJobs, StatusIsStored
       DEF MarkSucceeded, Active, Waiting, Processing, Stored
  <2>2. Queue!MarkSucceeded(id, n) /\ Queue!Active(id)
    BY <1>4, <2>1 DEF MarkSucceeded, Active, Waiting, Processing, Status,
         Queue!MarkSucceeded, Queue!Stored, Queue!Active, Queue!Waiting,
         Queue!Processing, JobsBar, ArchivedBar
  <2> QED BY <2>2 DEF Queue!QueueNext, Id
<1>5. ASSUME NEW id \in Id, NEW n \in Snapshots, NEW terminal \in BOOLEAN,
             MarkFailed(id, n, terminal)
      PROVE  Queue!QueueNext(Snapshots)
  <2> DEFINE job == [status |-> IF terminal THEN "failed" ELSE "retrying",
                     attempts |-> n + 1, due |-> FALSE]
  <2>1. /\ JobsBar = mem
        /\ JobsBar' = [mem EXCEPT ![id] = job]
        /\ UNCHANGED ArchivedBar
    BY <1>0, <1>5, PutRefines, RecordsAreJobs, StatusIsStored
       DEF MarkFailed, Active, Waiting, Processing, Stored
  <2>2. Queue!MarkFailed(id, n, terminal) /\ Queue!Active(id)
    BY <1>5, <2>1 DEF MarkFailed, Active, Waiting, Processing, Status,
         Queue!MarkFailed, Queue!Stored, Queue!Active, Queue!Waiting,
         Queue!Processing, JobsBar, ArchivedBar
  <2> QED BY <2>2 DEF Queue!QueueNext, Id
<1>6. ASSUME NEW id \in op.todo, ClaimNext(id)
      PROVE  Queue!QueueNext(Snapshots)
  <2>1. id \in Id /\ up /\ up' = up /\ archiveFile' = archiveFile /\ Ready(id)
    BY <1>0, <1>6 DEF ClaimNext
  <2>2. mem' = [mem EXCEPT ![id] = [mem[id] EXCEPT !.status = "processing"]]
    BY <1>6 DEF ClaimNext, Put
  <2>3. JobsBar = mem /\ JobsBar' = mem' /\ UNCHANGED ArchivedBar
    <3>1. Stored(id) /\ Put(id, [mem[id] EXCEPT !.status = "processing"])
      BY <1>6, <2>1 DEF ClaimNext, Ready, Waiting, Stored
    <3> QED BY <1>0, <2>1, <2>2, <3>1, PutRefines, RecordsAreJobs, StatusIsStored
  <2>4. mem' = [k \in Id |-> IF k \in {id} THEN [mem[k] EXCEPT !.status = "processing"]
                                           ELSE mem[k]]
    BY <1>0, <2>1, <2>2
  <2>5. Queue!ClaimReady({id}) /\ Queue!Ready(id)
    BY <2>1, <2>3, <2>4 DEF Queue!ClaimReady, Queue!Ready, Queue!Waiting, Ready, Waiting,
         Status, JobsBar, ArchivedBar, Id
  <2> QED BY <2>1, <2>5 DEF Queue!QueueNext, Id
<1>7. ASSUME NEW id \in op.todo, ArchiveNext(id)
      PROVE  Queue!QueueNext(Snapshots)
  <2>1. id \in Id /\ up /\ up' = up /\ Status(id) = "succeeded"
    BY <1>0, <1>7 DEF ArchiveNext
  <2>2. JobsBar = mem /\ JobsBar' = mem'
    BY <2>1 DEF JobsBar
  <2>3. mem' = [k \in Id |-> IF k \in {id} THEN Absent ELSE mem[k]]
    BY <1>0, <1>7, <2>1 DEF ArchiveNext
  <2>4. ArchivedBar' = ArchivedBar \cup {id}
    <3>1. \A k \in Id : archiveFile'[k] > 0 <=> archiveFile[k] > 0 \/ k = id
      BY <1>0, <1>7, <2>1 DEF ArchiveNext
    <3>2. \A k \in Id : mem'[k].status = "absent" <=> mem[k].status = "absent" \/ k = id
      BY <2>3 DEF Absent, Queue!Absent
    <3> QED BY <2>1, <3>1, <3>2 DEF ArchivedBar, Id, Queue!Id
  <2>5. Queue!ArchiveSucceededBefore({id})
    BY <2>1, <2>2, <2>3, <2>4 DEF Queue!ArchiveSucceededBefore, Status, JobsBar,
         ArchivedBar, Id, Absent
  <2> QED BY <2>1, <2>5 DEF Queue!QueueNext, Id
<1>8. ASSUME NEW id \in Id, BackoffElapses(id)
      PROVE  Queue!QueueNext(Snapshots)
  <2>1. up /\ up' = up /\ archiveFile' = archiveFile /\ Waiting(id) /\ ~mem[id].due
    BY <1>8 DEF BackoffElapses
  <2>2. JobsBar = mem /\ JobsBar' = [mem EXCEPT ![id].due = TRUE] /\ UNCHANGED ArchivedBar
    <3>1. mem' = [mem EXCEPT ![id].due = TRUE]
      BY <1>8 DEF BackoffElapses
    <3>2. \A k \in Id : mem'[k].status = mem[k].status
      BY <1>0, <3>1 DEF Queue!Job
    <3> QED BY <2>1, <3>1, <3>2 DEF JobsBar, ArchivedBar, Id, Queue!Id
  <2>3. Queue!BackoffElapses(id)
    BY <2>1, <2>2 DEF Queue!BackoffElapses, Queue!Waiting, Waiting, Status, JobsBar,
         ArchivedBar
  <2> QED BY <2>3 DEF Queue!QueueNext, Id
<1>9. ASSUME UNCHANGED <<mem, archiveFile, up>>, up
      PROVE  Stutter
  BY <1>9 DEF JobsBar, ArchivedBar
<1>10. ASSUME ClaimReady \/ ClaimDone \/ Archive \/ ArchiveNothing \/ Truncate \/ RewriteDone
       PROVE  Stutter
  BY <1>0, <1>9, <1>10 DEF ClaimReady, ClaimDone, Archive, ArchiveNothing, Truncate,
       RewriteDone
<1>16. ASSUME ArchiveFails
       PROVE  Stutter
  <2>1. up /\ up' = up /\ mem' = mem
    BY <1>0, <1>16 DEF ArchiveFails
  <2>2. \A k \in Id : mem[k].status = "absent" => archiveFile'[k] = archiveFile[k]
    <3>1. ASSUME NEW id \in op.todo, archiveFile' = [archiveFile EXCEPT ![id] = @ + 1]
          PROVE  \A k \in Id : mem[k].status = "absent" => archiveFile'[k] = archiveFile[k]
      BY <1>0, <1>16, <3>1 DEF ArchiveFails, Status
    <3> QED BY <1>16, <3>1 DEF ArchiveFails
  <2> QED BY <2>1, <2>2 DEF JobsBar, ArchivedBar, Id, Queue!Id
<1>11. ASSUME NEW id \in op.todo, RewriteNext(id)
       PROVE  Stutter
  BY <1>0, <1>9, <1>11 DEF RewriteNext
<1>12. ASSUME Crash PROVE Stutter \/ KilledBehind
  BY <1>12 DEF Crash, KilledBehind, JobsBar, ArchivedBar
<1>13. ASSUME Start PROVE Stutter
  BY <1>13 DEF Start, JobsBar, ArchivedBar
<1>14. ASSUME UNCHANGED vars PROVE Stutter
  BY <1>14 DEF vars, JobsBar, ArchivedBar
<1>15. Stutter => UNCHANGED Queue!queueVars
  BY DEF Queue!queueVars, JobsBar, ArchivedBar
<1> HIDE DEF Stutter
<1> QED
  BY <1>1, <1>2, <1>3, <1>4, <1>5, <1>6, <1>7, <1>8, <1>10, <1>11, <1>12, <1>13, <1>14,
     <1>15, <1>16
  DEF Next

\* ImplementsQueue: the file backend refines the contract of the retry queue,
\* whatever writes fail and wherever it is killed, but for kills that find the
\* active file behind the map.
THEOREM FileImplementsQueue == Spec => ImplementsQueue
<1>1. Init => Queue!QueueInit
  <2> SUFFICES ASSUME Init PROVE Queue!QueueInit
    OBVIOUS
  <2>1. JobsBar = [id \in Queue!Id |-> Queue!Absent]
    BY DEF Init, JobsBar, Empty, Id, Absent
  <2>2. ArchivedBar = {}
    BY DEF Init, ArchivedBar, Id, Queue!Id
  <2> QED BY <2>1, <2>2 DEF Queue!QueueInit, JobsBar, ArchivedBar
<1>2. Inv /\ [Next]_vars => [Queue!QueueNext(Snapshots) \/ KilledBehind]_(Queue!queueVars)
  BY StepRefines
<1> QED BY <1>1, <1>2, InitInv, NextInv, PTL DEF Spec, ImplementsQueue

-----------------------------------------------------------------------------
(* Where an accepted job is, for every way of failing and being killed.    *)

OnDisk(id) == disk[id].status # "absent"

\* It is in the map, while there is one, and on its line, unless the rewrite has
\* still to write that; or it is in the archive, once, and its line is gone, or
\* will be when the run that has moved it comes to the rewrite.
Placed(id) ==
    \/ /\ archiveFile[id] = 0 /\ id \notin op.moved
       /\ up => Stored(id)
       /\ OnDisk(id) \/ (op.kind = "rewrite" /\ id \in op.todo)
    \/ /\ archiveFile[id] = 1
       /\ mem[id] = Absent
       /\ disk[id] = Absent \/ id \in op.moved

AllPlaced == \A id \in accepted \ cut : Placed(id)

LEMMA AbsentStatus == Absent.status = "absent"
BY DEF Absent, Queue!Absent

\* A job is put into the map, and on its line unless the append fails.
LEMMA PutPlaces ==
    ASSUME Inv, AllPlaced, up, op.kind # "rewrite",
           NEW id \in Id, NEW job \in Queue!Job, job.status # "absent", Stored(id), Put(id, job),
           UNCHANGED <<archiveFile, up, accepted, cut>>,
           op'.kind # "rewrite", op'.moved = {}, op.moved = {}
    PROVE  AllPlaced'
<1>1. /\ \A k \in Id : mem'[k] = IF k = id THEN job ELSE mem[k]
      /\ \A k \in Id \ {id} : disk'[k] = disk[k]
      /\ disk'[id] \in {disk[id], job}
  <2>1. mem' = [mem EXCEPT ![id] = job]
        /\ (disk' = disk \/ disk' = [disk EXCEPT ![id] = job])
    BY DEF Put, Append, AppendFails, WriteLine
  <2> QED BY <2>1 DEF Inv, TypeOK
<1>2. SUFFICES ASSUME NEW k \in accepted \ cut PROVE Placed(k)'
  BY DEF AllPlaced
<1>3. k \in Id /\ Placed(k)
  BY DEF AllPlaced, Inv, TypeOK
<1>4. CASE k = id
  BY <1>1, <1>3, <1>4, AbsentStatus DEF Placed, OnDisk, Stored, Status
<1>5. CASE k # id
  BY <1>1, <1>3, <1>5 DEF Placed, OnDisk, Stored, Status
<1> QED BY <1>4, <1>5

LEMMA NextPlaces == Inv /\ AllPlaced /\ [Next]_vars => AllPlaced'
<1> SUFFICES ASSUME Inv, AllPlaced, [Next]_vars PROVE AllPlaced'
  OBVIOUS
<1>0. /\ mem \in [Id -> Queue!Job] /\ disk \in [Id -> Queue!Job]
      /\ archiveFile \in [Id -> Nat] /\ accepted \subseteq Id /\ cut \subseteq Id
      /\ op \in Op /\ op.todo \subseteq Id /\ op.moved \subseteq Id
      /\ op.kind # "none" => up
      /\ op.kind # "archive" => op.moved = {}
  BY DEF Inv, TypeOK, LoopsSeeWhatTheyChose, Op
<1>1. ASSUME NEW id \in Id, NEW job \in Queue!Job, job.status # "absent", Idle, Stored(id),
             Put(id, job), UNCHANGED <<op, Unwatched>>
      PROVE  AllPlaced'
  BY <1>1, PutPlaces DEF Idle, NoOp, Unwatched
<1>2. ASSUME NEW id \in Id, Enqueue(id) PROVE AllPlaced'
  <2>1. /\ up /\ op.kind = "none" /\ op.moved = {} /\ ~Stored(id) /\ disk[id] = Absent
        /\ archiveFile[id] = 0 /\ UNCHANGED <<archiveFile, up, op, cut>>
    BY <1>2 DEF Enqueue, Idle, NoOp
  <2>2. CASE UNCHANGED <<mem, disk, accepted>>
    BY <2>1, <2>2 DEF AllPlaced, Placed, OnDisk, Stored, Status
  <2>3. CASE /\ Put(id, Queue!NewJob)
             /\ accepted' = IF errors' = errors THEN accepted \cup {id} ELSE accepted
    <3>1. ASSUME NEW k \in accepted \ cut PROVE k # id /\ k \in Id /\ Placed(k)
      BY <1>0, <2>1, AbsentStatus DEF AllPlaced, Placed, OnDisk
    <3>2. \A k \in Id \ {id} : mem'[k] = mem[k] /\ disk'[k] = disk[k]
      BY <1>0, <2>3 DEF Put, Append, AppendFails, WriteLine
    <3>3. ASSUME NEW k \in accepted \ cut PROVE Placed(k)'
      BY <2>1, <3>1, <3>2 DEF Placed, OnDisk, Stored, Status
    <3>4. ASSUME errors' = errors PROVE Placed(id)'
      <4>1. Append(id, Queue!NewJob)
        BY <2>3, <3>4 DEF Put, AppendFails, Inv, TypeOK
      <4>2. mem'[id] = Queue!NewJob /\ disk'[id] = Queue!NewJob
        BY <1>0, <2>3, <4>1 DEF Put, Append, WriteLine
      <4> QED BY <2>1, <4>2, StatusIsStored DEF Placed, OnDisk, Stored, Status
    <3> QED BY <2>1, <2>3, <3>3, <3>4 DEF AllPlaced
  <2> QED BY <1>2, <2>2, <2>3 DEF Enqueue
<1>3. ASSUME NEW id \in Id, Reset(id) PROVE AllPlaced'
  BY <1>1, <1>3, RecordsAreJobs DEF Reset
<1>4. ASSUME NEW id \in Id, ClaimByID(id) PROVE AllPlaced'
  BY <1>0, <1>1, <1>4, RecordsAreJobs, StatusIsStored DEF ClaimByID
<1>5. ASSUME NEW id \in Id, NEW n \in Snapshots, MarkSucceeded(id, n) PROVE AllPlaced'
  <2>1. [status |-> "succeeded", attempts |-> n + 1, due |-> mem[id].due] \in Queue!Job
    BY <1>0, RecordsAreJobs
  <2>2. Idle /\ Stored(id) /\ UNCHANGED <<op, Unwatched>>
    BY <1>5 DEF MarkSucceeded, Active, Waiting, Processing, Stored
  <2> QED BY <1>1, <1>5, <2>1, <2>2 DEF MarkSucceeded
<1>6. ASSUME NEW id \in Id, NEW n \in Snapshots, NEW terminal \in BOOLEAN,
             MarkFailed(id, n, terminal)
      PROVE  AllPlaced'
  <2>1. Idle /\ Stored(id) /\ UNCHANGED <<op, Unwatched>>
    BY <1>6 DEF MarkFailed, Active, Waiting, Processing, Stored
  <2> QED BY <1>1, <1>6, <2>1, RecordsAreJobs DEF MarkFailed
<1>7. ASSUME NEW id \in op.todo, ClaimNext(id) PROVE AllPlaced'
  <2> DEFINE job == [mem[id] EXCEPT !.status = "processing"]
  <2>1. job \in Queue!Job /\ job.status # "absent"
    BY <1>0, RecordsAreJobs, StatusIsStored
  <2>2. op.kind = "claim" /\ up /\ Put(id, job) /\ UNCHANGED Unwatched /\ Ready(id)
    BY <1>0, <1>7 DEF ClaimNext, Inv, LoopsSeeWhatTheyChose
  <2>3. op'.kind # "rewrite" /\ op'.moved = {} /\ op.moved = {}
    BY <1>0, <1>7, <2>2 DEF ClaimNext, NoOp, Op
  <2>4. id \in Id /\ Stored(id)
    BY <1>0, <2>2 DEF Ready, Waiting, Stored
  <2> HIDE DEF job
  <2> QED BY <2>1, <2>2, <2>3, <2>4, PutPlaces DEF Unwatched
<1>8. ASSUME ClaimReady \/ ClaimDone \/ Archive \/ ArchiveNothing \/ RewriteDone
      PROVE  AllPlaced'
  <2>1. /\ UNCHANGED <<mem, disk, archiveFile, up, accepted, cut>>
        /\ op'.moved = {} /\ op.moved = {} /\ (op.kind # "rewrite" \/ op.todo = {})
    BY <1>0, <1>8 DEF ClaimReady, ClaimDone, Archive, ArchiveNothing, RewriteDone, Unwatched,
           Idle, NoOp
  <2> QED BY <2>1 DEF AllPlaced, Placed, OnDisk, Stored, Status
<1>9. ASSUME NEW id \in op.todo, ArchiveNext(id) PROVE AllPlaced'
  <2>1. /\ op.kind = "archive" /\ id \in Id /\ up /\ Stored(id)
        /\ UNCHANGED <<disk, up, accepted, cut>>
    BY <1>0, <1>9 DEF ArchiveNext, Inv, LoopsSeeWhatTheyChose, Stored
  <2>2. /\ \A k \in Id : mem'[k] = IF k = id THEN Absent ELSE mem[k]
        /\ \A k \in Id : archiveFile'[k] = IF k = id THEN archiveFile[k] + 1 ELSE archiveFile[k]
        /\ op'.kind = "archive" /\ op'.moved = op.moved \cup {id}
    BY <1>0, <1>9, <2>1 DEF ArchiveNext, Op
  <2>3. ASSUME NEW k \in accepted \ cut PROVE Placed(k)'
    <3>1. k \in Id /\ Placed(k)
      BY <1>0 DEF AllPlaced
    <3>2. CASE k = id
      BY <2>1, <2>2, <3>1, <3>2, AbsentStatus DEF Placed, Stored, Status
    <3>3. CASE k # id
      BY <2>1, <2>2, <3>1, <3>3 DEF Placed, OnDisk, Stored, Status
    <3> QED BY <3>2, <3>3
  <2> QED BY <2>1, <2>3 DEF AllPlaced
<1>10. ASSUME ArchiveFails PROVE AllPlaced'
  <2>1. /\ op.kind = "archive" /\ op'.kind = "none" /\ op'.moved = {}
        /\ UNCHANGED <<mem, disk, up, accepted>>
    BY <1>10 DEF ArchiveFails, NoOp
  <2>2. /\ cut \subseteq cut' /\ op.moved \subseteq cut'
        /\ \A k \in Id \ cut' : archiveFile'[k] = archiveFile[k]
    <3>1. CASE UNCHANGED archiveFile /\ cut' = cut \cup HalfMoved
      BY <2>1, <3>1 DEF HalfMoved
    <3>2. ASSUME NEW id \in op.todo, archiveFile' = [archiveFile EXCEPT ![id] = @ + 1],
                 cut' = cut \cup HalfMoved \cup {id}
          PROVE  /\ cut \subseteq cut' /\ op.moved \subseteq cut'
                 /\ \A k \in Id \ cut' : archiveFile'[k] = archiveFile[k]
      BY <1>0, <2>1, <3>2 DEF HalfMoved
    <3> QED BY <1>10, <3>1, <3>2 DEF ArchiveFails
  <2> QED BY <1>0, <2>1, <2>2 DEF AllPlaced, Placed, OnDisk, Stored, Status
<1>11. ASSUME Truncate PROVE AllPlaced'
  <2>1. /\ op.kind = "archive" /\ up /\ UNCHANGED <<mem, archiveFile, up, accepted, cut>>
        /\ \A id \in Id : disk'[id] = Absent
        /\ op'.kind = "rewrite" /\ op'.moved = {} /\ op'.todo = {id \in Id : Stored(id)}
    BY <1>0, <1>11 DEF Truncate, Unwatched, Empty
  <2> QED BY <1>0, <2>1 DEF AllPlaced, Placed, OnDisk, Stored, Status
<1>12. ASSUME NEW id \in op.todo, RewriteNext(id) PROVE AllPlaced'
  <2>1. /\ op.kind = "rewrite" /\ up /\ op.moved = {} /\ id \in Id
        /\ UNCHANGED <<mem, archiveFile, up, accepted>>
    BY <1>0, <1>12 DEF RewriteNext
  <2>2. CASE Append(id, mem[id]) /\ op' = [op EXCEPT !.todo = @ \ {id}] /\ UNCHANGED cut
    <3>1. op'.kind = "rewrite" /\ op'.moved = {} /\ op'.todo = op.todo \ {id}
      BY <1>0, <2>1, <2>2 DEF Op
    <3>2. \A k \in Id : disk'[k] = IF k = id THEN mem[k] ELSE disk[k]
      BY <1>0, <2>1, <2>2 DEF Append, WriteLine
    <3>3. ASSUME NEW k \in accepted \ cut PROVE Placed(k)'
      <4>1. k \in Id /\ Placed(k)
        BY <1>0 DEF AllPlaced
      <4> QED BY <2>1, <3>1, <3>2, <4>1 DEF Placed, OnDisk, Stored, Status
    <3> QED BY <2>1, <2>2, <3>3 DEF AllPlaced
  <2>3. CASE AppendFails(id, mem[id]) /\ op' = NoOp /\ cut' = cut \cup HalfMoved
    <3>1. cut' = cut \cup op.todo /\ op'.kind = "none" /\ op'.moved = {}
      BY <2>1, <2>3 DEF HalfMoved, NoOp
    <3>2. \A k \in Id \ {id} : disk'[k] = disk[k]
      BY <1>0, <2>1, <2>3 DEF AppendFails, WriteLine
    <3>3. ASSUME NEW k \in accepted \ cut' PROVE Placed(k)'
      <4>1. k \in Id \ {id} /\ k \notin op.todo /\ Placed(k)
        BY <1>0, <3>1 DEF AllPlaced
      <4> QED BY <2>1, <3>1, <3>2, <4>1 DEF Placed, OnDisk, Stored, Status
    <3> QED BY <2>1, <3>3 DEF AllPlaced
  <2> QED BY <1>12, <2>2, <2>3 DEF RewriteNext
<1>13. ASSUME NEW id \in Id, BackoffElapses(id) PROVE AllPlaced'
  <2>1. /\ up /\ Stored(id) /\ UNCHANGED <<op, archiveFile, up, accepted, cut>>
        /\ \A k \in Id \ {id} : mem'[k] = mem[k] /\ disk'[k] = disk[k]
        /\ mem'[id].status = mem[id].status
        /\ disk'[id].status = disk[id].status
    BY <1>0, <1>13 DEF BackoffElapses, Idle, Unwatched, Waiting, Stored, Status, Queue!Job
  <2>2. ASSUME NEW k \in accepted \ cut PROVE Placed(k)'
    <3>1. k \in Id /\ Placed(k)
      BY <1>0 DEF AllPlaced
    <3>2. CASE k = id
      BY <2>1, <3>1, <3>2, AbsentStatus DEF Placed, OnDisk, Stored, Status
    <3>3. CASE k # id
      BY <2>1, <3>1, <3>3 DEF Placed, OnDisk, Stored, Status
    <3> QED BY <3>2, <3>3
  <2> QED BY <2>1, <2>2 DEF AllPlaced
<1>14. ASSUME Crash PROVE AllPlaced'
  <2>1. /\ up /\ ~up' /\ op'.kind = "none" /\ op'.moved = {} /\ cut' = cut \cup HalfMoved
        /\ UNCHANGED <<disk, archiveFile, accepted>>
        /\ \A id \in Id : mem'[id] = Absent
    BY <1>14 DEF Crash, NoOp, Empty
  <2>2. op.moved \subseteq cut' /\ (op.kind = "rewrite" => op.todo \subseteq cut')
    BY <1>0, <2>1 DEF HalfMoved
  <2> QED BY <1>0, <2>1, <2>2 DEF AllPlaced, Placed, OnDisk
<1>15. ASSUME Start PROVE AllPlaced'
  <2>1. /\ ~up /\ up' /\ mem' = disk
        /\ UNCHANGED <<disk, op, archiveFile, accepted, cut>>
    BY <1>15 DEF Start
  <2>2. op.kind = "none" /\ op.moved = {}
    BY <1>0, <2>1 DEF Op
  <2> QED BY <1>0, <2>1, <2>2 DEF AllPlaced, Placed, OnDisk, Stored, Status
<1>16. ASSUME UNCHANGED vars PROVE AllPlaced'
  BY <1>16 DEF vars, AllPlaced, Placed, OnDisk, Stored, Status
<1> QED
  BY <1>2, <1>3, <1>4, <1>5, <1>6, <1>7, <1>8, <1>9, <1>10, <1>11, <1>12, <1>13, <1>14, <1>15,
     <1>16
  DEF Next

LEMMA PlacedHolds == Spec => [](Inv /\ AllPlaced)
<1>1. Init => AllPlaced
  BY DEF Init, AllPlaced
<1> QED BY <1>1, InitInv, NextInv, NextPlaces, PTL DEF Spec

\* For every way of failing and being killed, an accepted job is on a line of
\* the active file or of the archive, unless a rewrite has still to write its
\* line, or was cut short before it had.
THEOREM NeverForgottenHolds == Spec => []NeverForgotten
<1>1. Inv /\ AllPlaced => NeverForgotten
  BY AbsentStatus DEF Inv, TypeOK, AllPlaced, Placed, OnDisk, NeverForgotten
<1> QED BY <1>1, PlacedHolds, PTL

\* Wherever the program is killed and whichever writes fail: between operations
\* an accepted job is in exactly one of the two files, once, also after later
\* runs and restarts, unless it is itself one of those that a run which was cut
\* short had half moved.
THEOREM MovedOnceHolds == Spec => []MovedOnce
<1>1. Inv /\ AllPlaced => MovedOnce
  <2> SUFFICES ASSUME Inv, AllPlaced, Idle, NEW id \in accepted \ cut
      PROVE  \/ disk[id] # Absent /\ archiveFile[id] = 0
             \/ disk[id] = Absent /\ archiveFile[id] = 1
    BY DEF MovedOnce
  <2>1. Placed(id) /\ op.kind = "none" /\ op.moved = {}
    BY DEF AllPlaced, Idle, NoOp
  <2> QED BY <2>1, AbsentStatus DEF Placed, OnDisk
<1> QED BY <1>1, PlacedHolds, PTL
=============================================================================
