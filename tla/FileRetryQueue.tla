--------------------------- MODULE FileRetryQueue ---------------------------
(***************************************************************************)
(* The file backend of the retry queue: a map in memory and two append-    *)
(* only JSON-lines files, one for the active jobs, where the last line of  *)
(* a job wins, and one for the archive.  Operations run under the queue's  *)
(* mutex, but an operation that writes several lines can fail or be killed *)
(* between two of them, and an archive run truncates the active file and   *)
(* writes it again line by line.                                           *)
(*                                                                         *)
(* A file of lines is reduced to what load makes of it: the last line of   *)
(* each job, and whether a line that is cut off, or glued to the one after *)
(* it, makes the whole file unreadable.  (So does a line longer than the   *)
(* scanner of load takes, as that of a job with a long last_error; module  *)
(* Dispatch has such lines, for the logs of articles and deliveries.)      *)
(***************************************************************************)
EXTENDS Integers, FiniteSets

CONSTANTS
    Articles, Channels, Stamps, MaxAttempts,    \* as in RetryQueue
    Snapshots,      \* values of job.Attempts that callers pass to the marks
    WriteErrors,    \* may a write to the files fail (disk full)
    MaxCrashes,     \* bound: kills in a behaviour
    MaxErrors       \* bound: failed writes in a behaviour

ASSUME FileQueueAssumption ==
    /\ MaxAttempts \in Nat \ {0}
    /\ Snapshots \subseteq Nat
    /\ WriteErrors \in BOOLEAN
    /\ MaxCrashes \in Nat
    /\ MaxErrors \in Nat

VARIABLES
    mem,            \* q.jobs
    disk,           \* the active file: the job on the last line of each id
    tail,           \* how the active file ends, see TailState
    archiveFile,    \* the archive file: how many lines each id has
    up,             \* is the program running
    op              \* the operation that holds q.mu over several writes

\* Observation only.
VARIABLES
    accepted,       \* identifiers Enqueue has stored and returned nil for
    cut,            \* jobs an archive run that was cut short left half moved
    crashes, errors

vars == <<mem, disk, tail, archiveFile, up, op, accepted, cut, crashes, errors>>

\* The contract, seen through the memory while the program runs and through
\* the file while it does not.  A job counts as archived once it is in the
\* archive file and no longer among the jobs.
Queue == INSTANCE RetryQueue WITH
    jobs <- IF up THEN mem ELSE disk,
    archived <- {id \in [article: Articles, channel: Channels, stamp: Stamps] :
                   /\ archiveFile[id] > 0
                   /\ (IF up THEN mem ELSE disk)[id].status = "absent"}

Id == Queue!Id
Absent == Queue!Absent
Empty == [id \in Id |-> Absent]

Status(id) == mem[id].status
Waiting(id) == Status(id) \in {"queued", "retrying"}
Processing(id) == Status(id) = "processing"
Active(id) == Waiting(id) \/ Processing(id)
Stored(id) == Status(id) # "absent"
Ready(id) == Waiting(id) /\ mem[id].due

\* What holds q.mu: nothing, the loop of ClaimReady, the first loop of
\* ArchiveSucceededBefore, or rewriteActive; todo is what the loop has left, and
\* moved what the archive's loop has moved (the code counts them: archived).
Op == [kind: {"none", "claim", "archive", "rewrite"}, todo: SUBSET Id, moved: SUBSET Id]
NoOp == [kind |-> "none", todo |-> {}, moved |-> {}]
Idle == up /\ op = NoOp

Init ==
    /\ mem = Empty
    /\ disk = Empty
    /\ tail = "ended"
    /\ archiveFile = [id \in Id |-> 0]
    /\ up = TRUE
    /\ op = NoOp
    /\ accepted = {}
    /\ cut = {}
    /\ crashes = 0
    /\ errors = 0

-----------------------------------------------------------------------------
\* The file ends with a whole line, with one that lacks only its end and can
\* still be read, or it has a line that cannot be read.
TailState == {"ended", "bare", "broken"}

\* A line that lacks its end swallows the next one.
WriteLine(id, job) ==
    /\ disk' = [disk EXCEPT ![id] = job]
    /\ tail' = IF tail = "ended" THEN "ended" ELSE "broken"

\* append writes one line and syncs it.
Append(id, job) ==
    /\ WriteLine(id, job)
    /\ UNCHANGED errors

\* The write or the sync after it fails: nothing of the line, a part of it, all
\* but its end, or all of it is in the file.
AppendFails(id, job) ==
    /\ WriteErrors
    /\ errors < MaxErrors
    /\ errors' = errors + 1
    /\ \/ tail' \in {tail, "broken"} /\ UNCHANGED disk
       \/ /\ disk' = [disk EXCEPT ![id] = job]
          /\ tail' = IF tail = "ended" THEN "bare" ELSE "broken"
       \/ WriteLine(id, job)

\* Every operation on one job changes the map first and then appends; it does
\* not take the change back when the append fails.
Put(id, job) ==
    /\ mem' = [mem EXCEPT ![id] = job]
    /\ Append(id, job) \/ AppendFails(id, job)

Unwatched == <<archiveFile, up, accepted, cut, crashes>>

\* Mutant: a job that is being processed does not refuse another one.
EnqueueWhileProcessing(id) ==
    /\ Idle
    /\ ~Stored(id)
    /\ disk[id] = Absent
    /\ archiveFile[id] = 0
    /\ IF \E other \in Id : Queue!SameTarget(id, other) /\ Waiting(other)
         THEN UNCHANGED <<mem, disk, tail, errors, accepted>>
         ELSE /\ Put(id, Queue!NewJob)
              /\ accepted' = IF errors' = errors THEN accepted \cup {id} ELSE accepted
    /\ UNCHANGED <<archiveFile, up, op, cut, crashes>>

Enqueue(id) ==
    /\ Idle
    /\ ~Stored(id)
    /\ disk[id] = Absent
    /\ archiveFile[id] = 0
    /\ IF \E other \in Id : Queue!SameTarget(id, other) /\ Active(other)
         THEN UNCHANGED <<mem, disk, tail, errors, accepted>>
         ELSE /\ Put(id, Queue!NewJob)
              /\ accepted' = IF errors' = errors THEN accepted \cup {id} ELSE accepted
    /\ UNCHANGED <<archiveFile, up, op, cut, crashes>>

Reset(id) ==
    /\ Idle
    /\ Stored(id)
    /\ Put(id, [status |-> "queued", attempts |-> 0, due |-> TRUE])
    /\ UNCHANGED <<op, Unwatched>>

ClaimByID(id) ==
    /\ Idle
    /\ Stored(id)
    /\ ~Processing(id)
    /\ Put(id, [mem[id] EXCEPT !.status = "processing"])
    /\ UNCHANGED <<op, Unwatched>>

\* The caller is the retry processor, which has claimed the job; a reset may
\* have come in between (theorem KeepsContractHolds of RetryProcessorProofs).
MarkSucceeded(id, n) ==
    /\ Idle
    /\ Active(id)
    /\ Put(id, [status |-> "succeeded", attempts |-> n + 1, due |-> mem[id].due])
    /\ UNCHANGED <<op, Unwatched>>

MarkFailed(id, n, terminal) ==
    /\ Idle
    /\ Active(id)
    /\ Put(id, [status |-> IF terminal THEN "failed" ELSE "retrying",
                attempts |-> n + 1,
                due |-> FALSE])
    /\ UNCHANGED <<op, Unwatched>>

-----------------------------------------------------------------------------
\* ClaimReady walks the ready jobs up to the limit (any number of them) and
\* appends a line for each.
ClaimReady ==
    /\ Idle
    /\ \E S \in SUBSET {id \in Id : Ready(id)} :
         op' = [kind |-> "claim", todo |-> S, moved |-> {}]
    /\ UNCHANGED <<mem, disk, tail, errors, Unwatched>>

\* On a failed append it returns no jobs at all and leaves those it has
\* already taken in state processing.
ClaimNext(id) ==
    /\ op.kind = "claim"
    /\ id \in op.todo
    /\ Put(id, [mem[id] EXCEPT !.status = "processing"])
    /\ op' = IF errors' = errors THEN [op EXCEPT !.todo = @ \ {id}] ELSE NoOp
    /\ UNCHANGED Unwatched

ClaimDone ==
    /\ op.kind = "claim"
    /\ op.todo = {}
    /\ op' = NoOp
    /\ UNCHANGED <<mem, disk, tail, errors, Unwatched>>

\* ArchiveSucceededBefore: age and limit select any set of succeeded jobs.
Archive ==
    /\ Idle
    /\ \E S \in SUBSET {id \in Id : Status(id) = "succeeded"} :
         op' = [kind |-> "archive", todo |-> S, moved |-> {}]
    /\ UNCHANGED <<mem, disk, tail, errors, Unwatched>>

\* Jobs that the operation would leave half moved if it were cut short now: those
\* in both files, and those the rewrite has still to write.
HalfMoved == IF op.kind = "rewrite" THEN op.todo ELSE op.moved

\* Mutant: the job is deleted from the map and not appended to the archive.
ArchiveNextLost(id) ==
    /\ op.kind = "archive"
    /\ id \in op.todo
    /\ mem' = [mem EXCEPT ![id] = Absent]
    /\ op' = [op EXCEPT !.todo = @ \ {id}, !.moved = @ \cup {id}]
    /\ UNCHANGED <<disk, tail, archiveFile, up, accepted, cut, crashes, errors>>

\* Mutant: the run does not remember that it has moved a job.
ArchiveNextUnnoticed(id) ==
    /\ op.kind = "archive"
    /\ id \in op.todo
    /\ archiveFile' = [archiveFile EXCEPT ![id] = @ + 1]
    /\ mem' = [mem EXCEPT ![id] = Absent]
    /\ op' = [op EXCEPT !.todo = @ \ {id}]
    /\ UNCHANGED <<disk, tail, up, accepted, cut, crashes, errors>>

\* Each job is appended to the archive file and deleted from the map; the
\* active file still has it.
ArchiveNext(id) ==
    /\ op.kind = "archive"
    /\ id \in op.todo
    /\ archiveFile' = [archiveFile EXCEPT ![id] = @ + 1]
    /\ mem' = [mem EXCEPT ![id] = Absent]
    /\ op' = [op EXCEPT !.todo = @ \ {id}, !.moved = @ \cup {id}]
    /\ UNCHANGED <<disk, tail, up, accepted, cut, crashes, errors>>

\* A failed append ends the run, without a rewrite and without the deletion of
\* its job, whose line may be in the archive all the same.  (A cut-off line
\* there does no harm: nothing reads it.)  Nor is there a rewrite when the
\* truncation fails.
ArchiveFails ==
    /\ op.kind = "archive"
    /\ op.todo # {} \/ op.moved # {}
    /\ WriteErrors
    /\ errors < MaxErrors
    /\ errors' = errors + 1
    /\ \/ UNCHANGED archiveFile /\ cut' = cut \cup HalfMoved
       \/ \E id \in op.todo :
            /\ archiveFile' = [archiveFile EXCEPT ![id] = @ + 1]
            /\ cut' = cut \cup HalfMoved \cup {id}
    /\ op' = NoOp
    /\ UNCHANGED <<mem, disk, tail, up, accepted, crashes>>

ArchiveNothing ==
    /\ op.kind = "archive"
    /\ op.todo = {}
    /\ op.moved = {}
    /\ op' = NoOp
    /\ UNCHANGED <<mem, disk, tail, errors, Unwatched>>

\* rewriteActive: truncate, then write every job of the map.
Truncate ==
    /\ op.kind = "archive"
    /\ op.todo = {}
    /\ op.moved # {}
    /\ disk' = Empty
    /\ tail' = "ended"
    /\ op' = [kind |-> "rewrite", todo |-> {id \in Id : Stored(id)}, moved |-> {}]
    /\ UNCHANGED <<mem, errors, Unwatched>>

RewriteNext(id) ==
    /\ op.kind = "rewrite"
    /\ id \in op.todo
    /\ \/ /\ Append(id, mem[id])
          /\ op' = [op EXCEPT !.todo = @ \ {id}]
          /\ UNCHANGED cut
       \/ /\ AppendFails(id, mem[id])
          /\ op' = NoOp
          /\ cut' = cut \cup HalfMoved
    /\ UNCHANGED <<mem, archiveFile, up, accepted, crashes>>

RewriteDone ==
    /\ op.kind = "rewrite"
    /\ op.todo = {}
    /\ op' = NoOp
    /\ UNCHANGED <<mem, disk, tail, errors, Unwatched>>

-----------------------------------------------------------------------------
\* The clock passes next_attempt_at of a waiting job, and so of its last line.
BackoffElapses(id) ==
    /\ Idle
    /\ Waiting(id)
    /\ ~mem[id].due
    /\ mem' = [mem EXCEPT ![id].due = TRUE]
    /\ disk' = IF disk[id] = mem[id] THEN [disk EXCEPT ![id].due = TRUE] ELSE disk
    /\ UNCHANGED <<tail, op, errors, Unwatched>>

\* Killed at any moment, the loops and failed writes included.
Crash ==
    /\ up
    /\ crashes < MaxCrashes
    /\ crashes' = crashes + 1
    /\ up' = FALSE
    /\ mem' = Empty
    /\ op' = NoOp
    /\ cut' = cut \cup HalfMoved
    /\ UNCHANGED <<disk, tail, archiveFile, accepted, errors>>

\* NewFileRetryQueueAt loads the active file; a line it cannot read is fatal.
Start ==
    /\ ~up
    /\ tail # "broken"
    /\ up' = TRUE
    /\ mem' = disk
    /\ UNCHANGED <<disk, tail, archiveFile, op, accepted, cut, crashes, errors>>

Next ==
    \/ \E id \in Id : Enqueue(id) \/ Reset(id) \/ ClaimByID(id)
    \/ \E id \in Id, n \in Snapshots : MarkSucceeded(id, n)
    \/ \E id \in Id, n \in Snapshots, terminal \in BOOLEAN : MarkFailed(id, n, terminal)
    \/ ClaimReady
    \/ \E id \in op.todo : ClaimNext(id)
    \/ ClaimDone
    \/ Archive
    \/ \E id \in op.todo : ArchiveNext(id)
    \/ ArchiveFails
    \/ ArchiveNothing
    \/ Truncate
    \/ \E id \in op.todo : RewriteNext(id)
    \/ RewriteDone
    \/ \E id \in Id : BackoffElapses(id)
    \/ Crash
    \/ Start

Spec == Init /\ [][Next]_vars

-----------------------------------------------------------------------------
TypeOK ==
    /\ mem \in [Id -> Queue!Job]
    /\ disk \in [Id -> Queue!Job]
    /\ tail \in TailState
    /\ archiveFile \in [Id -> Nat]
    /\ up \in BOOLEAN
    /\ op \in Op
    /\ accepted \subseteq Id
    /\ cut \subseteq Id
    /\ crashes \in Nat
    /\ errors \in Nat

\* A kill while the active file is behind the map, after a failed write or in the
\* middle of an operation.
KilledBehind == up /\ ~up' /\ mem # disk

\* The file backend behaves as the queue of the contract, failed writes, kills and
\* restarts included: a batch claim is a sequence of claims, an archive run a
\* sequence of moves, a restart changes nothing.  Only a kill may change the jobs
\* in another way, and only if the file is behind the map; what runs after it keeps
\* to the contract again.
ImplementsQueue ==
    /\ Queue!QueueInit
    /\ [][Queue!QueueNext(Snapshots) \/ KilledBehind]_(Queue!queueVars)

\* An accepted job is on a line of the active file or of the archive at every
\* moment, whatever writes have failed and wherever the program was killed; only
\* a rewrite can lose one, and only one whose line it has still to write.
NeverForgotten ==
    \A id \in accepted :
        \/ disk[id] # Absent
        \/ archiveFile[id] > 0
        \/ op.kind = "rewrite" /\ id \in op.todo
        \/ id \in cut

\* Archive runs move jobs (docs/retry.md:94): between operations an accepted job
\* is in exactly one of the two files, once, whatever other jobs, failed writes
\* and kills have met, unless a run was cut short that had moved this very job
\* and not come to the rewrite, or had yet to write its line again.
MovedOnce ==
    Idle => \A id \in accepted \ cut :
        \/ disk[id] # Absent /\ archiveFile[id] = 0
        \/ disk[id] = Absent /\ archiveFile[id] = 1
=============================================================================
