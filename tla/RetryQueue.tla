----------------------------- MODULE RetryQueue -----------------------------
(***************************************************************************)
(* The retry queue of hotnew: the state and the operations of              *)
(* domain.RetryQueue, as the memory and the file backend implement them.   *)
(* Every operation runs under the queue's own mutex, so each is one        *)
(* atomic action here.  The module holds no process of its own: the retry  *)
(* processor, the HTTP handlers and the dispatcher call these operations   *)
(* (module RetryProcessor).                                                *)
(*                                                                         *)
(* Abstractions.  A job identifier is a fingerprint of article, channel    *)
(* and time of the failed attempt, so it is the record of the three.       *)
(* Time is reduced to whether next_attempt_at has been reached (due).      *)
(* last_error, target and the timestamps shown to users are left out.      *)
(***************************************************************************)
EXTENDS Integers, FiniteSets

CONSTANTS
    Articles,       \* identifiers of articles
    Channels,       \* names of delivery channels
    Stamps,         \* times at which a delivery was attempted
    MaxAttempts     \* cfg.Retry.MaxAttempts, the budget of every job

\* NewTrackedDistributor replaces a budget that is not positive by 3.
ASSUME MaxAttemptsAssumption == MaxAttempts \in Nat \ {0}

VARIABLES
    jobs,           \* q.jobs: the job stored under each identifier
    archived        \* q.archived: identifiers moved to the archive

queueVars == <<jobs, archived>>

Id == [article: Articles, channel: Channels, stamp: Stamps]

\* "absent" stands for an identifier that is not in q.jobs.
Status == {"absent", "queued", "retrying", "processing", "succeeded", "failed"}

Job == [status: Status, attempts: Nat, due: BOOLEAN]

Absent == [status |-> "absent", attempts |-> 0, due |-> FALSE]

\* Mutant: the caller forgets the status.
NewJobNoStatus == [status |-> "", attempts |-> 0, due |-> FALSE]

\* The job TrackedDistributor hands over: no attempt used, and not due before
\* one base backoff has passed.
NewJob == [status |-> "queued", attempts |-> 0, due |-> FALSE]

QueueInit ==
    /\ jobs = [id \in Id |-> Absent]
    /\ archived = {}

-----------------------------------------------------------------------------
Stored(id) == jobs[id].status # "absent"
Waiting(id) == jobs[id].status \in {"queued", "retrying"}
Processing(id) == jobs[id].status = "processing"
Active(id) == Waiting(id) \/ Processing(id)

\* Mutant: jobs that have failed a retry are not looked at again.
ReadyOnlyQueued(id) == jobs[id].status = "queued" /\ jobs[id].due

Ready(id) == Waiting(id) /\ jobs[id].due

SameTarget(id, other) ==
    id.article = other.article /\ id.channel = other.channel

\* Enqueue drops the new job while the same article is still being retried on
\* the same channel.
Enqueue(id) ==
    /\ jobs' = IF \E other \in Id : SameTarget(id, other) /\ Active(other)
                 THEN jobs
                 ELSE [jobs EXCEPT ![id] = NewJob]
    /\ UNCHANGED archived

Reset(id) ==
    /\ Stored(id)
    /\ jobs' = [jobs EXCEPT ![id] = [status |-> "queued", attempts |-> 0, due |-> TRUE]]
    /\ UNCHANGED archived

\* Mutant: failed jobs are archived along with the succeeded ones.
ArchiveSettled(S) ==
    /\ \A id \in S : jobs[id].status \in {"succeeded", "failed"}
    /\ jobs' = [id \in Id |-> IF id \in S THEN Absent ELSE jobs[id]]
    /\ archived' = archived \cup S

\* Mutant: everything that is not waiting to be retried is archived.
ArchiveNotWaiting(S) ==
    /\ \A id \in S : Stored(id) /\ ~Waiting(id)
    /\ jobs' = [id \in Id |-> IF id \in S THEN Absent ELSE jobs[id]]
    /\ archived' = archived \cup S

\* Which succeeded jobs are old enough, and how many fit under the limit,
\* depends on times that are not modelled: any set of succeeded jobs.
ArchiveSucceededBefore(S) ==
    /\ \A id \in S : jobs[id].status = "succeeded"
    /\ jobs' = [id \in Id |-> IF id \in S THEN Absent ELSE jobs[id]]
    /\ archived' = archived \cup S

\* The sets ClaimReady may take.  A limit of zero means no limit; a negative one
\* never gets here (the file backend would panic on it, in make, before it
\* changes anything): the handlers' parseInt and the worker replace it.
\* The order in which ready jobs are considered is the backend's (insertion
\* order in memory, last update first in the file backend): any choice.
Claimable(limit) ==
    LET ready == {id \in Id : Ready(id)}
        n == Cardinality(ready)
        size == IF limit > 0 /\ limit < n THEN limit ELSE n
    IN {S \in SUBSET ready : Cardinality(S) = size}

ClaimReady(S) ==
    /\ jobs' = [id \in Id |->
                  IF id \in S THEN [jobs[id] EXCEPT !.status = "processing"] ELSE jobs[id]]
    /\ UNCHANGED archived

\* Every stored job that is not being processed can be claimed by identifier,
\* the settled ones and the ones that are not due included.
ClaimByID(id) ==
    /\ Stored(id)
    /\ ~Processing(id)
    /\ jobs' = [jobs EXCEPT ![id].status = "processing"]
    /\ UNCHANGED archived

\* The marks write what the caller computed from the copy it claimed
\* (attempts is that copy's), whatever the stored job has become since.
MarkSucceeded(id, attempts) ==
    /\ jobs' = IF Stored(id)
                 THEN [jobs EXCEPT ![id] =
                         [status |-> "succeeded",
                          attempts |-> attempts + 1,
                          due |-> @.due]]
                 ELSE jobs
    /\ UNCHANGED archived

\* Mutant: the status is written only for a terminal failure.
MarkFailedKeepingStatus(id, attempts, terminal) ==
    /\ jobs' = IF Stored(id)
                 THEN [jobs EXCEPT ![id] =
                         [status |-> IF terminal THEN "failed" ELSE @.status,
                          attempts |-> attempts + 1,
                          due |-> FALSE]]
                 ELSE jobs
    /\ UNCHANGED archived

MarkFailed(id, attempts, terminal) ==
    /\ jobs' = IF Stored(id)
                 THEN [jobs EXCEPT ![id] =
                         [status |-> IF terminal THEN "failed" ELSE "retrying",
                          attempts |-> attempts + 1,
                          due |-> FALSE]]
                 ELSE jobs
    /\ UNCHANGED archived

\* The clock passes next_attempt_at of a waiting job.
BackoffElapses(id) ==
    /\ Waiting(id)
    /\ ~jobs[id].due
    /\ jobs' = [jobs EXCEPT ![id].due = TRUE]
    /\ UNCHANGED archived

-----------------------------------------------------------------------------
\* The queue by itself, as the other components may rely on it: any caller may
\* call any operation.  A mark is made for a job its caller has claimed, with
\* a number of attempts it has read (theorem KeepsContractHolds).
QueueNext(snapshots) ==
    \/ \E id \in Id : ~Stored(id) /\ id \notin archived /\ Enqueue(id)
    \/ \E id \in Id : Reset(id)
    \/ \E S \in SUBSET Id : ArchiveSucceededBefore(S)
    \/ \E S \in SUBSET {id \in Id : Ready(id)} : ClaimReady(S)
    \/ \E id \in Id : ClaimByID(id)
    \/ \E id \in Id, n \in snapshots : Active(id) /\ MarkSucceeded(id, n)
    \/ \E id \in Id, n \in snapshots, terminal \in BOOLEAN :
          Active(id) /\ MarkFailed(id, n, terminal)
    \/ \E id \in Id : BackoffElapses(id)

QueueTypeOK ==
    /\ jobs \in [Id -> Job]
    /\ archived \subseteq Id
=============================================================================
