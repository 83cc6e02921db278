--------------------------- MODULE RetryProcessor ---------------------------
(***************************************************************************)
(* Who calls the retry queue and in which order: the retry worker and the  *)
(* HTTP handlers run RetryProcessor.ProcessOnce and ProcessJob under the   *)
(* processor's mutex; the handlers for reset and archive, and the          *)
(* dispatcher that enqueues failed deliveries, call the queue directly.    *)
(* Between the claim of a job, the answer of its channel and the mark that *)
(* records it, any other caller may run, and the process may be killed.    *)
(*                                                                         *)
(* The file backend writes a line for every change and reads the lines     *)
(* back when it is started.  A write that fails leaves the line out, or in *)
(* (the sync has failed); lines that are cut off, and archive runs that    *)
(* stop half way, are the subject of module FileRetryQueue.                *)
(***************************************************************************)
EXTENDS RetryQueue

CONSTANTS
    Worker,         \* the goroutine of RetryWorker.loop
    Handlers,       \* goroutines of POST /v1/retries/run and /run-one
    Nobody,         \* the mutex is free
    BatchSize,      \* the worker's limit per tick
    Limits,         \* limits a handler may pass
    Durable,        \* jobs survive a restart (the file backend)
    MaxTries,       \* bound: operator requests on a job stop after this many tries
    MaxFaults,      \* bound: failing writes in a behaviour
    MaxRestarts     \* bound: restarts in a behaviour

Procs == {Worker} \cup Handlers

\* NewRetryWorker replaces a batch size that is not positive by 10, and parseInt
\* a request's limit that is not positive by the configured batch size (taken to
\* be positive here: Load replaces zero, nothing a negative one).
ASSUME ProcessorAssumption ==
    /\ Nobody \notin Procs
    /\ BatchSize \in Nat \ {0}
    /\ Limits \subseteq Nat \ {0}
    /\ Durable \in BOOLEAN
    /\ MaxTries \in Nat
    /\ MaxFaults \in Nat
    /\ MaxRestarts \in Nat

VARIABLES
    mu,             \* RetryProcessor.mu: who holds it
    batch,          \* the jobs each process has claimed and not yet marked
    retriable,      \* identifiers whose article is stored and channel configured
    disk            \* what the lines of the active file say of each job

\* Observation only: no guard of the program reads these.
VARIABLES
    tries,          \* rounds of processClaimed each job has been through
    delivered,      \* jobs whose channel accepted the article in some round
    abandoned,      \* jobs given up without a try (no article or no channel)
    asked,          \* jobs an operator has reset or run by identifier
    faults, restarts

lines == <<disk, asked, faults>>
observed == <<tries, delivered, abandoned, restarts>>
vars == <<jobs, archived, mu, batch, retriable, lines, observed>>

\* A claimed job as the loop of processClaimed sees it: the copy of attempts
\* taken at the claim, and the outcome of its round once known.
Verdict == {"pending", "succeeded", "retrying", "failed"}
Claimed == [id: Id, attempts: Nat, verdict: Verdict]
Claim(id) == [id |-> id, attempts |-> jobs[id].attempts, verdict |-> "pending"]

Held(p, id) == \E job \in batch[p] : job.id = id

Init ==
    /\ QueueInit
    /\ mu = Nobody
    /\ batch = [p \in Procs |-> {}]
    /\ retriable = Id
    /\ disk = jobs
    /\ asked = {}
    /\ faults = 0
    /\ tries = [id \in Id |-> 0]
    /\ delivered = {}
    /\ abandoned = {}
    /\ restarts = 0

-----------------------------------------------------------------------------
(* The lines of the active file.  Without files nobody reads disk.         *)

\* The jobs of ids get a line each.
Write(ids) == disk' = [id \in Id |-> IF id \in ids THEN jobs'[id] ELSE disk[id]]

Fault ==
    /\ Durable
    /\ faults < MaxFaults
    /\ faults' = faults + 1

\* The change of one job is written, or is not; in memory it is made either way.
Save(id) ==
    \/ Write({id}) /\ UNCHANGED faults
    \/ Fault /\ (Write({id}) \/ UNCHANGED disk)

Asked(id) == asked' = asked \cup {id}

-----------------------------------------------------------------------------
ProcessOnce(p, limit) ==
    /\ mu = Nobody
    /\ mu' = p
    /\ \E S \in Claimable(limit) :
         /\ ClaimReady(S)
         /\ Write(S)
         /\ batch' = [batch EXCEPT ![p] = {Claim(id) : id \in S}]
    /\ UNCHANGED <<retriable, asked, faults, observed>>

\* The line of one of the jobs cannot be written: ClaimReady returns none of
\* them, and those it has come to stay in state processing.
ProcessOnceFails(limit) ==
    /\ mu = Nobody
    /\ Fault
    /\ \E S \in Claimable(limit) : \E taken \in SUBSET S : \E id \in taken :
         /\ ClaimReady(taken)
         /\ Write(taken) \/ Write(taken \ {id})
    /\ UNCHANGED <<mu, batch, retriable, asked, observed>>

\* Mutant: a run-one request does not take the processor's mutex.
ProcessJobUnlocked(p, id) ==
    /\ tries[id] < MaxTries
    /\ mu' = p
    /\ ClaimByID(id)
    /\ Write({id})
    /\ batch' = [batch EXCEPT ![p] = {Claim(id)}]
    /\ Asked(id)
    /\ UNCHANGED <<retriable, faults, observed>>

ProcessJob(p, id) ==
    /\ tries[id] < MaxTries
    /\ mu = Nobody
    /\ mu' = p
    /\ ClaimByID(id)
    /\ Write({id})
    /\ batch' = [batch EXCEPT ![p] = {Claim(id)}]
    /\ Asked(id)
    /\ UNCHANGED <<retriable, faults, observed>>

ProcessJobFails(id) ==
    /\ tries[id] < MaxTries
    /\ mu = Nobody
    /\ Fault
    /\ ClaimByID(id)
    /\ Write({id}) \/ UNCHANGED disk
    /\ Asked(id)
    /\ UNCHANGED <<mu, batch, retriable, observed>>

\* processClaimed takes one job at a time: its outcome is marked before the
\* next one is looked at.
Current(p, job) ==
    /\ job \in batch[p]
    /\ job.verdict = "pending"
    /\ \A other \in batch[p] : other.verdict = "pending"

Judge(p, job, verdict) ==
    /\ batch' = [batch EXCEPT ![p] = (@ \ {job}) \cup {[job EXCEPT !.verdict = verdict]}]
    /\ tries' = [tries EXCEPT ![job.id] = @ + 1]

\* The channel accepts the article.
Deliver(p, job) ==
    /\ Current(p, job)
    /\ job.id \in retriable
    /\ Judge(p, job, "succeeded")
    /\ delivered' = delivered \cup {job.id}
    /\ UNCHANGED <<queueVars, mu, retriable, lines, abandoned, restarts>>

\* Mutant: the budget is compared before this round is counted.
FailDeliveryLate(p, job) ==
    /\ Current(p, job)
    /\ job.id \in retriable
    /\ Judge(p, job, IF job.attempts >= MaxAttempts THEN "failed" ELSE "retrying")
    /\ UNCHANGED <<queueVars, mu, retriable, lines, delivered, abandoned, restarts>>

\* Mutant: the delivery before the first retry is charged to the budget.
FailDeliveryEarly(p, job) ==
    /\ Current(p, job)
    /\ job.id \in retriable
    /\ Judge(p, job, IF job.attempts + 2 >= MaxAttempts THEN "failed" ELSE "retrying")
    /\ UNCHANGED <<queueVars, mu, retriable, lines, delivered, abandoned, restarts>>

\* It refuses, does not answer in time, or the request's context has expired.
FailDelivery(p, job) ==
    /\ Current(p, job)
    /\ job.id \in retriable
    /\ Judge(p, job, IF job.attempts + 1 >= MaxAttempts THEN "failed" ELSE "retrying")
    /\ UNCHANGED <<queueVars, mu, retriable, lines, delivered, abandoned, restarts>>

\* The article or the channel is gone: terminal whatever the budget.
Abandon(p, job) ==
    /\ Current(p, job)
    /\ job.id \notin retriable
    /\ Judge(p, job, "failed")
    /\ abandoned' = abandoned \cup {job.id}
    /\ UNCHANGED <<queueVars, mu, retriable, lines, delivered, restarts>>

\* The error of a mark that cannot be written is dropped.
Mark(p, job) ==
    /\ job \in batch[p]
    /\ job.verdict # "pending"
    /\ IF job.verdict = "succeeded"
         THEN MarkSucceeded(job.id, job.attempts)
         ELSE MarkFailed(job.id, job.attempts, job.verdict = "failed")
    /\ Save(job.id)
    /\ batch' = [batch EXCEPT ![p] = @ \ {job}]
    /\ UNCHANGED <<mu, retriable, asked, observed>>

Finish(p) ==
    /\ mu = p
    /\ batch[p] = {}
    /\ mu' = Nobody
    /\ UNCHANGED <<queueVars, batch, retriable, lines, observed>>

-----------------------------------------------------------------------------
Unclaimed == <<mu, batch, retriable, observed>>

\* A delivery of a stored article to a configured channel fails.  The stamp
\* makes the fingerprint new.
EnqueueFailed(id) ==
    /\ id \in retriable
    /\ ~Stored(id)
    /\ id \notin archived
    /\ Enqueue(id)
    /\ IF jobs' = jobs THEN UNCHANGED <<disk, faults>> ELSE Save(id)
    /\ UNCHANGED <<asked, Unclaimed>>

\* Mutant: a reset changes the job in memory only.
HandleResetUnsaved(id) ==
    /\ tries[id] < MaxTries
    /\ Reset(id)
    /\ Asked(id)
    /\ UNCHANGED <<disk, faults, Unclaimed>>

HandleReset(id) ==
    /\ tries[id] < MaxTries
    /\ Reset(id)
    /\ Save(id)
    /\ Asked(id)
    /\ UNCHANGED Unclaimed

\* An archive run that moves a job writes the whole active file again.
HandleArchive ==
    /\ \E S \in SUBSET Id : ArchiveSucceededBefore(S)
    /\ disk' = IF jobs' = jobs THEN disk ELSE jobs'
    /\ UNCHANGED <<asked, faults, Unclaimed>>

TimePasses(id) ==
    /\ BackoffElapses(id)
    /\ disk' = IF disk[id] = jobs[id] THEN [disk EXCEPT ![id].due = TRUE] ELSE disk
    /\ UNCHANGED <<asked, faults, Unclaimed>>

\* Mutant: at the start, jobs in state processing are queued again.
RestartRequeues ==
    /\ Durable
    /\ restarts < MaxRestarts
    /\ restarts' = restarts + 1
    /\ jobs' = [id \in Id |-> IF disk[id].status = "processing"
                               THEN [disk[id] EXCEPT !.status = "queued"] ELSE disk[id]]
    /\ mu' = Nobody
    /\ batch' = [p \in Procs |-> {}]
    /\ retriable' \in SUBSET Id
    /\ UNCHANGED <<archived, lines, tries, delivered, abandoned>>

\* The process is killed and started again on the same files, perhaps with a
\* channel switched off or without the article log.  With the memory backend
\* a restart is simply the initial state of another behaviour.
Restart ==
    /\ Durable
    /\ restarts < MaxRestarts
    /\ restarts' = restarts + 1
    /\ jobs' = disk
    /\ mu' = Nobody
    /\ batch' = [p \in Procs |-> {}]
    /\ retriable' \in SUBSET Id
    /\ UNCHANGED <<archived, lines, tries, delivered, abandoned>>

Round(p) ==
    \/ \E job \in batch[p] :
         Deliver(p, job) \/ FailDelivery(p, job) \/ Abandon(p, job) \/ Mark(p, job)
    \/ Finish(p)

Next ==
    \/ ProcessOnce(Worker, BatchSize)
    \/ \E h \in Handlers, limit \in Limits : ProcessOnce(h, limit)
    \/ \E h \in Handlers, id \in Id : ProcessJob(h, id)
    \/ \E limit \in Limits \cup {BatchSize} : ProcessOnceFails(limit)
    \/ \E id \in Id : ProcessJobFails(id)
    \/ \E p \in Procs : Round(p)
    \/ \E id \in Id : EnqueueFailed(id)
    \/ \E id \in Id : HandleReset(id)
    \/ HandleArchive
    \/ \E id \in Id : TimePasses(id)
    \/ Restart

Spec == Init /\ [][Next]_vars

\* A round that has started runs to its end (every channel call has a timeout).
\* The worker's ticker fires for ever, and a goroutine that waits for a
\* sync.Mutex gets it however often others take it in between (the mutex hands
\* over to a waiter that starves): strong fairness of its claim.
Fairness ==
    /\ SF_vars(ProcessOnce(Worker, BatchSize))
    /\ \A p \in Procs : WF_vars(Round(p))
    /\ \A id \in Id : WF_vars(TimePasses(id))

FairSpec == Spec /\ Fairness

-----------------------------------------------------------------------------
TypeOK ==
    /\ QueueTypeOK
    /\ mu \in Procs \cup {Nobody}
    /\ batch \in [Procs -> SUBSET Claimed]
    /\ retriable \subseteq Id
    /\ disk \in [Id -> Job]
    /\ asked \subseteq Id
    /\ faults \in Nat
    /\ tries \in [Id -> Nat]
    /\ delivered \subseteq Id
    /\ abandoned \subseteq Id
    /\ restarts \in Nat

\* A job that will be sent: it waits for its time, or a process has claimed it.
Pending(id) == Waiting(id) \/ \E p \in Procs : Held(p, id)

\* A job is in the hands of at most one process, once: neither a reset while
\* it is being sent nor a run-one request can start a second round of it
\* (RetryProcessor.mu held across processClaimed).
HeldOnce ==
    \A p, q \in Procs : \A job \in batch[p], other \in batch[q] :
        job.id = other.id => p = q /\ job = other

\* From its claim to its mark a job stays in the queue and stays active, so
\* that the mark finds it and Enqueue keeps refusing duplicates of it: no
\* archive run and no other caller can settle or remove it in between.
HeldIsActive ==
    \A p \in Procs : \A job \in batch[p] : Active(job.id)

\* A job in state processing is being processed: the 404 of run-one, "already
\* processing", is never given for a job that nobody will mark.
ProcessingIsHeld ==
    \A id \in Id : Processing(id) => \E p \in Procs : Held(p, id)

\* A job that will be retried has budget left, whatever mix of worker rounds,
\* run-one requests, resets and restarts it has been through.
BudgetLeft ==
    \A id \in Id : Waiting(id) => jobs[id].attempts < MaxAttempts

\* A job is given up only after MaxAttempts rounds of its own, or because its
\* article or channel is gone: stale copies and resets never use up a budget.
FailedIsSpent ==
    \A id \in Id :
        jobs[id].status = "failed" => tries[id] >= MaxAttempts \/ id \in abandoned

\* What the queue reports as succeeded, and what the archive run removes from
\* it, was accepted by its channel.
DoneMeansDelivered ==
    \A id \in Id :
        jobs[id].status = "succeeded" \/ id \in archived => id \in delivered

\* What its channel has accepted is not sent again of the program's own accord:
\* the claim's line is in the file before the article is sent, so neither a
\* kill nor a lost line can bring the job back to those that are to be retried.
SentOnce ==
    \A id \in Id : Waiting(id) /\ id \in delivered => id \in asked

\* An article has at most one job for a channel that will be sent without an
\* operator's request: Enqueue's guard against duplicates also holds after a
\* restart, whichever lines are missing then.
OneRetryPerTarget ==
    \A id, other \in Id \ asked :
        SameTarget(id, other) /\ Pending(id) /\ Pending(other) => id = other

\* No job is tried more often than its budget says unless an operator asks for
\* it: no lost line and no restart gives a job back a round it has used.
TriesWithinBudget == \A id \in Id \ asked : tries[id] <= MaxAttempts

\* The callers keep to the contract the backends assume of them: whatever they
\* interleave, each step is one operation of the queue, and a mark is made for
\* a job that is still active, with attempts read at its claim; or it is the
\* start of the program on its file.
KeepsContract ==
    [][\/ QueueNext({job.attempts : job \in UNION {batch[p] : p \in Procs}})
       \/ Durable /\ jobs' = disk /\ UNCHANGED archived]_queueVars

\* A reset of a job that nobody is sending is not lost: until a write fails,
\* such a job leaves the state queued only by a claim, restarts included.
ResetSticksUnheld ==
    [][\A id \in Id : faults = 0 /\ jobs[id].status = "queued" /\ (\A p \in Procs : ~Held(p, id)) =>
          \/ jobs'[id].status = "processing"
          \/ jobs'[id].status = "queued" /\ jobs'[id].attempts = jobs[id].attempts]_vars

\* Every job the queue accepts is eventually settled: it does not stay
\* queued, retrying or processing for ever.
Settles == \A id \in Id : Active(id) ~> ~Active(id)

-----------------------------------------------------------------------------
\* What the documentation says of this program.

\* docs/retry.md, Reset: "puts the job back into queued" and "resets attempts
\* to 0".  So a queued job leaves that state only by being claimed.
ResetSticks ==
    [][\A id \in Id : jobs[id].status = "queued" =>
          \/ jobs'[id].status = "processing"
          \/ jobs'[id].status = "queued" /\ jobs'[id].attempts = jobs[id].attempts]_vars
=============================================================================
