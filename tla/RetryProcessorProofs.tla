------------------------ MODULE RetryProcessorProofs ------------------------
(***************************************************************************)
(* Theorems about RetryProcessor, for every set of articles, channels and  *)
(* handlers and every value of the budget and of the limits.               *)
(***************************************************************************)
EXTENDS RetryProcessor, TLAPS

USE MaxAttemptsAssumption, ProcessorAssumption

-----------------------------------------------------------------------------
\* A claimed job keeps its identifier and its copy of attempts when judged.
LEMMA JudgedIsClaimed ==
    ASSUME NEW job \in Claimed, NEW v \in Verdict
    PROVE  /\ [job EXCEPT !.verdict = v] \in Claimed
           /\ [job EXCEPT !.verdict = v].id = job.id
           /\ [job EXCEPT !.verdict = v].attempts = job.attempts
           /\ [job EXCEPT !.verdict = v].verdict = v
BY DEF Claimed

\* The copy made at a claim is a claimed job.
LEMMA ClaimIsClaimed ==
    ASSUME QueueTypeOK, NEW id \in Id
    PROVE  /\ Claim(id) \in Claimed
           /\ Claim(id).id = id
           /\ Claim(id).attempts = jobs[id].attempts
           /\ Claim(id).verdict = "pending"
BY DEF QueueTypeOK, Claim, Claimed, Job, Verdict

\* A mark leaves the queue well typed.
LEMMA MarkType ==
    ASSUME QueueTypeOK, NEW id \in Id, NEW n \in Nat, NEW t \in BOOLEAN,
           MarkSucceeded(id, n) \/ MarkFailed(id, n, t)
    PROVE  QueueTypeOK'
<1>1. n + 1 \in Nat
  OBVIOUS
<1>2. CASE MarkSucceeded(id, n)
  BY <1>1, <1>2 DEF QueueTypeOK, MarkSucceeded, Job, Status
<1>3. CASE MarkFailed(id, n, t)
  BY <1>1, <1>3 DEF QueueTypeOK, MarkFailed, Job, Status
<1> QED BY <1>2, <1>3

\* A claim by identifier is a claim of one job.
LEMMA ClaimOne ==
    ASSUME QueueTypeOK, NEW id \in Id, ClaimByID(id)
    PROVE  ClaimReady({id})
BY DEF QueueTypeOK, ClaimByID, ClaimReady

\* Writing lines leaves the file well typed.
LEMMA WriteType ==
    ASSUME disk \in [Id -> Job], QueueTypeOK', NEW ids, Write(ids)
    PROVE  disk' \in [Id -> Job]
BY DEF Write, QueueTypeOK

LEMMA SaveType ==
    ASSUME disk \in [Id -> Job], faults \in Nat, QueueTypeOK', NEW id, Save(id)
    PROVE  disk' \in [Id -> Job] /\ faults' \in Nat
BY WriteType DEF Save, Fault

\* Type correctness is preserved by every step.
LEMMA TypeStep == TypeOK /\ [Next]_vars => TypeOK'
<1> SUFFICES ASSUME TypeOK, [Next]_vars
             PROVE  TypeOK'
  OBVIOUS
<1> USE DEF TypeOK, observed, lines, queueVars
<1>1. ASSUME NEW p \in Procs, NEW limit \in Int, ProcessOnce(p, limit)
      PROVE  TypeOK'
  <2>1. PICK S \in SUBSET Id :
           /\ ClaimReady(S) /\ Write(S)
           /\ batch' = [batch EXCEPT ![p] = {Claim(id) : id \in S}]
    BY <1>1 DEF ProcessOnce, Claimable
  <2>2. QueueTypeOK'
    BY <2>1 DEF ClaimReady, QueueTypeOK, Job, Status
  <2>3. {Claim(id) : id \in S} \in SUBSET Claimed
    BY ClaimIsClaimed
  <2> QED BY <1>1, <2>1, <2>2, <2>3, WriteType DEF ProcessOnce
<1>2. ASSUME NEW p \in Procs, NEW id \in Id, ProcessJob(p, id)
      PROVE  TypeOK'
  <2>1. QueueTypeOK'
    BY <1>2 DEF ProcessJob, ClaimByID, QueueTypeOK, Job, Status
  <2> QED BY <1>2, <2>1, ClaimIsClaimed, WriteType DEF ProcessJob, Asked
<1>3. ASSUME NEW p \in Procs, NEW job \in batch[p],
             Deliver(p, job) \/ FailDelivery(p, job) \/ Abandon(p, job)
      PROVE  TypeOK'
  <2>1. job \in Claimed
    OBVIOUS
  <2>2. PICK v \in Verdict : Judge(p, job, v)
    <3>1. CASE Deliver(p, job)
      BY <3>1 DEF Deliver, Verdict
    <3>2. CASE FailDelivery(p, job)
      <4> DEFINE v == IF job.attempts + 1 >= MaxAttempts THEN "failed" ELSE "retrying"
      <4>1. v \in Verdict
        BY DEF Verdict
      <4>2. Judge(p, job, v)
        BY <3>2 DEF FailDelivery
      <4> QED BY <4>1, <4>2
    <3>3. CASE Abandon(p, job)
      BY <3>3 DEF Abandon, Verdict
    <3> QED BY <1>3, <3>1, <3>2, <3>3
  <2>3. batch' \in [Procs -> SUBSET Claimed]
    BY <2>1, <2>2, JudgedIsClaimed DEF Judge
  <2>4. job.id \in Id
    BY <2>1 DEF Claimed
  <2>5. tries' \in [Id -> Nat]
    BY <2>2, <2>4 DEF Judge
  <2>6. /\ UNCHANGED <<jobs, archived, mu, retriable, disk, asked, faults, restarts>>
        /\ delivered' \in {delivered, delivered \cup {job.id}}
        /\ abandoned' \in {abandoned, abandoned \cup {job.id}}
    BY <1>3 DEF Deliver, FailDelivery, Abandon
  <2> QED BY <2>3, <2>4, <2>5, <2>6 DEF QueueTypeOK
<1>4. ASSUME NEW p \in Procs, NEW job \in batch[p], Mark(p, job)
      PROVE  TypeOK'
  <2>1. job.id \in Id /\ job.attempts \in Nat
    BY DEF Claimed
  <2>2. QueueTypeOK'
    BY <1>4, <2>1, MarkType DEF Mark
  <2> QED BY <1>4, <2>2, SaveType DEF Mark
<1>5. ASSUME NEW p \in Procs, Finish(p)
      PROVE  TypeOK'
  BY <1>5 DEF Finish, QueueTypeOK
<1>6. ASSUME NEW id \in Id, EnqueueFailed(id)
      PROVE  TypeOK'
  <2>1. QueueTypeOK'
    BY <1>6 DEF EnqueueFailed, Enqueue, NewJob, QueueTypeOK, Job, Status
  <2> QED BY <1>6, <2>1, SaveType DEF EnqueueFailed, Unclaimed
<1>7. ASSUME NEW id \in Id, HandleReset(id)
      PROVE  TypeOK'
  <2>1. QueueTypeOK'
    BY <1>7 DEF HandleReset, Reset, QueueTypeOK, Job, Status
  <2> QED BY <1>7, <2>1, SaveType DEF HandleReset, Unclaimed, Asked
<1>8. ASSUME HandleArchive
      PROVE  TypeOK'
  <2>1. QueueTypeOK'
    BY <1>8 DEF HandleArchive, ArchiveSucceededBefore, Absent, QueueTypeOK, Job, Status
  <2> QED BY <1>8, <2>1 DEF HandleArchive, Unclaimed, QueueTypeOK
<1>9. ASSUME NEW id \in Id, TimePasses(id)
      PROVE  TypeOK'
  <2>1. QueueTypeOK'
    BY <1>9 DEF TimePasses, BackoffElapses, QueueTypeOK, Job, Status
  <2>2. [disk[id] EXCEPT !.due = TRUE] \in Job
    BY DEF Job
  <2>3. disk' \in [Id -> Job]
    BY <1>9, <2>2 DEF TimePasses
  <2> QED BY <1>9, <2>1, <2>3 DEF TimePasses, Unclaimed
<1>10. ASSUME Restart
       PROVE  TypeOK'
  BY <1>10 DEF Restart, QueueTypeOK
<1>11. ASSUME UNCHANGED vars
       PROVE  TypeOK'
  BY <1>11 DEF vars, QueueTypeOK
<1>12. ASSUME NEW S \in SUBSET Id, ClaimReady(S), Fault, NEW ids, Write(ids) \/ UNCHANGED disk,
              asked' \in SUBSET Id, UNCHANGED <<mu, batch, retriable, observed>>
       PROVE  TypeOK'
  <2>1. QueueTypeOK'
    BY <1>12 DEF ClaimReady, QueueTypeOK, Job, Status
  <2> QED BY <1>12, <2>1, WriteType DEF Fault
<1>13. ASSUME NEW limit \in Int, ProcessOnceFails(limit)
       PROVE  TypeOK'
  <2>1. PICK taken \in SUBSET Id, id \in Id :
           ClaimReady(taken) /\ (Write(taken) \/ Write(taken \ {id}))
    BY <1>13 DEF ProcessOnceFails, Claimable
  <2> QED BY <1>12, <1>13, <2>1 DEF ProcessOnceFails
<1>14. ASSUME NEW id \in Id, ProcessJobFails(id)
       PROVE  TypeOK'
  BY <1>12, <1>14, ClaimOne DEF ProcessJobFails, Asked
<1> QED
  BY <1>1, <1>2, <1>3, <1>4, <1>5, <1>6, <1>7, <1>8, <1>9, <1>10, <1>11, <1>13, <1>14
  DEF Next, Round, Procs

\* Every reachable state is well typed.
THEOREM TypeCorrect == Spec => []TypeOK
<1>1. Init => TypeOK
  BY DEF Init, TypeOK, QueueInit, QueueTypeOK, Absent, Job, Status, Procs
<1> QED BY <1>1, TypeStep, PTL DEF Spec

-----------------------------------------------------------------------------
\* Only the holder of the mutex has claimed jobs, and each of them once.
Exclusive ==
    /\ \A p \in Procs : mu # p => batch[p] = {}
    /\ \A p \in Procs : \A j, k \in batch[p] : j.id = k.id => j = k

LEMMA ExclusiveStep == TypeOK /\ Exclusive /\ [Next]_vars => Exclusive'
<1> SUFFICES ASSUME TypeOK, Exclusive, [Next]_vars
             PROVE  Exclusive'
  OBVIOUS
<1> USE DEF Exclusive
<1>1. batch \in [Procs -> SUBSET Claimed] /\ mu \in Procs \cup {Nobody}
  BY DEF TypeOK
<1>2. ASSUME NEW p \in Procs, mu = Nobody, mu' = p, NEW S \in SUBSET Id,
             batch' = [batch EXCEPT ![p] = {Claim(id) : id \in S}]
      PROVE  Exclusive'
  <2>1. \A q \in Procs : q # p => batch'[q] = {}
    BY <1>1, <1>2
  <2>2. \A j, k \in batch'[p] : j.id = k.id => j = k
    BY <1>1, <1>2 DEF Claim
  <2> QED BY <1>2, <2>1, <2>2
<1>3. ASSUME NEW p \in Procs, NEW limit \in Int, ProcessOnce(p, limit)
      PROVE  Exclusive'
  BY <1>2, <1>3 DEF ProcessOnce, Claimable
<1>4. ASSUME NEW p \in Procs, NEW id \in Id, ProcessJob(p, id)
      PROVE  Exclusive'
  <2>1. {Claim(id)} = {Claim(i) : i \in {id}}
    OBVIOUS
  <2> QED BY <1>2, <1>4, <2>1 DEF ProcessJob
<1>5. ASSUME NEW p \in Procs, NEW job \in batch[p], NEW v \in Verdict,
             Judge(p, job, v), UNCHANGED mu
      PROVE  Exclusive'
  <2> DEFINE judged == [job EXCEPT !.verdict = v]
  <2>1. judged.id = job.id
    BY <1>1, JudgedIsClaimed
  <2>2. batch' = [batch EXCEPT ![p] = (batch[p] \ {job}) \cup {judged}]
    BY <1>5 DEF Judge
  <2>3. mu = p
    OBVIOUS
  <2>4. \A q \in Procs : q # p => batch'[q] = {}
    BY <1>1, <2>2, <2>3
  <2>5. batch'[p] = (batch[p] \ {job}) \cup {judged}
    BY <1>1, <2>2
  <2>6. \A j, k \in batch'[p] : j.id = k.id => j = k
    <3> HIDE DEF judged
    <3> QED BY <2>1, <2>5
  <2> QED BY <1>5, <2>3, <2>4, <2>6
<1>6. ASSUME NEW p \in Procs, NEW job \in batch[p], Mark(p, job)
      PROVE  Exclusive'
  <2>1. batch' = [batch EXCEPT ![p] = batch[p] \ {job}] /\ mu' = mu
    BY <1>6 DEF Mark
  <2> QED BY <1>1, <2>1
<1>7. ASSUME NEW p \in Procs, Finish(p)
      PROVE  Exclusive'
  BY <1>7 DEF Finish
<1>8. ASSUME NEW p \in Procs, Round(p)
      PROVE  Exclusive'
  <2>1. ASSUME NEW job \in batch[p], Deliver(p, job)
        PROVE  Exclusive'
    BY <1>5, <2>1 DEF Deliver, Verdict
  <2>2. ASSUME NEW job \in batch[p], FailDelivery(p, job)
        PROVE  Exclusive'
    <3> DEFINE v == IF job.attempts + 1 >= MaxAttempts THEN "failed" ELSE "retrying"
    <3>1. v \in Verdict
      BY DEF Verdict
    <3>2. Judge(p, job, v) /\ UNCHANGED mu
      BY <2>2 DEF FailDelivery
    <3> QED BY <1>5, <3>1, <3>2
  <2>3. ASSUME NEW job \in batch[p], Abandon(p, job)
        PROVE  Exclusive'
    BY <1>5, <2>3 DEF Abandon, Verdict
  <2> QED BY <1>6, <1>7, <1>8, <2>1, <2>2, <2>3 DEF Round
<1>9. ASSUME UNCHANGED <<mu, batch>>
      PROVE  Exclusive'
  BY <1>9
<1>10. CASE Restart
  BY <1>10 DEF Restart
<1>11. ASSUME NEW limit, ProcessOnceFails(limit)
       PROVE  Exclusive'
  BY <1>9, <1>11 DEF ProcessOnceFails
<1>12. ASSUME NEW id \in Id, ProcessJobFails(id)
       PROVE  Exclusive'
  BY <1>9, <1>12 DEF ProcessJobFails
<1>13. ASSUME NEW id \in Id, EnqueueFailed(id) \/ HandleReset(id) \/ TimePasses(id)
       PROVE  Exclusive'
  BY <1>9, <1>13 DEF EnqueueFailed, HandleReset, TimePasses, Unclaimed
<1>14. CASE HandleArchive \/ UNCHANGED vars
  BY <1>9, <1>14 DEF HandleArchive, vars, Unclaimed
<1> QED
  BY <1>3, <1>4, <1>8, <1>10, <1>11, <1>12, <1>13, <1>14 DEF Next, Procs

\* HeldOnce, for every number of handlers: the mutex makes it so.
THEOREM HeldOnceHolds == Spec => []HeldOnce
<1>1. Init => TypeOK /\ Exclusive
  BY DEF Init, TypeOK, QueueInit, QueueTypeOK, Absent, Job, Status, Procs, Exclusive
<1>2. TypeOK /\ Exclusive => HeldOnce
  BY DEF Exclusive, HeldOnce, TypeOK
<1> QED BY <1>1, <1>2, TypeStep, ExclusiveStep, PTL DEF Spec

-----------------------------------------------------------------------------
\* What is known of a job in the hands of a process.
HeldAccounted ==
    \A p \in Procs : \A job \in batch[p] :
        /\ Active(job.id)
        /\ job.attempts + (IF job.verdict = "pending" THEN 0 ELSE 1) <= tries[job.id]
        /\ job.verdict = "retrying" => job.attempts + 1 < MaxAttempts
        /\ job.verdict = "failed" =>
              job.attempts + 1 >= MaxAttempts \/ job.id \in abandoned
        /\ job.verdict = "succeeded" => job.id \in delivered

\* What is known of a stored job: the rounds it has used are rounds it has had.
JobsAccounted ==
    \A id \in Id :
        /\ jobs[id].attempts <= tries[id]
        /\ Waiting(id) => jobs[id].attempts < MaxAttempts
        /\ jobs[id].status = "failed" => tries[id] >= MaxAttempts \/ id \in abandoned
        /\ jobs[id].status = "succeeded" \/ id \in archived => id \in delivered

\* And of the lines of the file, whichever of them are old.
LinesAccounted ==
    \A id \in Id :
        /\ disk[id].attempts <= tries[id]
        /\ disk[id].status \in {"queued", "retrying"} => disk[id].attempts < MaxAttempts
        /\ disk[id].status = "failed" => tries[id] >= MaxAttempts \/ id \in abandoned
        /\ disk[id].status = "succeeded" => id \in delivered

IInv == TypeOK /\ Exclusive /\ HeldAccounted /\ JobsAccounted /\ LinesAccounted

\* A step leaves the line of a job, or lets its time pass, or writes the job as
\* it now is.
LEMMA LinesEffect ==
    ASSUME TypeOK, [Next]_vars, NEW id \in Id
    PROVE  \/ disk'[id] = jobs'[id]
           \/ /\ disk'[id].status = disk[id].status
              /\ disk'[id].attempts = disk[id].attempts
<1> USE DEF TypeOK, lines, Asked
<1> DEFINE Effect ==
        \/ disk'[id] = jobs'[id]
        \/ /\ disk'[id].status = disk[id].status
           /\ disk'[id].attempts = disk[id].attempts
<1>1. ASSUME NEW ids, Write(ids) PROVE Effect
  BY <1>1 DEF Write
<1>2. ASSUME NEW other, Save(other) PROVE Effect
  BY <1>1, <1>2 DEF Save
<1>3. ASSUME NEW other \in Id, TimePasses(other) PROVE Effect
  BY <1>3 DEF TimePasses, Job
<1>4. ASSUME NEW p \in Procs, Round(p) PROVE Effect
  BY <1>2, <1>4 DEF Round, Deliver, FailDelivery, Abandon, Mark, Finish
<1>5. CASE HandleArchive
  BY <1>5 DEF HandleArchive
<1>6. CASE Restart \/ UNCHANGED vars
  BY <1>6 DEF Restart, vars
<1>7. ASSUME NEW p, NEW limit, ProcessOnce(p, limit) PROVE Effect
  BY <1>1, <1>7 DEF ProcessOnce
<1>8. ASSUME NEW p, NEW other \in Id, ProcessJob(p, other) PROVE Effect
  BY <1>1, <1>8 DEF ProcessJob
<1>9. ASSUME NEW limit, ProcessOnceFails(limit) PROVE Effect
  BY <1>1, <1>9 DEF ProcessOnceFails
<1>10. ASSUME NEW other \in Id, ProcessJobFails(other) PROVE Effect
  BY <1>1, <1>10 DEF ProcessJobFails
<1>11. ASSUME NEW other \in Id, EnqueueFailed(other) \/ HandleReset(other) PROVE Effect
  BY <1>2, <1>11 DEF EnqueueFailed, HandleReset
<1> QED
  BY <1>3, <1>4, <1>5, <1>6, <1>7, <1>8, <1>9, <1>10, <1>11 DEF Next

\* What is observed only grows.
LEMMA ObservedGrows ==
    ASSUME TypeOK, [Next]_vars
    PROVE  /\ \A id \in Id : tries[id] <= tries'[id]
           /\ delivered \subseteq delivered' /\ abandoned \subseteq abandoned'
           /\ archived \subseteq archived' /\ asked \subseteq asked'
<1> USE DEF TypeOK, observed, lines, queueVars, Unclaimed, Asked
<1>1. ASSUME NEW p \in Procs, NEW job \in batch[p], NEW v, Judge(p, job, v)
      PROVE  \A id \in Id : tries[id] <= tries'[id]
  <2>1. job.id \in Id
    BY DEF Claimed
  <2> QED BY <1>1, <2>1 DEF Judge
<1>2. \A id \in Id : tries[id] \in Nat
  OBVIOUS
<1>3. ASSUME NEW p \in Procs, Round(p)
      PROVE  (\A id \in Id : tries[id] <= tries'[id]) /\ UNCHANGED <<archived, asked>>
             /\ delivered \subseteq delivered' /\ abandoned \subseteq abandoned'
  <2>1. ASSUME NEW job \in batch[p], Deliver(p, job) \/ FailDelivery(p, job) \/ Abandon(p, job)
        PROVE  /\ \A id \in Id : tries[id] <= tries'[id]
               /\ UNCHANGED <<archived, asked>>
               /\ delivered \subseteq delivered' /\ abandoned \subseteq abandoned'
    BY <1>1, <2>1 DEF Deliver, FailDelivery, Abandon
  <2>2. ASSUME NEW job \in batch[p], Mark(p, job)
        PROVE  UNCHANGED <<archived, asked, tries, delivered, abandoned>>
    BY <2>2 DEF Mark, MarkSucceeded, MarkFailed
  <2>3. Finish(p) => UNCHANGED <<archived, asked, tries, delivered, abandoned>>
    BY DEF Finish
  <2> QED BY <1>2, <1>3, <2>1, <2>2, <2>3 DEF Round
<1>4. ASSUME NEW p \in Procs, NEW limit, ProcessOnce(p, limit) \/ ProcessOnceFails(limit)
      PROVE  UNCHANGED <<archived, asked, tries, delivered, abandoned>>
  BY <1>4 DEF ProcessOnce, ProcessOnceFails, ClaimReady
<1>5. ASSUME NEW p \in Procs, NEW id \in Id, ProcessJob(p, id) \/ ProcessJobFails(id)
      PROVE  UNCHANGED <<archived, tries, delivered, abandoned>> /\ asked \subseteq asked'
  BY <1>5 DEF ProcessJob, ProcessJobFails, ClaimByID
<1>6. ASSUME NEW id \in Id, EnqueueFailed(id) \/ HandleReset(id) \/ TimePasses(id)
      PROVE  UNCHANGED <<archived, tries, delivered, abandoned>> /\ asked \subseteq asked'
  BY <1>6 DEF EnqueueFailed, Enqueue, HandleReset, Reset, TimePasses, BackoffElapses
<1>7. CASE HandleArchive \/ Restart \/ UNCHANGED vars
  BY <1>2, <1>7 DEF HandleArchive, ArchiveSucceededBefore, Restart, vars
<1>8. tries' = tries => \A id \in Id : tries[id] <= tries'[id]
  BY <1>2
<1>9. CASE (\E p \in Procs : Round(p)) \/ HandleArchive \/ Restart \/ UNCHANGED vars
  BY <1>3, <1>7, <1>9
<1>10. CASE \/ \E p \in Procs, limit \in Limits \cup {BatchSize} :
                ProcessOnce(p, limit) \/ ProcessOnceFails(limit)
            \/ \E p \in Procs, id \in Id : ProcessJob(p, id) \/ ProcessJobFails(id)
  BY <1>4, <1>5, <1>8, <1>10
<1>11. CASE \E id \in Id : EnqueueFailed(id) \/ HandleReset(id) \/ TimePasses(id)
  BY <1>6, <1>8, <1>11
<1> QED
  BY <1>9, <1>10, <1>11, Zenon DEF Next, Procs

LEMMA LinesStep ==
    ASSUME TypeOK, LinesAccounted, [Next]_vars, JobsAccounted'
    PROVE  LinesAccounted'
<1> SUFFICES ASSUME NEW id \in Id
             PROVE  /\ disk'[id].attempts <= tries'[id]
                    /\ disk'[id].status \in {"queued", "retrying"} =>
                          disk'[id].attempts < MaxAttempts
                    /\ disk'[id].status = "failed" =>
                          tries'[id] >= MaxAttempts \/ id \in abandoned'
                    /\ disk'[id].status = "succeeded" => id \in delivered'
  BY DEF LinesAccounted
<1>1. CASE disk'[id] = jobs'[id]
  BY <1>1 DEF JobsAccounted, Waiting
<1>2. CASE disk'[id].status = disk[id].status /\ disk'[id].attempts = disk[id].attempts
  <2>1. /\ disk[id].attempts \in Nat /\ tries[id] \in Nat /\ tries'[id] \in Nat
        /\ tries[id] <= tries'[id] /\ abandoned \subseteq abandoned'
        /\ delivered \subseteq delivered'
    BY TypeStep, ObservedGrows DEF TypeOK, Job
  <2> QED BY <1>2, <2>1 DEF LinesAccounted
<1> QED BY <1>1, <1>2, LinesEffect

\* A claim takes a faithful copy, so what holds of the stored jobs holds of it.
LEMMA ClaimAccounted ==
    ASSUME IInv, NEW p \in Procs, NEW S \in SUBSET Id,
           mu = Nobody,
           ClaimReady(S),
           batch' = [batch EXCEPT ![p] = {Claim(id) : id \in S}],
           UNCHANGED observed
    PROVE  HeldAccounted' /\ JobsAccounted'
<1> USE DEF IInv, TypeOK, observed
<1>1. jobs \in [Id -> Job]
  BY DEF QueueTypeOK
<1>2. \A id \in Id :
        /\ jobs'[id].attempts = jobs[id].attempts
        /\ jobs'[id].status = IF id \in S THEN "processing" ELSE jobs[id].status
  BY <1>1 DEF ClaimReady, Job
<1>3. JobsAccounted'
  BY <1>2 DEF JobsAccounted, Waiting, ClaimReady
<1>4. ASSUME NEW q \in Procs, NEW job \in batch'[q]
      PROVE  \E id \in S : job = Claim(id)
  BY <1>4 DEF Exclusive
<1>5. ASSUME NEW q \in Procs, NEW job \in batch'[q]
      PROVE  /\ Active(job.id)'
             /\ job.attempts + 0 <= tries'[job.id]
             /\ job.verdict = "pending"
  <2>1. PICK id \in S : job = Claim(id)
    BY <1>4, <1>5
  <2>2. job.id = id /\ job.attempts = jobs[id].attempts /\ job.verdict = "pending"
    BY <2>1, ClaimIsClaimed
  <2>3. jobs'[id].status = "processing"
    BY <1>2
  <2>4. jobs[id].attempts \in Nat
    BY <1>1 DEF Job
  <2> QED BY <2>2, <2>3, <2>4 DEF JobsAccounted, Active, Processing
<1>6. HeldAccounted'
  BY <1>5 DEF HeldAccounted
<1> QED BY <1>3, <1>6

\* A claim that fails leaves nothing in anybody's hands.
LEMMA FailedClaimAccounted ==
    ASSUME IInv, NEW S \in SUBSET Id, mu = Nobody, ClaimReady(S), UNCHANGED <<batch, observed>>
    PROVE  HeldAccounted' /\ JobsAccounted'
<1> USE DEF IInv, TypeOK, observed
<1>1. jobs \in [Id -> Job]
  BY DEF QueueTypeOK
<1>2. \A id \in Id :
        /\ jobs'[id].attempts = jobs[id].attempts
        /\ jobs'[id].status = IF id \in S THEN "processing" ELSE jobs[id].status
  BY <1>1 DEF ClaimReady, Job
<1>3. JobsAccounted'
  BY <1>2 DEF JobsAccounted, Waiting, ClaimReady
<1>4. \A p \in Procs : batch'[p] = {}
  BY DEF Exclusive
<1> QED BY <1>3, <1>4 DEF HeldAccounted

\* Judging a job uses one more of the rounds it has had.
LEMMA JudgeAccounted ==
    ASSUME IInv, NEW p \in Procs, NEW job \in batch[p], NEW v \in Verdict \ {"pending"},
           job.verdict = "pending",
           Judge(p, job, v),
           UNCHANGED <<jobs, archived>>,
           delivered \subseteq delivered',
           abandoned \subseteq abandoned',
           v = "retrying" => job.attempts + 1 < MaxAttempts,
           v = "failed" => job.attempts + 1 >= MaxAttempts \/ job.id \in abandoned',
           v = "succeeded" => job.id \in delivered'
    PROVE  HeldAccounted' /\ JobsAccounted'
<1> USE DEF IInv, TypeOK
<1> DEFINE judged == [job EXCEPT !.verdict = v]
<1>1. job \in Claimed /\ job.id \in Id /\ job.attempts \in Nat
  BY DEF Claimed
<1>2. /\ judged.id = job.id
      /\ judged.attempts = job.attempts
      /\ judged.verdict = v
  BY <1>1, JudgedIsClaimed
<1> HIDE DEF judged
<1>3. batch' = [batch EXCEPT ![p] = (batch[p] \ {job}) \cup {judged}]
  BY DEF Judge, judged
<1>4. /\ tries'[job.id] = tries[job.id] + 1
      /\ \A id \in Id : tries[id] \in Nat /\ tries'[id] \in Nat /\ tries[id] <= tries'[id]
  BY <1>1 DEF Judge
<1>5. \A id \in Id : jobs[id].attempts \in Nat
  BY DEF QueueTypeOK, Job
<1>6. JobsAccounted'
  BY <1>4, <1>5 DEF JobsAccounted, Waiting
<1>7. ASSUME NEW q \in Procs, NEW k \in batch[q]
      PROVE  /\ Active(k.id)'
             /\ k.attempts + (IF k.verdict = "pending" THEN 0 ELSE 1) <= tries'[k.id]
             /\ k.verdict = "retrying" => k.attempts + 1 < MaxAttempts
             /\ k.verdict = "failed" =>
                   k.attempts + 1 >= MaxAttempts \/ k.id \in abandoned'
             /\ k.verdict = "succeeded" => k.id \in delivered'
  <2>1. k.id \in Id /\ k.attempts \in Nat
    BY DEF Claimed
  <2> QED BY <2>1, <1>4 DEF HeldAccounted, Active, Waiting, Processing
<1>8. /\ Active(judged.id)'
      /\ judged.attempts + 1 <= tries'[judged.id]
  <2>1. Active(job.id) /\ job.attempts <= tries[job.id]
    BY <1>1, <1>4 DEF HeldAccounted
  <2> QED BY <1>1, <1>2, <1>4, <2>1 DEF Active, Waiting, Processing
<1>9. \A q \in Procs : \A k \in batch'[q] : k = judged \/ k \in batch[q]
  BY <1>3
<1>10. HeldAccounted'
  BY <1>2, <1>7, <1>8, <1>9 DEF HeldAccounted
<1> QED BY <1>6, <1>10

\* A mark moves the account from the copy to the stored job.
LEMMA MarkAccounted ==
    ASSUME IInv, NEW p \in Procs, NEW job \in batch[p], Mark(p, job)
    PROVE  HeldAccounted' /\ JobsAccounted'
<1> USE DEF IInv, TypeOK
<1>1. job \in Claimed /\ job.id \in Id /\ job.attempts \in Nat /\ job.verdict \in Verdict
  BY DEF Claimed
<1>2. jobs \in [Id -> Job]
  BY DEF QueueTypeOK
<1>3. UNCHANGED <<archived, mu, tries, delivered, abandoned>> /\ job.verdict # "pending"
  BY DEF Mark, observed, MarkSucceeded, MarkFailed
<1>4. /\ job.attempts + 1 <= tries[job.id]
      /\ job.verdict = "retrying" => job.attempts + 1 < MaxAttempts
      /\ job.verdict = "failed" =>
              job.attempts + 1 >= MaxAttempts \/ job.id \in abandoned
      /\ job.verdict = "succeeded" => job.id \in delivered
      /\ Stored(job.id)
  BY <1>3 DEF HeldAccounted, Active, Waiting, Processing, Stored
<1>5. /\ jobs'[job.id].attempts = job.attempts + 1
      /\ jobs'[job.id].status = job.verdict
      /\ \A id \in Id : id # job.id => jobs'[id] = jobs[id]
  <2>1. CASE job.verdict = "succeeded"
    BY <1>1, <1>2, <1>4, <2>1 DEF Mark, MarkSucceeded, Job
  <2>2. CASE job.verdict # "succeeded"
    BY <1>1, <1>2, <1>3, <1>4, <2>2 DEF Mark, MarkFailed, Verdict
  <2> QED BY <2>1, <2>2
<1>6. JobsAccounted'
  <2>1. tries[job.id] \in Nat
    BY <1>1
  <2> SUFFICES ASSUME NEW id \in Id
               PROVE  /\ jobs'[id].attempts <= tries'[id]
                      /\ Waiting(id)' => jobs'[id].attempts < MaxAttempts
                      /\ jobs'[id].status = "failed" =>
                            tries'[id] >= MaxAttempts \/ id \in abandoned'
                      /\ jobs'[id].status = "succeeded" \/ id \in archived' =>
                            id \in delivered'
    BY DEF JobsAccounted
  <2>2. CASE id = job.id
    BY <1>1, <1>3, <1>4, <1>5, <2>1, <2>2 DEF JobsAccounted, Waiting, Verdict
  <2>3. CASE id # job.id
    BY <1>3, <1>5, <2>3 DEF JobsAccounted, Waiting
  <2> QED BY <2>2, <2>3
<1>7. HeldAccounted'
  <2> SUFFICES ASSUME NEW q \in Procs, NEW k \in batch'[q]
               PROVE  k \in batch[q] /\ Active(k.id)'
    BY <1>3 DEF HeldAccounted
  <2>1. k \in batch[q] /\ k # job /\ (q # p => batch[q] = {})
    BY DEF Mark, Exclusive
  <2>2. k.id # job.id /\ k.id \in Id
    BY <2>1 DEF Exclusive, Claimed
  <2> QED BY <1>5, <2>1, <2>2 DEF HeldAccounted, Active, Waiting, Processing
<1> QED BY <1>6, <1>7

\* The calls that reach the queue without the processor keep the account too.
LEMMA DirectAccounted ==
    ASSUME IInv,
           \/ \E id \in Id : EnqueueFailed(id) \/ HandleReset(id) \/ TimePasses(id)
           \/ HandleArchive
           \/ Restart
           \/ UNCHANGED vars
    PROVE  HeldAccounted' /\ JobsAccounted'
<1> USE DEF IInv, TypeOK
<1>1. jobs \in [Id -> Job] /\ tries \in [Id -> Nat]
  BY DEF QueueTypeOK
<1>2. ASSUME UNCHANGED <<archived, tries, delivered, abandoned>>,
             batch' \in {batch, [p \in Procs |-> {}]},
             \A id \in Id :
                \/ jobs'[id] = jobs[id]
                \/ /\ jobs'[id].status = "queued"
                   /\ jobs'[id].attempts = 0
                \/ /\ Waiting(id)
                   /\ jobs'[id].status = jobs[id].status
                   /\ jobs'[id].attempts = jobs[id].attempts
      PROVE  HeldAccounted' /\ JobsAccounted'
  <2>1. JobsAccounted'
    BY <1>1, <1>2 DEF JobsAccounted, Waiting
  <2>2. \A id \in Id : Active(id) => Active(id)'
    BY <1>1, <1>2 DEF Active, Waiting, Processing
  <2>3. \A p \in Procs : \A job \in batch'[p] : job \in batch[p] /\ job.id \in Id
    BY <1>2 DEF Claimed
  <2>4. HeldAccounted'
    BY <1>2, <2>2, <2>3 DEF HeldAccounted
  <2> QED BY <2>1, <2>4
<1>3. ASSUME NEW id \in Id, EnqueueFailed(id)
      PROVE  HeldAccounted' /\ JobsAccounted'
  <2>1. UNCHANGED <<archived, tries, delivered, abandoned, batch>>
    BY <1>3 DEF EnqueueFailed, Enqueue, Unclaimed, observed
  <2>2. jobs' = jobs \/ jobs' = [jobs EXCEPT ![id] = NewJob]
    BY <1>3 DEF EnqueueFailed, Enqueue
  <2> QED BY <1>1, <1>2, <2>1, <2>2 DEF NewJob
<1>4. ASSUME NEW id \in Id, HandleReset(id)
      PROVE  HeldAccounted' /\ JobsAccounted'
  BY <1>1, <1>2, <1>4 DEF HandleReset, Reset, Unclaimed, observed
<1>5. ASSUME NEW id \in Id, TimePasses(id)
      PROVE  HeldAccounted' /\ JobsAccounted'
  BY <1>1, <1>2, <1>5 DEF TimePasses, BackoffElapses, Unclaimed, observed, Job
<1>6. ASSUME HandleArchive
      PROVE  HeldAccounted' /\ JobsAccounted'
  <2>1. UNCHANGED <<tries, delivered, abandoned, batch>>
    BY <1>6 DEF HandleArchive, Unclaimed, observed
  <2>2. PICK S \in SUBSET Id : ArchiveSucceededBefore(S)
    BY <1>6 DEF HandleArchive
  <2>3. \A id \in Id : id \in S => jobs[id].status = "succeeded" /\ jobs'[id] = Absent
    BY <2>2 DEF ArchiveSucceededBefore
  <2>4. \A id \in Id : id \notin S => jobs'[id] = jobs[id]
    BY <2>2 DEF ArchiveSucceededBefore
  <2>5. archived' = archived \cup S
    BY <2>2 DEF ArchiveSucceededBefore
  <2>6. JobsAccounted'
    BY <1>1, <2>1, <2>3, <2>4, <2>5 DEF JobsAccounted, Absent, Waiting
  <2>7. \A id \in Id : Active(id) => Active(id)'
    BY <2>3, <2>4 DEF Active, Waiting, Processing
  <2>8. HeldAccounted'
    BY <2>1, <2>7 DEF HeldAccounted, Claimed
  <2> QED BY <2>6, <2>8
<1>7. ASSUME Restart
      PROVE  HeldAccounted' /\ JobsAccounted'
  <2>1. /\ jobs' = disk /\ batch' = [p \in Procs |-> {}]
        /\ UNCHANGED <<archived, tries, delivered, abandoned>>
    BY <1>7 DEF Restart
  <2>2. HeldAccounted'
    BY <2>1 DEF HeldAccounted
  <2>3. JobsAccounted'
    BY <2>1 DEF JobsAccounted, LinesAccounted, Waiting
  <2> QED BY <2>2, <2>3
<1>8. ASSUME UNCHANGED vars
      PROVE  HeldAccounted' /\ JobsAccounted'
  BY <1>2, <1>8 DEF vars, observed
<1> QED BY <1>3, <1>4, <1>5, <1>6, <1>7, <1>8

\* IInv is inductive.
LEMMA IInvStep == IInv /\ [Next]_vars => IInv'
<1> SUFFICES ASSUME IInv, [Next]_vars
             PROVE  HeldAccounted' /\ JobsAccounted'
  BY TypeStep, ExclusiveStep, LinesStep DEF IInv
<1>1. ASSUME NEW p \in Procs, NEW limit \in Int, ProcessOnce(p, limit)
      PROVE  HeldAccounted' /\ JobsAccounted'
  BY <1>1, ClaimAccounted DEF ProcessOnce, Claimable
<1>2. ASSUME NEW p \in Procs, NEW id \in Id, ProcessJob(p, id)
      PROVE  HeldAccounted' /\ JobsAccounted'
  <2>1. {Claim(id)} = {Claim(i) : i \in {id}}
    OBVIOUS
  <2>2. ClaimReady({id})
    <3>1. jobs \in [Id -> Job]
      BY DEF IInv, TypeOK, QueueTypeOK
    <3> QED BY <1>2, <3>1 DEF ProcessJob, ClaimByID, ClaimReady
  <2> QED BY <1>2, <2>1, <2>2, ClaimAccounted DEF ProcessJob
<1>3. ASSUME NEW p \in Procs, NEW job \in batch[p], Deliver(p, job)
      PROVE  HeldAccounted' /\ JobsAccounted'
  BY <1>3, JudgeAccounted DEF Deliver, Current, Verdict, queueVars
<1>4. ASSUME NEW p \in Procs, NEW job \in batch[p], FailDelivery(p, job)
      PROVE  HeldAccounted' /\ JobsAccounted'
  <2> DEFINE v == IF job.attempts + 1 >= MaxAttempts THEN "failed" ELSE "retrying"
  <2>1. job.attempts \in Nat
    BY DEF IInv, TypeOK, Claimed
  <2>2. /\ v \in Verdict \ {"pending"}
        /\ v = "retrying" => job.attempts + 1 < MaxAttempts
        /\ v = "failed" => job.attempts + 1 >= MaxAttempts
        /\ v # "succeeded"
    BY <2>1 DEF Verdict
  <2>3. /\ job.verdict = "pending"
        /\ Judge(p, job, v)
        /\ UNCHANGED <<jobs, archived>>
        /\ UNCHANGED <<delivered, abandoned>>
    BY <1>4 DEF FailDelivery, Current, queueVars
  <2> HIDE DEF v
  <2> QED BY <2>2, <2>3, JudgeAccounted
<1>5. ASSUME NEW p \in Procs, NEW job \in batch[p], Abandon(p, job)
      PROVE  HeldAccounted' /\ JobsAccounted'
  BY <1>5, JudgeAccounted DEF Abandon, Current, Verdict, queueVars
<1>6. ASSUME NEW p \in Procs, Finish(p)
      PROVE  HeldAccounted' /\ JobsAccounted'
  BY <1>6 DEF IInv, Finish, queueVars, observed, HeldAccounted, JobsAccounted,
              Active, Waiting, Processing
<1>7. ASSUME NEW limit \in Int, ProcessOnceFails(limit)
      PROVE  HeldAccounted' /\ JobsAccounted'
  BY <1>7, FailedClaimAccounted DEF ProcessOnceFails, Claimable
<1>8. ASSUME NEW id \in Id, ProcessJobFails(id)
      PROVE  HeldAccounted' /\ JobsAccounted'
  BY <1>8, ClaimOne, FailedClaimAccounted DEF ProcessJobFails, IInv, TypeOK
<1>9. ASSUME NEW p \in Procs, Round(p)
      PROVE  HeldAccounted' /\ JobsAccounted'
  BY <1>3, <1>4, <1>5, <1>6, <1>9, MarkAccounted DEF Round
<1>10. Limits \cup {BatchSize} \subseteq Int
  OBVIOUS
<1>11. ASSUME \/ \E id \in Id : EnqueueFailed(id) \/ HandleReset(id) \/ TimePasses(id)
              \/ HandleArchive
              \/ Restart
              \/ UNCHANGED vars
       PROVE  HeldAccounted' /\ JobsAccounted'
  BY <1>11, DirectAccounted
<1> QED
  BY <1>1, <1>2, <1>7, <1>8, <1>9, <1>10, <1>11 DEF Next, Procs

\* The strengthening holds in every reachable state.
THEOREM IInvHolds == Spec => []IInv
<1>1. Init => TypeOK
  BY DEF Init, TypeOK, QueueInit, QueueTypeOK, Absent, Job, Status, Procs
<1>2. Init => Exclusive /\ HeldAccounted
  BY DEF Init, Exclusive, HeldAccounted
<1>3. Init => JobsAccounted /\ LinesAccounted
  BY DEF Init, QueueInit, Absent, JobsAccounted, LinesAccounted, Waiting
<1> QED BY <1>1, <1>2, <1>3, IInvStep, PTL DEF Spec, IInv

\* HeldIsActive: a claimed job cannot be settled or removed before its mark.
THEOREM HeldIsActiveHolds == Spec => []HeldIsActive
<1>1. IInv => HeldIsActive
  BY DEF IInv, HeldAccounted, HeldIsActive
<1> QED BY <1>1, IInvHolds, PTL

\* BudgetLeft: no mix of rounds, requests and restarts overdraws the budget of
\* a job that is still going to be retried.
THEOREM BudgetLeftHolds == Spec => []BudgetLeft
<1>1. IInv => BudgetLeft
  BY DEF IInv, JobsAccounted, BudgetLeft
<1> QED BY <1>1, IInvHolds, PTL

\* FailedIsSpent: a job is given up only after its whole budget of rounds.
THEOREM FailedIsSpentHolds == Spec => []FailedIsSpent
<1>1. IInv => FailedIsSpent
  BY DEF IInv, JobsAccounted, FailedIsSpent
<1> QED BY <1>1, IInvHolds, PTL

\* DoneMeansDelivered: success and archiving imply that the channel accepted.
THEOREM DoneMeansDeliveredHolds == Spec => []DoneMeansDelivered
<1>1. IInv => DoneMeansDelivered
  BY DEF IInv, JobsAccounted, DoneMeansDelivered
<1> QED BY <1>1, IInvHolds, PTL

-----------------------------------------------------------------------------
(* What a step may do to a job that no operator has asked for.             *)

Copies(id) == {job \in UNION {batch[p] : p \in Procs} : job.id = id}

SameJob(new, old) == new.status = old.status /\ new.attempts = old.attempts
LineFollows(id) == disk'[id] = jobs'[id] \/ SameJob(disk'[id], disk[id])
Unseen(id) == tries'[id] = tries[id] /\ (id \in delivered' <=> id \in delivered)
StaysOut(id) == id \in archived' <=> id \in archived

\* Nothing, except that its time may come and its line may be brought up to date.
Stays(id) ==
    /\ SameJob(jobs'[id], jobs[id]) /\ LineFollows(id)
    /\ Copies(id)' \subseteq Copies(id)
    /\ Unseen(id) /\ StaysOut(id)

\* It is claimed; the copy is handed out only when the claim has its line.
TakenUp(id) ==
    /\ Waiting(id)
    /\ jobs'[id].status = "processing" /\ jobs'[id].attempts = jobs[id].attempts
    /\ LineFollows(id)
    /\ \A job \in Copies(id)' :
          /\ job.attempts = jobs[id].attempts /\ job.verdict = "pending"
          /\ disk'[id] = jobs'[id]
    /\ Unseen(id) /\ StaysOut(id)

\* It has been through a round.
Judged(id) ==
    \E job \in Copies(id), v \in Verdict \ {"pending"} :
        /\ job.verdict = "pending"
        /\ \A k \in Copies(id)' : k.attempts = job.attempts /\ k.verdict = v
        /\ SameJob(jobs'[id], jobs[id]) /\ SameJob(disk'[id], disk[id])
        /\ tries'[id] = tries[id] + 1
        /\ id \in delivered' <=> id \in delivered \/ v = "succeeded"
        /\ StaysOut(id)

\* The outcome of its round is written down.
Marked(id) ==
    \E job \in Copies(id) :
        /\ job.verdict # "pending"
        /\ jobs'[id].status = job.verdict /\ jobs'[id].attempts = job.attempts + 1
        /\ LineFollows(id)
        /\ Copies(id)' = {}
        /\ Unseen(id) /\ StaysOut(id)

\* It is new.
Entered(id) ==
    /\ ~Stored(id) /\ id \notin archived
    /\ \A other \in Id : SameTarget(id, other) => ~Active(other)
    /\ jobs' = [jobs EXCEPT ![id] = NewJob]
    /\ LineFollows(id)
    /\ Copies(id)' = {}
    /\ Unseen(id) /\ StaysOut(id)

\* It leaves the queue for the archive.
PutAway(id) ==
    /\ jobs[id].status = "succeeded"
    /\ jobs'[id] = Absent /\ disk'[id] = Absent /\ id \in archived'
    /\ Copies(id)' = {}
    /\ Unseen(id)

\* It is read back from its line.
ReadBack(id) ==
    /\ jobs'[id] = disk[id] /\ disk'[id] = disk[id]
    /\ Copies(id)' = {}
    /\ Unseen(id) /\ StaysOut(id)

Effect(id) ==
    \/ Stays(id) \/ TakenUp(id) \/ Judged(id) \/ Marked(id)
    \/ Entered(id) \/ PutAway(id) \/ ReadBack(id)

\* The claim of several jobs, whatever becomes of it.
LEMMA ClaimEffect ==
    ASSUME IInv, NEW id \in Id, NEW S \in SUBSET {i \in Id : Ready(i)}, ClaimReady(S),
           NEW written \in SUBSET S, Write(written),
           \A p \in Procs : \A job \in batch'[p] : \E i \in S : job = Claim(i) /\ written = S,
           UNCHANGED observed
    PROVE  Effect(id)
<1> USE DEF IInv, TypeOK
<1>1. jobs \in [Id -> Job] /\ disk \in [Id -> Job]
  BY DEF QueueTypeOK
<1>2. Unseen(id) /\ StaysOut(id)
  BY DEF Unseen, StaysOut, observed, ClaimReady
<1>3. \A job \in Copies(id)' :
        id \in S /\ written = S /\ job.attempts = jobs[id].attempts /\ job.verdict = "pending"
  BY ClaimIsClaimed DEF Copies
<1>4. CASE id \in S
  <2>1. jobs'[id].status = "processing" /\ jobs'[id].attempts = jobs[id].attempts /\ Waiting(id)
    BY <1>1, <1>4 DEF ClaimReady, Ready, Job
  <2>2. (disk'[id] = jobs'[id] \/ disk'[id] = disk[id]) /\ (written = S => disk'[id] = jobs'[id])
    BY <1>4 DEF Write
  <2>3. LineFollows(id)
    BY <2>2 DEF LineFollows, SameJob
  <2> QED BY <1>2, <1>3, <2>1, <2>2, <2>3 DEF Effect, TakenUp
<1>5. CASE id \notin S
  <2>1. jobs'[id] = jobs[id] /\ disk'[id] = disk[id]
    BY <1>5 DEF ClaimReady, Write
  <2> QED BY <1>2, <1>3, <1>5, <2>1 DEF Effect, Stays, SameJob, LineFollows
<1> QED BY <1>4, <1>5

LEMMA RoundEffect ==
    ASSUME IInv, NEW id \in Id, NEW p \in Procs, Round(p)
    PROVE  Effect(id)
<1> USE DEF IInv, TypeOK, lines, observed
<1>0. /\ jobs \in [Id -> Job] /\ disk \in [Id -> Job] /\ batch \in [Procs -> SUBSET Claimed]
      /\ tries \in [Id -> Nat]
  BY DEF QueueTypeOK
<1>1. ASSUME NEW job \in batch[p], NEW v \in Verdict \ {"pending"},
             Judge(p, job, v), UNCHANGED <<jobs, archived, disk>>, job.verdict = "pending",
             delivered' = IF v = "succeeded" THEN delivered \cup {job.id} ELSE delivered
      PROVE  Effect(id)
  <2> DEFINE judged == [job EXCEPT !.verdict = v]
  <2>1. judged.id = job.id /\ judged.verdict = v /\ judged.attempts = job.attempts
    BY <1>0, JudgedIsClaimed
  <2>2. batch' = [batch EXCEPT ![p] = (batch[p] \ {job}) \cup {judged}]
    BY <1>1 DEF Judge
  <2> HIDE DEF judged
  <2>3. \A q \in Procs : \A k \in batch'[q] : (k \in batch[q] /\ k.id # job.id) \/ k = judged
    BY <1>0, <1>1, <2>2 DEF Exclusive
  <2>4. tries' = [tries EXCEPT ![job.id] = @ + 1]
    BY <1>1 DEF Judge
  <2>5. CASE job.id = id
    <3>1. \A k \in Copies(id)' : k.attempts = job.attempts /\ k.verdict = v
      BY <2>1, <2>3, <2>5 DEF Copies
    <3>2. job \in Copies(id)
      BY <2>5 DEF Copies
    <3>3. tries'[id] = tries[id] + 1
      BY <1>0, <2>4, <2>5
    <3>4. Judged(id)
      BY <1>1, <2>5, <3>1, <3>2, <3>3 DEF Judged, SameJob, StaysOut
    <3> QED BY <3>4 DEF Effect
  <2>6. CASE job.id # id
    <3>1. Copies(id)' \subseteq Copies(id)
      BY <2>1, <2>3, <2>6 DEF Copies
    <3>2. tries'[id] = tries[id] /\ (id \in delivered' <=> id \in delivered)
      BY <1>0, <1>1, <2>4, <2>6
    <3> QED BY <1>1, <3>1, <3>2 DEF Effect, Stays, SameJob, LineFollows, Unseen, StaysOut
  <2> QED BY <2>5, <2>6
<1>2. ASSUME NEW job \in batch[p], Deliver(p, job) PROVE Effect(id)
  BY <1>1, <1>2 DEF Deliver, Current, Verdict, queueVars
<1>3. ASSUME NEW job \in batch[p], Abandon(p, job) PROVE Effect(id)
  BY <1>1, <1>3 DEF Abandon, Current, Verdict, queueVars
<1>4. ASSUME NEW job \in batch[p], FailDelivery(p, job) PROVE Effect(id)
  <2> DEFINE v == IF job.attempts + 1 >= MaxAttempts THEN "failed" ELSE "retrying"
  <2>1. v \in Verdict \ {"pending"} /\ v # "succeeded"
    BY DEF Verdict
  <2>2. Judge(p, job, v) /\ job.verdict = "pending" /\ UNCHANGED <<jobs, archived, disk, delivered>>
    BY <1>4 DEF FailDelivery, Current, queueVars
  <2> HIDE DEF v
  <2> QED BY <1>1, <2>1, <2>2
<1>5. ASSUME NEW job \in batch[p], Mark(p, job) PROVE Effect(id)
  <2>1. /\ job \in Claimed /\ job.id \in Id /\ Stored(job.id)
        /\ \A q \in Procs : \A k \in batch'[q] : k \in batch[q] /\ k.id # job.id
    <3>1. batch' = [batch EXCEPT ![p] = batch[p] \ {job}] /\ batch[p] # {}
      BY <1>5 DEF Mark
    <3> QED BY <1>0, <3>1 DEF Exclusive, HeldAccounted, Active, Waiting, Processing, Stored, Claimed
  <2>2. /\ \A i \in Id : i # job.id => jobs'[i] = jobs[i]
        /\ jobs'[job.id].status = job.verdict /\ jobs'[job.id].attempts = job.attempts + 1
        /\ archived' = archived
    <3>1. CASE job.verdict = "succeeded"
      BY <1>0, <1>5, <2>1, <3>1 DEF Mark, MarkSucceeded
    <3>2. CASE job.verdict # "succeeded"
      BY <1>0, <1>5, <2>1, <3>2 DEF Mark, MarkFailed, Claimed, Verdict
    <3> QED BY <3>1, <3>2
  <2>3. /\ \A i \in Id : i # job.id => disk'[i] = disk[i]
        /\ disk'[job.id] = jobs'[job.id] \/ disk'[job.id] = disk[job.id]
    BY <1>5, <2>1 DEF Mark, Save, Write
  <2>4. job.verdict # "pending" /\ Unseen(id) /\ StaysOut(id)
    BY <1>5, <2>2 DEF Mark, Unseen, StaysOut
  <2>5. CASE job.id = id
    <3>1. job \in Copies(id) /\ Copies(id)' = {}
      BY <2>1, <2>5 DEF Copies
    <3>2. LineFollows(id)
      BY <2>3, <2>5 DEF LineFollows, SameJob
    <3>3. Marked(id)
      BY <2>2, <2>4, <2>5, <3>1, <3>2 DEF Marked
    <3> QED BY <3>3 DEF Effect
  <2>6. CASE job.id # id
    <3>1. Copies(id)' \subseteq Copies(id)
      BY <2>1 DEF Copies
    <3>2. jobs'[id] = jobs[id] /\ disk'[id] = disk[id]
      BY <2>2, <2>3, <2>6
    <3> QED BY <2>4, <3>1, <3>2 DEF Effect, Stays, SameJob, LineFollows
  <2> QED BY <2>5, <2>6
<1>6. CASE Finish(p)
  BY <1>6 DEF Finish, queueVars, Effect, Stays, SameJob, LineFollows, Unseen, StaysOut, Copies
<1> QED BY <1>2, <1>3, <1>4, <1>5, <1>6 DEF Round, queueVars

LEMMA UnaskedEffect ==
    ASSUME IInv, [Next]_vars, NEW id \in Id, id \notin asked'
    PROVE  Effect(id)
<1> USE DEF IInv, TypeOK, lines, observed, Unclaimed, Asked
<1>0. /\ jobs \in [Id -> Job] /\ disk \in [Id -> Job] /\ batch \in [Procs -> SUBSET Claimed]
      /\ tries \in [Id -> Nat]
  BY DEF QueueTypeOK
<1>1. ASSUME NEW p \in Procs, NEW limit, ProcessOnce(p, limit) PROVE Effect(id)
  <2>1. PICK S \in SUBSET {i \in Id : Ready(i)} :
           /\ ClaimReady(S) /\ Write(S)
           /\ batch' = [batch EXCEPT ![p] = {Claim(i) : i \in S}]
    BY <1>1 DEF ProcessOnce, Claimable
  <2>2. \A q \in Procs : \A job \in batch'[q] : \E i \in S : job = Claim(i)
    BY <1>0, <1>1, <2>1 DEF Exclusive, ProcessOnce
  <2> QED BY <1>1, <2>1, <2>2, ClaimEffect DEF ProcessOnce
<1>2. ASSUME NEW limit, ProcessOnceFails(limit) PROVE Effect(id)
  <2>1. PICK S \in SUBSET {i \in Id : Ready(i)} :
           ClaimReady(S) /\ \E ids \in SUBSET S : Write(ids)
    BY <1>2 DEF ProcessOnceFails, Claimable
  <2>2. \A q \in Procs : batch'[q] = {}
    BY <1>2 DEF ProcessOnceFails, Exclusive
  <2> QED BY <1>2, <2>1, <2>2, ClaimEffect DEF ProcessOnceFails
<1>3. ASSUME jobs'[id] = jobs[id], LineFollows(id), UNCHANGED <<archived, tries, delivered>>,
             \A q \in Procs : \A job \in batch'[q] : job \in batch[q] \/ job.id # id
      PROVE  Effect(id)
  <2>1. Copies(id)' \subseteq Copies(id)
    BY <1>3 DEF Copies
  <2> QED BY <1>3, <2>1 DEF Effect, Stays, SameJob, Unseen, StaysOut
<1>4. ASSUME NEW p \in Procs, NEW other \in Id, ProcessJob(p, other) PROVE Effect(id)
  <2>1. other # id /\ UNCHANGED <<delivered, archived, tries>>
    BY <1>4 DEF ProcessJob, ClaimByID
  <2>2. jobs'[id] = jobs[id] /\ disk'[id] = disk[id]
    BY <1>0, <1>4, <2>1 DEF ProcessJob, ClaimByID, Write
  <2>3. \A q \in Procs : \A job \in batch'[q] : job \in batch[q] \/ job.id = other
    BY <1>0, <1>4 DEF ProcessJob, Claim
  <2> QED BY <1>3, <2>1, <2>2, <2>3 DEF LineFollows, SameJob
<1>5. ASSUME NEW other \in Id, ProcessJobFails(other) \/ HandleReset(other) PROVE Effect(id)
  <2>1. other # id /\ UNCHANGED <<delivered, archived, tries, batch>>
    BY <1>5 DEF ProcessJobFails, HandleReset, ClaimByID, Reset
  <2>2. jobs'[id] = jobs[id] /\ disk'[id] = disk[id]
    BY <1>0, <1>5, <2>1 DEF ProcessJobFails, ClaimByID, HandleReset, Reset, Save, Write
  <2> QED BY <1>3, <2>1, <2>2 DEF LineFollows, SameJob
<1>6. ASSUME NEW other \in Id, EnqueueFailed(other) PROVE Effect(id)
  <2>1. /\ UNCHANGED <<batch, delivered, archived, tries>>
        /\ ~Stored(other) /\ other \notin archived
    BY <1>6 DEF EnqueueFailed, Enqueue
  <2>2. CASE jobs' = jobs
    <3>1. disk' = disk
      BY <1>6, <2>2 DEF EnqueueFailed
    <3> QED BY <1>3, <2>1, <2>2, <3>1 DEF LineFollows, SameJob
  <2>3. CASE jobs' # jobs
    <3>1. /\ \A i \in Id : SameTarget(other, i) => ~Active(i)
          /\ jobs' = [jobs EXCEPT ![other] = NewJob]
          /\ Save(other)
      BY <1>6, <2>3 DEF EnqueueFailed, Enqueue
    <3>2. disk'[id] = disk[id] \/ (other = id /\ disk'[id] = jobs'[id])
      BY <3>1 DEF Save, Write
    <3>3. LineFollows(id)
      BY <3>2 DEF LineFollows, SameJob
    <3>4. CASE other = id
      <4>1. Copies(id)' = {}
        BY <2>1, <3>4 DEF Copies, HeldAccounted, Active, Waiting, Processing, Stored
      <4> QED BY <2>1, <3>1, <3>3, <3>4, <4>1 DEF Effect, Entered, Unseen, StaysOut
    <3>5. CASE other # id
      <4>1. jobs'[id] = jobs[id]
        BY <1>0, <3>1, <3>5
      <4> QED BY <1>3, <2>1, <3>3, <4>1
    <3> QED BY <3>4, <3>5
  <2> QED BY <2>2, <2>3
<1>7. CASE HandleArchive
  <2>1. UNCHANGED <<batch, delivered, tries>> /\ ((disk' = disk /\ jobs' = jobs) \/ disk' = jobs')
    BY <1>7 DEF HandleArchive
  <2>2. PICK S \in SUBSET Id : ArchiveSucceededBefore(S)
    BY <1>7 DEF HandleArchive
  <2>3. CASE id \in S
    <3>1. jobs[id].status = "succeeded" /\ jobs'[id] = Absent /\ id \in archived'
      BY <2>2, <2>3 DEF ArchiveSucceededBefore
    <3>2. Copies(id)' = {}
      BY <2>1, <3>1 DEF Copies, HeldAccounted, Active, Waiting, Processing
    <3>3. disk'[id] = Absent
      BY <2>1, <3>1 DEF Absent
    <3> QED BY <2>1, <3>1, <3>2, <3>3 DEF Effect, PutAway, Unseen
  <2>4. CASE id \notin S
    <3>1. jobs'[id] = jobs[id] /\ (disk'[id] = disk[id] \/ disk'[id] = jobs'[id])
      BY <2>1, <2>2, <2>4 DEF ArchiveSucceededBefore
    <3>2. Copies(id)' \subseteq Copies(id) /\ StaysOut(id)
      BY <2>1, <2>2, <2>4 DEF Copies, StaysOut, ArchiveSucceededBefore
    <3> QED BY <2>1, <3>1, <3>2 DEF Effect, Stays, SameJob, LineFollows, Unseen
  <2> QED BY <2>3, <2>4
<1>8. ASSUME NEW other \in Id, TimePasses(other) PROVE Effect(id)
  <2>1. UNCHANGED <<batch, delivered, archived, tries>>
    BY <1>8 DEF TimePasses, BackoffElapses
  <2>2. SameJob(jobs'[id], jobs[id]) /\ LineFollows(id)
    BY <1>0, <1>8 DEF TimePasses, BackoffElapses, Job, SameJob, LineFollows
  <2> QED BY <2>1, <2>2 DEF Effect, Stays, Unseen, StaysOut, Copies
<1>9. CASE Restart
  <2>1. /\ \A p \in Procs : batch'[p] = {}
        /\ jobs' = disk /\ UNCHANGED <<disk, delivered, archived, tries>>
    BY <1>9 DEF Restart
  <2> QED BY <2>1 DEF Effect, ReadBack, Copies, Unseen, StaysOut
<1>10. CASE UNCHANGED vars
  BY <1>3, <1>10 DEF vars, LineFollows, SameJob
<1> QED BY <1>1, <1>2, <1>4, <1>5, <1>6, <1>7, <1>8, <1>9, <1>10, RoundEffect DEF Next, Procs

\* What an accepted job looks like, in memory and on its line: claimed,
\* succeeded, or archived.
Past(job, id) == job.status \in {"processing", "succeeded"} \/ (job.status = "absent" /\ id \in archived)

\* What is sent has been claimed before, in memory and on its line; an operator
\* may have changed the job since.
Sent ==
    \A id \in Id : id \notin asked =>
        /\ id \in delivered => Past(jobs[id], id) /\ Past(disk[id], id)
        /\ \A job \in Copies(id) :
              /\ jobs[id].status = "processing" /\ disk[id].status = "processing"
              /\ job.verdict # "succeeded" => id \notin delivered

LEMMA SentNext == IInv /\ Sent /\ [Next]_vars => Sent'
<1> SUFFICES ASSUME IInv, Sent, [Next]_vars, NEW id \in Id, id \notin asked'
             PROVE  /\ id \in delivered' => Past(jobs[id], id)' /\ Past(disk[id], id)'
                    /\ \A job \in Copies(id)' :
                          /\ jobs'[id].status = "processing" /\ disk'[id].status = "processing"
                          /\ job.verdict # "succeeded" => id \notin delivered'
  BY DEF Sent
<1>1. /\ id \in delivered => Past(jobs[id], id) /\ Past(disk[id], id)
      /\ \A job \in Copies(id) :
            /\ jobs[id].status = "processing" /\ disk[id].status = "processing"
            /\ job.verdict # "succeeded" => id \notin delivered
  <2>1. id \notin asked
    BY ObservedGrows DEF IInv
  <2> QED BY <2>1 DEF Sent
<1>2. CASE Stays(id)
  BY <1>1, <1>2 DEF Stays, SameJob, LineFollows, Unseen, StaysOut, Past
<1>3. CASE TakenUp(id)
  BY <1>1, <1>3 DEF TakenUp, Unseen, Waiting, Past
<1>4. CASE Judged(id)
  BY <1>1, <1>4 DEF Judged, SameJob, StaysOut, Past
<1>5. CASE Marked(id)
  BY <1>1, <1>5 DEF Marked, SameJob, LineFollows, Unseen, StaysOut, Past
<1>6. CASE Entered(id)
  BY <1>1, <1>6 DEF Entered, Unseen, Stored, Past
<1>7. CASE PutAway(id)
  BY <1>7 DEF PutAway, Absent, Past
<1>8. CASE ReadBack(id)
  BY <1>1, <1>8 DEF ReadBack, Unseen, StaysOut, Past
<1> QED BY <1>2, <1>3, <1>4, <1>5, <1>6, <1>7, <1>8, UnaskedEffect DEF Effect

\* SentOnce: whichever writes fail and whenever the program is killed, it sends
\* an accepted article again only on an operator's request.
THEOREM SentOnceHolds == Spec => []SentOnce
<1>1. Init => Sent
  BY DEF Init, Sent, Copies
<1>2. Sent => SentOnce
  BY DEF Sent, SentOnce, Waiting, Past
<1> QED BY <1>1, <1>2, IInvHolds, SentNext, PTL DEF Spec

-----------------------------------------------------------------------------
(* The budget of a job that no operator has asked for.                     *)

Written(id) == disk[id].status \in {"queued", "retrying"}

\* Wherever such a job waits, its attempts are the rounds it has had; a job
\* that is not there yet, or not any more, has had none.
Frugal ==
    \A id \in Id \ asked :
        /\ Waiting(id) => jobs[id].attempts = tries[id]
        /\ Written(id) => disk[id].attempts = tries[id]
        /\ jobs[id].status = "absent" \/ disk[id].status = "absent" =>
              tries[id] = 0 \/ id \in archived
        /\ \A job \in Copies(id) :
              /\ tries[id] = job.attempts + (IF job.verdict = "pending" THEN 0 ELSE 1)
              /\ job.verdict = "pending" => tries[id] < MaxAttempts
        /\ tries[id] <= MaxAttempts

LEMMA FrugalNext == IInv /\ Sent /\ Frugal /\ [Next]_vars => Frugal'
<1> SUFFICES ASSUME IInv, Sent, Frugal, [Next]_vars, NEW id \in Id, id \notin asked'
             PROVE  /\ Waiting(id)' => jobs'[id].attempts = tries'[id]
                    /\ Written(id)' => disk'[id].attempts = tries'[id]
                    /\ jobs'[id].status = "absent" \/ disk'[id].status = "absent" =>
                          tries'[id] = 0 \/ id \in archived'
                    /\ \A job \in Copies(id)' :
                          /\ tries'[id] = job.attempts + (IF job.verdict = "pending" THEN 0 ELSE 1)
                          /\ job.verdict = "pending" => tries'[id] < MaxAttempts
                    /\ tries'[id] <= MaxAttempts
  BY DEF Frugal
<1>0. id \notin asked /\ tries[id] \in Nat /\ \A job \in Copies(id) : job.attempts \in Nat
  BY ObservedGrows DEF IInv, TypeOK, Copies, Claimed
<1>1. /\ Waiting(id) => jobs[id].attempts = tries[id]
      /\ Written(id) => disk[id].attempts = tries[id]
      /\ jobs[id].status = "absent" \/ disk[id].status = "absent" =>
            tries[id] = 0 \/ id \in archived
      /\ \A job \in Copies(id) :
            /\ tries[id] = job.attempts + (IF job.verdict = "pending" THEN 0 ELSE 1)
            /\ job.verdict = "pending" => tries[id] < MaxAttempts
      /\ tries[id] <= MaxAttempts
  BY <1>0 DEF Frugal
<1>2. CASE Stays(id)
  BY <1>1, <1>2 DEF Stays, SameJob, LineFollows, Unseen, StaysOut, Waiting, Written
<1>3. CASE TakenUp(id)
  <2>1. jobs[id].attempts < MaxAttempts
    BY <1>3 DEF TakenUp, IInv, JobsAccounted
  <2> QED BY <1>0, <1>1, <1>3, <2>1
    DEF TakenUp, SameJob, LineFollows, Unseen, StaysOut, Waiting, Written
<1>4. CASE Judged(id)
  <2>1. \A job \in Copies(id) : jobs[id].status = "processing" /\ disk[id].status = "processing"
    BY <1>0 DEF Sent
  <2> QED BY <1>0, <1>1, <1>4, <2>1 DEF Judged, SameJob, StaysOut, Waiting, Written
<1>5. CASE Marked(id)
  <2>1. \A job \in Copies(id) : disk[id].status = "processing" /\ job.verdict # "absent"
    BY <1>0 DEF Sent, IInv, TypeOK, Copies, Claimed, Verdict
  <2> QED BY <1>0, <1>1, <1>5, <2>1 DEF Marked, SameJob, LineFollows, Unseen, StaysOut, Waiting, Written
<1>6. CASE Entered(id)
  <2>1. tries[id] = 0 /\ jobs'[id] = NewJob
    BY <1>1, <1>6 DEF Entered, Stored, IInv, TypeOK, QueueTypeOK
  <2> QED BY <1>1, <1>6, <2>1 DEF Entered, NewJob, SameJob, LineFollows, Unseen, StaysOut, Waiting, Written
<1>7. CASE PutAway(id)
  BY <1>1, <1>7 DEF PutAway, Absent, Unseen, Waiting, Written
<1>8. CASE ReadBack(id)
  BY <1>1, <1>8 DEF ReadBack, Unseen, StaysOut, Waiting, Written
<1> QED BY <1>2, <1>3, <1>4, <1>5, <1>6, <1>7, <1>8, UnaskedEffect DEF Effect

LEMMA FrugalHolds == Spec => [](IInv /\ Sent /\ Frugal)
<1>1. Init => Sent
  BY DEF Init, Sent, Copies
<1>2. Init => Frugal
  BY DEF Init, QueueInit, Absent, Frugal, Copies, Waiting, Written
<1> QED BY <1>1, <1>2, IInvHolds, SentNext, FrugalNext, PTL DEF Spec

\* TriesWithinBudget: neither a write that fails nor a kill in the middle of a
\* round lets the program try a job once more than its budget allows.
THEOREM TriesWithinBudgetHolds == Spec => []TriesWithinBudget
<1>1. Frugal => TriesWithinBudget
  BY DEF Frugal, TriesWithinBudget
<1> QED BY <1>1, FrugalHolds, PTL

-----------------------------------------------------------------------------
(* One job for an article and a channel.                                   *)

\* Such a job will be sent, now or when its line is read back.
Live(id) == id \notin asked /\ (Pending(id) \/ Written(id))

\* It is active in memory, so that Enqueue refuses another, and it is the only
\* one for its target.
Single ==
    /\ \A id \in Id : Live(id) => Active(id)
    /\ \A id, other \in Id : SameTarget(id, other) /\ Live(id) /\ Live(other) => id = other

LEMMA LiveEffect ==
    ASSUME IInv, Sent, Single, [Next]_vars, NEW id \in Id, Live(id)'
    PROVE  /\ Active(id)'
           /\ Live(id) \/ Entered(id)
<1>0. id \notin asked' /\ id \notin asked
  BY ObservedGrows DEF Live, IInv
<1>1. /\ Pending(id) <=> Waiting(id) \/ Copies(id) # {}
      /\ Pending(id)' <=> Waiting(id)' \/ Copies(id)' # {}
  BY DEF Pending, Held, Copies
<1>2. /\ Copies(id) # {} => Active(id) /\ ~Written(id)
      /\ Written(id) => Active(id)
  BY <1>0 DEF IInv, HeldAccounted, Copies, Sent, Written, Single, Live
<1>3. CASE Stays(id)
  BY <1>0, <1>1, <1>2, <1>3
  DEF Stays, SameJob, LineFollows, Live, Active, Waiting, Processing, Written
<1>4. CASE TakenUp(id)
  BY <1>0, <1>1, <1>4 DEF TakenUp, Live, Active, Processing
<1>5. CASE Judged(id)
  <2>1. Copies(id) # {} /\ SameJob(jobs'[id], jobs[id])
    BY <1>5 DEF Judged
  <2> QED BY <1>0, <1>1, <1>2, <2>1 DEF SameJob, Live, Active, Waiting, Processing
<1>6. CASE Marked(id)
  <2>1. Copies(id) # {} /\ Copies(id)' = {} /\ LineFollows(id)
    BY <1>6 DEF Marked
  <2>2. Waiting(id)'
    BY <1>1, <1>2, <2>1 DEF Live, LineFollows, SameJob, Waiting, Written
  <2> QED BY <1>0, <1>1, <2>1, <2>2 DEF Live, Active
<1>7. CASE Entered(id)
  <2>1. jobs'[id] = NewJob
    BY <1>7 DEF Entered, IInv, TypeOK, QueueTypeOK
  <2> QED BY <1>7, <2>1 DEF NewJob, Active, Waiting
<1>8. CASE PutAway(id)
  BY <1>1, <1>8 DEF PutAway, Live, Absent, Waiting, Written
<1>9. CASE ReadBack(id)
  BY <1>0, <1>1, <1>9 DEF ReadBack, Live, Active, Waiting, Written
<1> QED BY <1>0, <1>3, <1>4, <1>5, <1>6, <1>7, <1>8, <1>9, UnaskedEffect DEF Effect

LEMMA SingleNext == IInv /\ Sent /\ Single /\ [Next]_vars => Single'
<1> SUFFICES ASSUME IInv, Sent, Single, [Next]_vars PROVE Single'
  OBVIOUS
<1>1. \A id \in Id : Live(id)' => Active(id)'
  BY LiveEffect
<1>2. ASSUME NEW id \in Id, NEW other \in Id, SameTarget(id, other), Live(id)', Live(other)'
      PROVE  id = other
  <2>1. SameTarget(other, id)
    BY <1>2 DEF SameTarget
  <2>2. CASE Live(id) /\ Live(other)
    BY <1>2, <2>2 DEF Single
  <2>3. CASE Entered(id) /\ ~Entered(other)
    <3>1. Live(other)
      BY <1>2, <2>3, LiveEffect
    <3> QED BY <1>2, <2>3, <3>1 DEF Single, Entered
  <2>4. CASE Entered(other) /\ ~Entered(id)
    <3>1. Live(id)
      BY <1>2, <2>4, LiveEffect
    <3> QED BY <1>2, <2>1, <2>4, <3>1 DEF Single, Entered
  <2>5. CASE Entered(id) /\ Entered(other)
    BY <2>5 DEF Entered, IInv, TypeOK, QueueTypeOK, Stored, NewJob
  <2> QED BY <1>2, <2>2, <2>3, <2>4, <2>5, LiveEffect
<1> QED BY <1>1, <1>2 DEF Single

\* OneRetryPerTarget: of the jobs for an article and a channel at most one will
\* be sent, for any number of failing writes and restarts.
THEOREM OneRetryPerTargetHolds == Spec => []OneRetryPerTarget
<1>1. Init => Single
  BY DEF Init, QueueInit, Absent, Single, Live, Pending, Held, Waiting, Written
<1>2. Single => OneRetryPerTarget
  BY DEF Single, Live, OneRetryPerTarget
<1> QED BY <1>1, <1>2, FrugalHolds, SingleNext, PTL DEF Spec

-----------------------------------------------------------------------------
(* The callers and the contract of the queue.                              *)

Contract ==
    \/ QueueNext({job.attempts : job \in UNION {batch[p] : p \in Procs}})
    \/ Durable /\ jobs' = disk /\ UNCHANGED archived

LEMMA ContractStep == IInv /\ [Next]_vars => Contract \/ UNCHANGED queueVars
<1> SUFFICES ASSUME IInv, [Next]_vars PROVE Contract \/ UNCHANGED queueVars
  OBVIOUS
<1>1. ASSUME NEW limit, NEW S \in Claimable(limit) PROVE S \in SUBSET {id \in Id : Ready(id)}
  BY DEF Claimable
<1>2. ASSUME NEW p, NEW limit, ProcessOnce(p, limit) PROVE Contract
  BY <1>1, <1>2 DEF ProcessOnce, Contract, QueueNext
<1>3. ASSUME NEW limit, ProcessOnceFails(limit) PROVE Contract
  <2>1. PICK S \in Claimable(limit) : \E taken \in SUBSET S : ClaimReady(taken)
    BY <1>3 DEF ProcessOnceFails
  <2>2. PICK taken \in SUBSET {id \in Id : Ready(id)} : ClaimReady(taken)
    BY <1>1, <2>1
  <2> QED BY <2>2 DEF Contract, QueueNext
<1>4. ASSUME NEW p, NEW id \in Id, ProcessJob(p, id) \/ ProcessJobFails(id) PROVE Contract
  BY <1>4 DEF ProcessJob, ProcessJobFails, Contract, QueueNext
<1>5. ASSUME NEW p \in Procs, NEW job \in batch[p], Mark(p, job) PROVE Contract
  <2>1. job.id \in Id /\ Active(job.id)
    BY DEF IInv, TypeOK, HeldAccounted, Claimed
  <2>2. job.attempts \in {k.attempts : k \in UNION {batch[q] : q \in Procs}}
    OBVIOUS
  <2>3. CASE job.verdict = "succeeded"
    BY <1>5, <2>1, <2>2, <2>3 DEF Mark, Contract, QueueNext
  <2>4. CASE job.verdict # "succeeded"
    <3>1. MarkFailed(job.id, job.attempts, job.verdict = "failed") /\ (job.verdict = "failed") \in BOOLEAN
      BY <1>5, <2>4 DEF Mark
    <3> QED BY <2>1, <2>2, <3>1 DEF Contract, QueueNext
  <2> QED BY <2>3, <2>4
<1>6. ASSUME NEW p \in Procs, Round(p) PROVE Contract \/ UNCHANGED queueVars
  BY <1>5, <1>6 DEF Round, Deliver, FailDelivery, Abandon, Finish
<1>7. ASSUME NEW id \in Id, EnqueueFailed(id) PROVE Contract
  BY <1>7 DEF EnqueueFailed, Contract, QueueNext
<1>8. ASSUME NEW id \in Id, HandleReset(id) \/ TimePasses(id) PROVE Contract
  BY <1>8 DEF HandleReset, TimePasses, Contract, QueueNext
<1>9. CASE HandleArchive
  BY <1>9 DEF HandleArchive, Contract, QueueNext
<1>10. CASE Restart
  BY <1>10 DEF Restart, Contract
<1>11. CASE UNCHANGED vars
  BY <1>11 DEF vars, queueVars
<1> QED BY <1>2, <1>3, <1>4, <1>6, <1>7, <1>8, <1>9, <1>10, <1>11 DEF Next

\* KeepsContract: what the file and the SQLite backend are shown to implement is
\* all that the callers, however many, ever ask of them.
THEOREM KeepsContractHolds == Spec => KeepsContract
<1>1. IInv /\ [Next]_vars =>
        [\/ QueueNext({job.attempts : job \in UNION {batch[p] : p \in Procs}})
         \/ Durable /\ jobs' = disk /\ UNCHANGED archived]_queueVars
  BY ContractStep DEF Contract
<1> QED BY <1>1, IInvHolds, PTL DEF Spec, KeepsContract

-----------------------------------------------------------------------------
(* A reset, as long as no write has failed.                                *)

\* The file says what the memory says, and a queued job has used nothing.
Steady == faults = 0 =>
    /\ disk = jobs
    /\ \A id \in Id : jobs[id].status = "queued" => jobs[id].attempts = 0

\* A job comes to be queued only with no attempt used, and is taken from there
\* only by a claim or by the process that holds it.
Sticks(id) ==
    \/ SameJob(jobs'[id], jobs[id])
    \/ jobs'[id].status = "processing"
    \/ jobs'[id].status = "queued" /\ jobs'[id].attempts = 0
    \/ /\ jobs'[id].status # "queued"
       /\ jobs[id].status # "queued" \/ \E p \in Procs : Held(p, id)

LEMMA SteadyStep ==
    ASSUME IInv, Steady, [Next]_vars, faults = 0
    PROVE  /\ faults' = 0 => disk' = jobs'
           /\ \A id \in Id : Sticks(id)
<1> DEFINE Goal == (faults' = 0 => disk' = jobs') /\ \A id \in Id : Sticks(id)
<1> USE DEF IInv, TypeOK, QueueTypeOK, lines, Unclaimed
<1>0. jobs \in [Id -> Job] /\ disk = jobs
  BY DEF Steady
<1>1. ASSUME NEW S \in SUBSET Id, ClaimReady(S) PROVE \A id \in Id : Sticks(id)
  BY <1>0, <1>1 DEF ClaimReady, Sticks, SameJob, Job
<1>2. ASSUME Fault PROVE faults' # 0
  BY <1>2 DEF Fault
<1>3. ASSUME NEW p, NEW limit, ProcessOnce(p, limit) PROVE Goal
  <2>1. PICK S \in SUBSET Id : ClaimReady(S) /\ Write(S)
    BY <1>3 DEF ProcessOnce, Claimable
  <2>2. disk' = jobs'
    BY <1>0, <2>1 DEF ClaimReady, Write
  <2> QED BY <1>1, <2>1, <2>2
<1>4. ASSUME NEW limit, ProcessOnceFails(limit) PROVE Goal
  <2>1. PICK S \in SUBSET Id : ClaimReady(S)
    BY <1>4 DEF ProcessOnceFails, Claimable
  <2> QED BY <1>1, <1>2, <1>4, <2>1 DEF ProcessOnceFails
<1>5. ASSUME NEW p, NEW other \in Id, ProcessJob(p, other) PROVE Goal
  <2>1. ClaimReady({other}) /\ Write({other})
    BY <1>5, ClaimOne DEF ProcessJob
  <2>2. disk' = jobs'
    BY <1>0, <2>1 DEF ClaimReady, Write
  <2> QED BY <1>1, <2>1, <2>2
<1>6. ASSUME NEW other \in Id, ProcessJobFails(other) PROVE Goal
  <2>1. ClaimReady({other})
    BY <1>6, ClaimOne DEF ProcessJobFails
  <2> QED BY <1>1, <1>2, <1>6, <2>1 DEF ProcessJobFails
<1>7. ASSUME NEW other \in Id, Save(other), jobs' \in [Id -> Job],
             \A id \in Id : id # other => jobs'[id] = jobs[id]
      PROVE  faults' = 0 => disk' = jobs'
  BY <1>0, <1>2, <1>7 DEF Save, Write
<1>8. jobs' \in [Id -> Job]
  BY TypeStep
<1>9. ASSUME NEW p \in Procs, NEW job \in batch[p], Mark(p, job) PROVE Goal
  <2>1. job.id \in Id /\ Held(p, job.id) /\ job.verdict \in {"succeeded", "retrying", "failed"}
    BY <1>9 DEF Mark, Claimed, Held, Verdict
  <2>2. /\ \A id \in Id : id # job.id => jobs'[id] = jobs[id]
        /\ jobs'[job.id].status # "queued" \/ jobs'[job.id] = jobs[job.id]
    BY <1>0, <1>9, <2>1 DEF Mark, MarkSucceeded, MarkFailed
  <2>3. \A id \in Id : Sticks(id)
    BY <2>1, <2>2 DEF Sticks, SameJob
  <2> QED BY <1>7, <1>8, <1>9, <2>1, <2>2, <2>3 DEF Mark
<1>10. ASSUME UNCHANGED <<jobs, disk>> PROVE Goal
  BY <1>0, <1>10 DEF Sticks, SameJob
<1>11. ASSUME NEW p \in Procs, Round(p) PROVE Goal
  BY <1>9, <1>10, <1>11 DEF Round, Deliver, FailDelivery, Abandon, Finish, queueVars
<1>12. ASSUME NEW other \in Id, EnqueueFailed(other) PROVE Goal
  <2>1. CASE jobs' = jobs
    BY <1>10, <1>12, <2>1 DEF EnqueueFailed
  <2>2. CASE jobs' # jobs
    <3>1. Save(other) /\ jobs' = [jobs EXCEPT ![other] = NewJob]
      BY <1>12, <2>2 DEF EnqueueFailed, Enqueue
    <3>2. \A id \in Id : Sticks(id)
      BY <1>0, <3>1 DEF Sticks, SameJob, NewJob
    <3> QED BY <1>0, <1>7, <1>8, <3>1, <3>2
  <2> QED BY <2>1, <2>2
<1>13. ASSUME NEW other \in Id, HandleReset(other) PROVE Goal
  <2>1. Save(other) /\ jobs' = [jobs EXCEPT ![other] = [status |-> "queued", attempts |-> 0, due |-> TRUE]]
    BY <1>13 DEF HandleReset, Reset
  <2>2. \A id \in Id : Sticks(id)
    BY <1>0, <2>1 DEF Sticks, SameJob
  <2> QED BY <1>0, <1>7, <1>8, <2>1, <2>2
<1>14. CASE HandleArchive
  <2>1. disk' = jobs'
    BY <1>0, <1>14 DEF HandleArchive
  <2>2. \A id \in Id : Sticks(id)
    BY <1>14 DEF HandleArchive, ArchiveSucceededBefore, Sticks, SameJob, Absent
  <2> QED BY <2>1, <2>2
<1>15. ASSUME NEW other \in Id, TimePasses(other) PROVE Goal
  <2>1. disk' = jobs'
    BY <1>0, <1>15 DEF TimePasses, BackoffElapses
  <2>2. \A id \in Id : Sticks(id)
    BY <1>0, <1>15 DEF TimePasses, BackoffElapses, Sticks, SameJob, Job
  <2> QED BY <2>1, <2>2
<1>16. CASE Restart \/ UNCHANGED vars
  <2>1. jobs' = jobs /\ disk' = disk
    BY <1>0, <1>16 DEF Restart, vars
  <2> QED BY <1>10, <2>1
<1>17. Goal
  BY <1>3, <1>4, <1>5, <1>6, <1>11, <1>12, <1>13, <1>14, <1>15, <1>16 DEF Next
<1> QED BY <1>17

LEMMA SteadyNext == IInv /\ Steady /\ [Next]_vars => Steady'
<1> SUFFICES ASSUME IInv, Steady, [Next]_vars, faults' = 0
             PROVE  disk' = jobs' /\ \A id \in Id : jobs'[id].status = "queued" => jobs'[id].attempts = 0
  BY DEF Steady
<1>1. faults = 0
  <2>1. faults \in Nat /\ (Fault => faults' # 0)
    BY DEF IInv, TypeOK, Fault
  <2>2. faults' = faults \/ Fault
    BY DEF Next, Round, ProcessOnce, ProcessOnceFails, ProcessJob, ProcessJobFails, Deliver, FailDelivery,
           Abandon, Mark, Finish, EnqueueFailed, HandleReset, HandleArchive, TimePasses, Restart, Save,
           vars, lines
  <2> QED BY <2>1, <2>2
<1> QED BY <1>1, SteadyStep DEF Steady, Sticks, SameJob

\* ResetSticksUnheld: what a reset promises is kept for every job that no
\* process is sending, across kills and restarts, until a write fails.
THEOREM ResetSticksUnheldHolds == Spec => ResetSticksUnheld
<1>1. Init => Steady
  BY DEF Init, QueueInit, Absent, Steady
<1>2. IInv /\ Steady /\ [Next]_vars =>
        [\A id \in Id : faults = 0 /\ jobs[id].status = "queued" /\ (\A p \in Procs : ~Held(p, id)) =>
           \/ jobs'[id].status = "processing"
           \/ jobs'[id].status = "queued" /\ jobs'[id].attempts = jobs[id].attempts]_vars
  BY SteadyStep DEF Steady, Sticks, SameJob
<1> QED BY <1>1, <1>2, IInvHolds, SteadyNext, PTL DEF Spec, ResetSticksUnheld

-----------------------------------------------------------------------------
\* Without restarts every job in state processing is in somebody's hands.  A
\* crash (Durable) breaks it: run retry_crash_orphan.
LEMMA ProcessingStep ==
    ASSUME ~Durable, IInv, ProcessingIsHeld, [Next]_vars
    PROVE  ProcessingIsHeld'
<1> USE DEF IInv, TypeOK
<1>1. jobs \in [Id -> Job] /\ batch \in [Procs -> SUBSET Claimed]
  BY DEF QueueTypeOK
<1>2. \A q \in Procs : mu # q => batch[q] = {}
  BY DEF Exclusive
<1>3. ASSUME NEW p \in Procs, NEW S \in SUBSET Id, mu = Nobody, ClaimReady(S),
             batch' = [batch EXCEPT ![p] = {Claim(id) : id \in S}]
      PROVE  ProcessingIsHeld'
  <2>1. \A id \in Id : ~Processing(id)
    BY <1>2, <1>3 DEF ProcessingIsHeld, Held
  <2>2. \A id \in Id \ S : ~Processing(id)'
    BY <1>3, <2>1 DEF ClaimReady, Processing
  <2>3. \A id \in S : Claim(id) \in batch'[p] /\ Claim(id).id = id
    BY <1>1, <1>3, ClaimIsClaimed
  <2> QED BY <2>2, <2>3 DEF ProcessingIsHeld, Held
<1>4. ASSUME NEW p \in Procs, NEW limit \in Int, ProcessOnce(p, limit)
      PROVE  ProcessingIsHeld'
  BY <1>3, <1>4 DEF ProcessOnce, Claimable
<1>5. ASSUME NEW p \in Procs, NEW id \in Id, ProcessJob(p, id)
      PROVE  ProcessingIsHeld'
  <2>1. {Claim(id)} = {Claim(i) : i \in {id}}
    OBVIOUS
  <2>2. ClaimReady({id})
    BY <1>1, <1>5 DEF ProcessJob, ClaimByID, ClaimReady
  <2> QED BY <1>3, <1>5, <2>1, <2>2 DEF ProcessJob
<1>6. ASSUME UNCHANGED jobs,
             \A q \in Procs, id \in Id : Held(q, id) => Held(q, id)'
      PROVE  ProcessingIsHeld'
  BY <1>6 DEF ProcessingIsHeld, Processing
<1>7. ASSUME NEW p \in Procs, NEW job \in batch[p],
             Deliver(p, job) \/ FailDelivery(p, job) \/ Abandon(p, job)
      PROVE  ProcessingIsHeld'
  <2>1. UNCHANGED jobs
    BY <1>7 DEF Deliver, FailDelivery, Abandon, queueVars
  <2>2. PICK v : batch' = [batch EXCEPT
                   ![p] = (batch[p] \ {job}) \cup {[job EXCEPT !.verdict = v]}]
    BY <1>7 DEF Deliver, FailDelivery, Abandon, Judge
  <2> DEFINE judged == [job EXCEPT !.verdict = v]
  <2>3. judged.id = job.id
    BY <1>1 DEF Claimed
  <2> HIDE DEF judged
  <2>4. batch' = [batch EXCEPT ![p] = (batch[p] \ {job}) \cup {judged}]
    BY <2>2 DEF judged
  <2>5. ASSUME NEW q \in Procs, NEW id \in Id, NEW k \in batch[q], k.id = id
        PROVE  \E j \in batch'[q] : j.id = id
    BY <1>1, <2>3, <2>4, <2>5
  <2> QED BY <1>6, <2>1, <2>5 DEF Held
<1>8. ASSUME NEW p \in Procs, NEW job \in batch[p], Mark(p, job)
      PROVE  ProcessingIsHeld'
  <2>1. job.id \in Id /\ Stored(job.id)
    BY DEF HeldAccounted, Active, Waiting, Processing, Stored, Claimed
  <2>2. /\ jobs'[job.id].status # "processing"
        /\ \A id \in Id : id # job.id => jobs'[id] = jobs[id]
    <3>1. CASE job.verdict = "succeeded"
      BY <1>1, <1>8, <2>1, <3>1 DEF Mark, MarkSucceeded
    <3>2. CASE job.verdict # "succeeded"
      BY <1>1, <1>8, <2>1, <3>2 DEF Mark, MarkFailed
    <3> QED BY <3>1, <3>2
  <2>3. batch' = [batch EXCEPT ![p] = batch[p] \ {job}]
    BY <1>8 DEF Mark
  <2>4. ASSUME NEW q \in Procs, NEW id \in Id, id # job.id, Held(q, id)
        PROVE  Held(q, id)'
    BY <1>1, <2>3, <2>4 DEF Held
  <2> QED BY <2>2, <2>4 DEF ProcessingIsHeld, Processing
<1>9. ASSUME NEW p \in Procs, Finish(p)
      PROVE  ProcessingIsHeld'
  BY <1>6, <1>9 DEF Finish, queueVars, Held
<1>10. ASSUME UNCHANGED batch, \A id \in Id : Processing(id)' => Processing(id)
       PROVE  ProcessingIsHeld'
  BY <1>10 DEF ProcessingIsHeld, Held
<1>11. ASSUME NEW id \in Id, EnqueueFailed(id)
       PROVE  ProcessingIsHeld'
  <2>1. jobs' = jobs \/ jobs' = [jobs EXCEPT ![id] = NewJob]
    BY <1>11 DEF EnqueueFailed, Enqueue
  <2> QED BY <1>1, <1>10, <1>11, <2>1 DEF EnqueueFailed, Unclaimed, NewJob, Processing
<1>12. ASSUME NEW id \in Id, HandleReset(id)
       PROVE  ProcessingIsHeld'
  BY <1>1, <1>10, <1>12 DEF HandleReset, Reset, Unclaimed, Processing
<1>13. ASSUME HandleArchive
       PROVE  ProcessingIsHeld'
  <2>1. PICK S \in SUBSET Id : ArchiveSucceededBefore(S)
    BY <1>13 DEF HandleArchive
  <2> QED BY <1>10, <1>13, <2>1 DEF HandleArchive, ArchiveSucceededBefore, Unclaimed,
                                    Absent, Processing
<1>14. ASSUME NEW id \in Id, TimePasses(id)
       PROVE  ProcessingIsHeld'
  BY <1>1, <1>10, <1>14 DEF TimePasses, BackoffElapses, Unclaimed, Processing, Job
<1>15. ASSUME UNCHANGED vars
       PROVE  ProcessingIsHeld'
  BY <1>10, <1>15 DEF vars, Processing
<1>16. ASSUME NEW p \in Procs, Round(p)
       PROVE  ProcessingIsHeld'
  BY <1>7, <1>8, <1>9, <1>16 DEF Round
<1>17. ~Restart /\ ~Fault
  BY DEF Restart, Fault
<1>18. (\A limit : ~ProcessOnceFails(limit)) /\ (\A id : ~ProcessJobFails(id))
  BY <1>17 DEF ProcessOnceFails, ProcessJobFails
<1>19. Limits \cup {BatchSize} \subseteq Int
  OBVIOUS
<1> QED
  BY <1>4, <1>5, <1>11, <1>12, <1>13, <1>14, <1>15, <1>16, <1>17, <1>18, <1>19 DEF Next, Procs

\* ProcessingIsHeld, for the memory backend: as long as the program is not
\* restarted on stored jobs, no job is left behind in state processing.
THEOREM ProcessingIsHeldHolds ==
    ASSUME ~Durable
    PROVE  Spec => []ProcessingIsHeld
<1>1. Init => ProcessingIsHeld
  BY DEF Init, QueueInit, Absent, ProcessingIsHeld, Processing
<1>2. IInv /\ ProcessingIsHeld /\ [Next]_vars => ProcessingIsHeld'
  BY ProcessingStep
<1> QED BY <1>1, <1>2, IInvHolds, PTL DEF Spec
=============================================================================
