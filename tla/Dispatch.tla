------------------------------ MODULE Dispatch ------------------------------
(***************************************************************************)
(* The way of an article from its feed to the channels: the scheduler and  *)
(* POST /v1/run start a run of the pipeline (Runner.RunNow, one at a       *)
(* time), the run stores new articles and hands them to the bounded queue  *)
(* of AsyncDistributor, whose goroutine gives each to the channels in turn *)
(* (MultiDistributor), recording every attempt and filing a retry job for  *)
(* the failed one (TrackedDistributor).  main shuts all of it down.        *)
(*                                                                         *)
(* Abstractions.  Channels are numbered in the order of                    *)
(* mustBuildDistributor.  What a fetch returns is one of the Feeds.  The   *)
(* result counters of a run are replaced by the set of dropped articles.   *)
(* Stores and queue are those of the file backend: what the program sees   *)
(* and what a restart will load differ when a write fails.  What becomes   *)
(* of a retry job is the subject of modules RetryQueue and FileRetryQueue. *)
(***************************************************************************)
EXTENDS Integers, Sequences, FiniteSets

CONSTANTS
    Articles,       \* identifiers of articles (fingerprints)
    NumChannels,    \* channels that mustBuildDistributor has set up
    Scheduler,      \* the goroutine of Scheduler.loop
    Handlers,       \* goroutines of POST /v1/run
    Buffer,         \* capacity of the queue
    Feeds,          \* what ingest may return: sequences of articles
    NoArticle,
    LongArticles,   \* articles whose line is longer than bufio.Scanner reads
    LongErrors,     \* may a channel's error make a record's line longer than that
    MaxFaults,      \* bound: failing writes in a behaviour
    MaxRuns,        \* bound: runs in a behaviour
    MaxRestarts     \* bound: restarts in a behaviour

Runs == {Scheduler} \cup Handlers
Channels == 1 .. NumChannels

\* The stdout channel is always there; NewAsyncDistributor replaces a buffer
\* that is not positive by 128.
ASSUME DispatchAssumption ==
    /\ NumChannels \in Nat \ {0}
    /\ Buffer \in Nat \ {0}
    /\ Scheduler \notin Handlers
    /\ Feeds \subseteq Seq(Articles)
    /\ NoArticle \notin Articles
    /\ LongErrors \in BOOLEAN
    /\ MaxFaults \in Nat
    /\ MaxRuns \in Nat
    /\ MaxRestarts \in Nat

VARIABLES
    running,        \* r.status.Running
    run,            \* where each caller of RunNow is, and its items to come
    articles,       \* the article store, as the program sees it
    articleLog,     \* the articles that have a line in its file
    queue, closed,  \* d.queue and d.closed
    loop,           \* the goroutine of AsyncDistributor.loop
    records,        \* the delivery store, as the program sees it
    recordLog,      \* the records that have a line in its file
    retryJobs,      \* jobs that have been enqueued: article and channel
    jobLog,         \* those of them that have a line in the file
    tail,           \* how the two logs end
    main            \* how far main has come

\* Observation only.
VARIABLES
    tries,          \* how often each channel was called for each article
    dropped,        \* stored articles that no run and no loop will send
    unwritten,      \* records and jobs whose append has failed
    timedOut,       \* a Stop or Shutdown has given up waiting
    runs, faults, restarts

pipeline == <<running, run, articles, articleLog>>
stores == <<records, recordLog, retryJobs, jobLog>>
async == <<queue, closed, loop, stores>>
counts == <<runs, faults, restarts>>
observed == <<tries, dropped, unwritten, timedOut, counts>>
vars == <<pipeline, async, tail, main, observed>>

\* check: Upsert has reported the article as new, Distribute is called;
\* send: it has read closed = false; gone: the goroutine has ended.
RunState == [pc: {"idle", "fetch", "item", "check", "send", "gone"}, items: Seq(Articles)]
IdleRun == [pc |-> "idle", items |-> <<>>]

\* A log ends with a complete line, with one that lacks its end and can still
\* be decoded, or no longer loads.
Files == {"articles", "deliveries"}
TailState == {"ended", "bare", "broken"}

LoopState == [pc: {"waiting", "try", "record", "enqueue", "gone"},
              article: Articles \cup {NoArticle},
              channel: Channels,
              status: {"success", "failed"}]
IdleLoop == [pc |-> "waiting", article |-> NoArticle, channel |-> 1, status |-> "success"]

Record == [article: Articles, channel: Channels, status: {"success", "failed"}]

Job == Articles \X Channels

\* serving; then the calls main makes in turn after the signal:
\* RetryWorker.Stop, Scheduler.Stop, httpServer.Shutdown, the deferred
\* async.Close; and the two ends.
MainState == {"serving", "stopWorker", "stopScheduler", "stopHTTP", "draining",
              "exited", "panicked"}
Alive == main \notin {"exited", "panicked"}

Init ==
    /\ running = FALSE
    /\ run = [p \in Runs |-> IdleRun]
    /\ articles = {}
    /\ articleLog = {}
    /\ queue = <<>>
    /\ closed = FALSE
    /\ loop = IdleLoop
    /\ records = {}
    /\ recordLog = {}
    /\ retryJobs = {}
    /\ jobLog = {}
    /\ tail = [file \in Files |-> "ended"]
    /\ main = "serving"
    /\ tries = [target \in Job |-> 0]
    /\ dropped = {}
    /\ unwritten = {}
    /\ timedOut = FALSE
    /\ runs = 0
    /\ faults = 0
    /\ restarts = 0

-----------------------------------------------------------------------------
(* The logs: one JSON line per append, read back by a bufio.Scanner.       *)

\* A line is appended and synced.  A line that lacks its end swallows it, and a
\* line that is too long stops the scanner.
Write(file, fits) ==
    tail' = [tail EXCEPT ![file] = IF @ = "ended" /\ fits THEN "ended" ELSE "broken"]

\* Write or Sync reports an error: nothing was written, the line was written
\* and not synced, it lacks only its end, or it is cut off.  written tells
\* whether a line has come into the file.
WriteFails(file, fits, written) ==
    /\ faults < MaxFaults
    /\ faults' = faults + 1
    /\ IF written
         THEN Write(file, fits) \/ tail' = [tail EXCEPT ![file] =
                                              IF @ = "ended" /\ fits THEN "bare" ELSE "broken"]
         ELSE UNCHANGED tail \/ tail' = [tail EXCEPT ![file] = "broken"]

-----------------------------------------------------------------------------
(* Runner.RunNow and Pipeline.Run.                                         *)

\* The HTTP server takes requests until Shutdown is called.  The scheduler's
\* select may still see a tick after its context has been cancelled.
MayTrigger(p) ==
    p \in Handlers => main \in {"serving", "stopWorker", "stopScheduler"}

\* Mutant: the status is not looked at.
RunNowUnguarded(p) ==
    /\ Alive
    /\ run[p].pc = "idle"
    /\ MayTrigger(p)
    /\ runs < MaxRuns
    /\ runs' = runs + 1
    /\ running' = TRUE
    /\ run' = [run EXCEPT ![p].pc = "fetch"]
    /\ UNCHANGED <<articles, articleLog, async, tail, main, tries, dropped, unwritten,
                   timedOut, faults, restarts>>

\* A caller that finds a run in progress gets ErrRunInProgress: no step.
RunNow(p) ==
    /\ Alive
    /\ run[p].pc = "idle"
    /\ ~running
    /\ MayTrigger(p)
    /\ runs < MaxRuns
    /\ runs' = runs + 1
    /\ running' = TRUE
    /\ run' = [run EXCEPT ![p].pc = "fetch"]
    /\ UNCHANGED <<articles, articleLog, async, tail, main, tries, dropped, unwritten,
                   timedOut, faults, restarts>>

EndRun(p) ==
    /\ running' = FALSE
    /\ run' = [run EXCEPT ![p] = IdleRun]

\* Some sources answered, or there is none.  The context of a scheduled run is
\* cancelled by the signal, and then no source answers.
Fetched(p) ==
    /\ Alive
    /\ run[p].pc = "fetch"
    /\ p = Scheduler => main = "serving"
    /\ \E items \in Feeds : run' = [run EXCEPT ![p] = [pc |-> "item", items |-> items]]
    /\ UNCHANGED <<running, articles, articleLog, async, tail, main, observed>>

\* All sources failed.
FetchFails(p) ==
    /\ Alive
    /\ run[p].pc = "fetch"
    /\ EndRun(p)
    /\ UNCHANGED <<articles, articleLog, async, tail, main, observed>>

RunEnds(p) ==
    /\ Alive
    /\ run[p].pc = "item"
    /\ run[p].items = <<>>
    /\ EndRun(p)
    /\ UNCHANGED <<articles, articleLog, async, tail, main, observed>>

Current(p) == Head(run[p].items)
HasItem(p) == Alive /\ run[p].items # <<>>
NextItem(p) == run' = [run EXCEPT ![p] = [pc |-> "item", items |-> Tail(@.items)]]

\* The normalizer refuses the item.
Invalid(p) ==
    /\ HasItem(p)
    /\ run[p].pc = "item"
    /\ NextItem(p)
    /\ UNCHANGED <<running, articles, articleLog, async, tail, main, observed>>

\* Mutant: the created flag is ignored, a known article is sent again.
UpsertAlwaysCreated(p) ==
    /\ HasItem(p)
    /\ run[p].pc = "item"
    /\ articles' = articles \cup {Current(p)}
    /\ articleLog' = articleLog \cup {Current(p)}
    /\ Write("articles", Current(p) \notin LongArticles)
    /\ run' = [run EXCEPT ![p].pc = "check"]
    /\ UNCHANGED <<running, async, main, observed>>

\* Only an article the store did not know is handed on.
Upsert(p) ==
    /\ HasItem(p)
    /\ run[p].pc = "item"
    /\ articles' = articles \cup {Current(p)}
    /\ articleLog' = articleLog \cup {Current(p)}
    /\ Write("articles", Current(p) \notin LongArticles)
    /\ IF Current(p) \in articles
         THEN NextItem(p)
         ELSE run' = [run EXCEPT ![p].pc = "check"]
    /\ UNCHANGED <<running, async, main, observed>>

ArticleWriteFails(p) ==
    \E written \in BOOLEAN :
      /\ WriteFails("articles", Current(p) \notin LongArticles, written)
      /\ articleLog' = IF written THEN articleLog \cup {Current(p)} ELSE articleLog

\* Mutant: the run does not look at the error and hands the article on.
UpsertFailsUnnoticed(p) ==
    /\ HasItem(p)
    /\ run[p].pc = "item"
    /\ articles' = articles \cup {Current(p)}
    /\ ArticleWriteFails(p)
    /\ IF Current(p) \in articles
         THEN NextItem(p)
         ELSE run' = [run EXCEPT ![p].pc = "check"]
    /\ UNCHANGED <<running, async, main, tries, dropped, unwritten, timedOut, runs, restarts>>

\* The file store has the article in its map before it writes the line, and
\* keeps it when the write (or only the sync) fails: later runs take it for a
\* duplicate.
UpsertFails(p) ==
    /\ HasItem(p)
    /\ run[p].pc = "item"
    /\ articles' = articles \cup {Current(p)}
    /\ ArticleWriteFails(p)
    /\ dropped' = dropped \cup ({Current(p)} \ articles)
    /\ NextItem(p)
    /\ UNCHANGED <<running, async, main, tries, unwritten, timedOut, runs, restarts>>

Drop(p) ==
    /\ dropped' = dropped \cup {Current(p)}
    /\ NextItem(p)
    /\ UNCHANGED <<running, articles, articleLog, async, tail, main, tries, unwritten,
                   timedOut, counts>>

\* AsyncDistributor.Distribute reads closed under the read lock ...
CheckOpen(p) ==
    /\ HasItem(p)
    /\ run[p].pc = "check"
    /\ ~closed
    /\ run' = [run EXCEPT ![p].pc = "send"]
    /\ UNCHANGED <<running, articles, articleLog, async, tail, main, observed>>

CheckClosed(p) ==
    /\ HasItem(p)
    /\ run[p].pc = "check"
    /\ closed
    /\ Drop(p)

\* Mutant: the capacity is compared one too late.
SendUnbounded(p) ==
    /\ HasItem(p)
    /\ run[p].pc = "send"
    /\ ~closed
    /\ Len(queue) <= Buffer
    /\ queue' = Append(queue, Current(p))
    /\ NextItem(p)
    /\ UNCHANGED <<running, articles, articleLog, closed, loop, stores, tail, main, observed>>

\* ... and sends after it has released the lock.
Send(p) ==
    /\ HasItem(p)
    /\ run[p].pc = "send"
    /\ ~closed
    /\ Len(queue) < Buffer
    /\ queue' = Append(queue, Current(p))
    /\ NextItem(p)
    /\ UNCHANGED <<running, articles, articleLog, closed, loop, stores, tail, main, observed>>

SendFull(p) ==
    /\ HasItem(p)
    /\ run[p].pc = "send"
    /\ ~closed
    /\ Len(queue) = Buffer
    /\ Drop(p)

\* A send on the closed channel panics.  In the scheduler's goroutine that is
\* the end of the process; the HTTP server recovers it in a handler's, and
\* RunNow has no deferred call to take status.Running back.
SendPanics(p) ==
    /\ HasItem(p)
    /\ run[p].pc = "send"
    /\ closed
    /\ dropped' = dropped \cup {Current(p)}
    /\ run' = [run EXCEPT ![p] = IdleRun]
    /\ main' = IF p = Scheduler THEN "panicked" ELSE main
    /\ UNCHANGED <<running, articles, articleLog, async, tail, tries, unwritten, timedOut,
                   counts>>

\* Scheduler.loop sees its context cancelled.
SchedulerExits ==
    /\ Alive
    /\ main # "serving"
    /\ run[Scheduler].pc = "idle"
    /\ run' = [run EXCEPT ![Scheduler].pc = "gone"]
    /\ UNCHANGED <<running, articles, articleLog, async, tail, main, observed>>

-----------------------------------------------------------------------------
(* AsyncDistributor.loop, MultiDistributor and TrackedDistributor.         *)

Rest == <<pipeline, main, dropped, timedOut, runs, restarts>>
Quiet == <<tail, unwritten, faults>>

Receive ==
    /\ Alive
    /\ loop.pc = "waiting"
    /\ queue # <<>>
    /\ loop' = [IdleLoop EXCEPT !.pc = "try", !.article = Head(queue)]
    /\ queue' = Tail(queue)
    /\ UNCHANGED <<closed, stores, tries, Quiet, Rest>>

\* The channel accepts the article, or refuses it or times out.
Try ==
    /\ Alive
    /\ loop.pc = "try"
    /\ tries' = [tries EXCEPT ![<<loop.article, loop.channel>>] = @ + 1]
    /\ \E status \in {"success", "failed"} :
         loop' = [loop EXCEPT !.pc = "record", !.status = status]
    /\ UNCHANGED <<queue, closed, stores, Quiet, Rest>>

Attempt == [article |-> loop.article, channel |-> loop.channel, status |-> loop.status]

\* After a success the next channel has its turn; after a failure a retry job
\* is filed.
AfterRecord ==
    loop' = IF loop.status = "failed" THEN [loop EXCEPT !.pc = "enqueue"]
            ELSE IF loop.channel < NumChannels
                   THEN [loop EXCEPT !.pc = "try", !.channel = @ + 1]
                   ELSE IdleLoop

\* The record of a failure carries the channel's error, whose length nobody
\* bounds (the message of a webhook's answer).
MayFit(fits) == fits \/ (LongErrors /\ loop.status = "failed")

\* The attempt is recorded: on its line in the file, then in the store.
AddRecord ==
    /\ Alive
    /\ loop.pc = "record"
    /\ records' = records \cup {Attempt}
    /\ recordLog' = recordLog \cup {Attempt}
    /\ \E fits \in BOOLEAN : MayFit(fits) /\ Write("deliveries", fits)
    /\ AfterRecord
    /\ UNCHANGED <<queue, closed, retryJobs, jobLog, tries, unwritten, faults, Rest>>

\* The append fails: the program does not see the record, a restart may.  The
\* distributor goes on as if nothing had happened.
AddRecordFails ==
    /\ Alive
    /\ loop.pc = "record"
    /\ \E written, fits \in BOOLEAN :
         /\ MayFit(fits)
         /\ WriteFails("deliveries", fits, written)
         /\ recordLog' = IF written THEN recordLog \cup {Attempt} ELSE recordLog
    /\ unwritten' = unwritten \cup {<<"record", loop.article, loop.channel>>}
    /\ AfterRecord
    /\ UNCHANGED <<queue, closed, records, retryJobs, jobLog, tries, Rest>>

\* Mutant: the loop ends at the first failed article.
EnqueueRetryAndStop ==
    /\ Alive
    /\ loop.pc = "enqueue"
    /\ retryJobs' = retryJobs \cup {<<loop.article, loop.channel>>}
    /\ jobLog' = jobLog \cup {<<loop.article, loop.channel>>}
    /\ loop' = [IdleLoop EXCEPT !.pc = "gone"]
    /\ UNCHANGED <<queue, closed, records, recordLog, tries, Quiet, Rest>>

\* Mutant: no retry job is filed.
EnqueueNothing ==
    /\ Alive
    /\ loop.pc = "enqueue"
    /\ loop' = IdleLoop
    /\ UNCHANGED <<queue, closed, stores, tries, Quiet, Rest>>

\* Mutant: MultiDistributor goes on with the next channel after a failure.
EnqueueRetryAndGoOn ==
    /\ Alive
    /\ loop.pc = "enqueue"
    /\ retryJobs' = retryJobs \cup {<<loop.article, loop.channel>>}
    /\ jobLog' = jobLog \cup {<<loop.article, loop.channel>>}
    /\ loop' = IF loop.channel < NumChannels
                 THEN [loop EXCEPT !.pc = "try", !.channel = @ + 1]
                 ELSE IdleLoop
    /\ UNCHANGED <<queue, closed, records, recordLog, tries, Quiet, Rest>>

\* MultiDistributor returns after a failure: the channels that follow never
\* see the article.  (The file of the jobs, and how it ends, is the subject of
\* FileRetryQueue.)
EnqueueRetry ==
    /\ Alive
    /\ loop.pc = "enqueue"
    /\ retryJobs' = retryJobs \cup {<<loop.article, loop.channel>>}
    /\ jobLog' = jobLog \cup {<<loop.article, loop.channel>>}
    /\ loop' = IdleLoop
    /\ UNCHANGED <<queue, closed, records, recordLog, tries, Quiet, Rest>>

\* Mutant: the job is filed again until its line is written.
EnqueueRetryAgain ==
    /\ Alive
    /\ loop.pc = "enqueue"
    /\ faults < MaxFaults
    /\ faults' = faults + 1
    /\ retryJobs' = retryJobs \cup {<<loop.article, loop.channel>>}
    /\ unwritten' = unwritten \cup {<<"job", loop.article, loop.channel>>}
    /\ UNCHANGED <<queue, closed, loop, records, recordLog, jobLog, tail, tries, Rest>>

\* The queue has the job in its map before it writes the line: it is retried
\* until a restart forgets it.
EnqueueRetryFails ==
    /\ Alive
    /\ loop.pc = "enqueue"
    /\ faults < MaxFaults
    /\ faults' = faults + 1
    /\ retryJobs' = retryJobs \cup {<<loop.article, loop.channel>>}
    /\ unwritten' = unwritten \cup {<<"job", loop.article, loop.channel>>}
    /\ loop' = IdleLoop
    /\ UNCHANGED <<queue, closed, records, recordLog, jobLog, tail, tries, Rest>>

\* The range over the closed channel ends when the channel is empty.
LoopEnds ==
    /\ Alive
    /\ loop.pc = "waiting"
    /\ queue = <<>>
    /\ closed
    /\ loop' = [loop EXCEPT !.pc = "gone"]
    /\ UNCHANGED <<queue, closed, stores, tries, Quiet, Rest>>

-----------------------------------------------------------------------------
(* main after the signal.                                                  *)

Others == <<pipeline, queue, loop, stores, tail, tries, dropped, unwritten, counts>>

Signal ==
    /\ main = "serving"
    /\ main' = "stopWorker"
    /\ UNCHANGED <<closed, timedOut, Others>>

\* Each wait ends when what it waits for has ended, or when the ten seconds
\* that the calls share are over.
WaitEnds(finished) ==
    \/ finished /\ UNCHANGED timedOut
    \/ ~finished /\ timedOut' = TRUE

\* The retry worker's batch is not modelled here: it has ended or it has not.
StopWorker ==
    /\ main = "stopWorker"
    /\ \E idle \in BOOLEAN : WaitEnds(idle)
    /\ main' = "stopScheduler"
    /\ UNCHANGED <<closed, Others>>

\* Mutant: Stop cancels the context and does not wait.
StopSchedulerNoWait ==
    /\ main = "stopScheduler"
    /\ main' = "stopHTTP"
    /\ UNCHANGED <<closed, timedOut, Others>>

StopScheduler ==
    /\ main = "stopScheduler"
    /\ WaitEnds(run[Scheduler].pc = "gone")
    /\ main' = "stopHTTP"
    /\ UNCHANGED <<closed, Others>>

\* Mutant: the channel is never closed.
ShutdownWithoutClose ==
    /\ main = "stopHTTP"
    /\ WaitEnds(\A h \in Handlers : run[h].pc = "idle")
    /\ main' = "draining"
    /\ UNCHANGED <<closed, Others>>

\* httpServer.Shutdown, and the first half of async.Close: closed is set and
\* the channel closed under the lock.
Shutdown ==
    /\ main = "stopHTTP"
    /\ WaitEnds(\A h \in Handlers : run[h].pc = "idle")
    /\ closed' = TRUE
    /\ main' = "draining"
    /\ UNCHANGED Others

\* Mutant: Close does not wait for the loop.
ExitUndrained ==
    /\ main = "draining"
    /\ main' = "exited"
    /\ UNCHANGED <<closed, timedOut, Others>>

\* async.Close is given a context without an end: it waits for the loop.
Exit ==
    /\ main = "draining"
    /\ loop.pc = "gone"
    /\ main' = "exited"
    /\ UNCHANGED <<closed, timedOut, Others>>

-----------------------------------------------------------------------------
\* Where a stored article is on its way.
Pending(a) ==
    \E p \in Runs : run[p].pc \in {"check", "send"} /\ Current(p) = a
Queued(a) == \E i \in DOMAIN queue : queue[i] = a
Dispatching(a) == loop.article = a

\* The process is killed, or has ended, and is started again on its files.  A
\* log that does not load is fatal (mustBuildStores).
Restart ==
    /\ restarts < MaxRestarts
    /\ \A file \in Files : tail[file] # "broken"
    /\ restarts' = restarts + 1
    /\ running' = FALSE
    /\ run' = [p \in Runs |-> IdleRun]
    /\ articles' = articleLog
    /\ records' = recordLog
    /\ retryJobs' = jobLog
    /\ queue' = <<>>
    /\ closed' = FALSE
    /\ loop' = IdleLoop
    /\ main' = "serving"
    /\ timedOut' = FALSE
    /\ dropped' = {a \in articleLog :
                     a \in dropped \/ Pending(a) \/ Queued(a) \/ Dispatching(a)}
    /\ UNCHANGED <<articleLog, recordLog, jobLog, tail, tries, unwritten, runs, faults>>

Terminated == ~Alive /\ UNCHANGED vars

RunStep(p) ==
    \/ Fetched(p) \/ FetchFails(p) \/ RunEnds(p)
    \/ Invalid(p) \/ Upsert(p) \/ UpsertFails(p)
    \/ CheckOpen(p) \/ CheckClosed(p) \/ Send(p) \/ SendFull(p) \/ SendPanics(p)

LoopStep ==
    \/ Receive \/ Try \/ AddRecord \/ AddRecordFails
    \/ EnqueueRetry \/ EnqueueRetryFails \/ LoopEnds

MainStep == StopWorker \/ StopScheduler \/ Shutdown \/ Exit

Next ==
    \/ \E p \in Runs : RunNow(p) \/ RunStep(p)
    \/ SchedulerExits
    \/ LoopStep
    \/ Signal
    \/ MainStep
    \/ Restart
    \/ Terminated

Spec == Init /\ [][Next]_vars

\* No step waits for ever: fetches and channel calls have timeouts, the store
\* calls return, and main's waits end with their context.  Ticks, requests and
\* the signal need not come.
Fairness ==
    /\ \A p \in Runs : WF_vars(RunStep(p))
    /\ WF_vars(SchedulerExits)
    /\ WF_vars(LoopStep)
    /\ WF_vars(MainStep)

FairSpec == Spec /\ Fairness

-----------------------------------------------------------------------------
TypeOK ==
    /\ running \in BOOLEAN
    /\ run \in [Runs -> RunState]
    /\ articles \subseteq Articles
    /\ articleLog \subseteq Articles
    /\ queue \in Seq(Articles)
    /\ Len(queue) <= Buffer
    /\ closed \in BOOLEAN
    /\ loop \in LoopState
    /\ records \subseteq recordLog /\ recordLog \subseteq Record
    /\ jobLog \subseteq retryJobs /\ retryJobs \subseteq Job
    /\ tail \in [Files -> TailState]
    /\ main \in MainState
    /\ tries \in [Articles \X Channels -> Nat]
    /\ dropped \subseteq Articles
    /\ unwritten \subseteq {"record", "job"} \X Articles \X Channels
    /\ timedOut \in BOOLEAN
    /\ runs \in Nat
    /\ faults \in Nat
    /\ restarts \in Nat

InRun(p) == run[p].pc \notin {"idle", "gone"}

\* Runner: at most one process is inside Pipeline.Run, and status.Running says
\* whether one is.  Only a handler whose run has outlived its Shutdown, and has
\* met the closed queue, leaves it set.  (A run that panics elsewhere would leave
\* it set as well; Pipeline.Run is modelled with no other panic.)
SingleFlight ==
    /\ \A p, q \in Runs : InRun(p) /\ InRun(q) => p = q
    /\ \A p \in Runs : InRun(p) => running
    /\ running => (closed /\ timedOut) \/ \E p \in Runs : InRun(p)

\* Whatever feeds, sources, runs and restarts repeat, the dispatcher calls a
\* channel at most once for an article; only the retry queue calls it again.
AttemptedOnce == \A a \in Articles, c \in Channels : tries[<<a, c>>] <= 1

Recorded(a, c, status) ==
    \/ [article |-> a, channel |-> c, status |-> status] \in records
    \/ <<"record", a, c>> \in unwritten
Filed(a, c) == <<a, c>> \in retryJobs \/ <<"job", a, c>> \in unwritten

\* All channels took the article; or the first ones did, one failed and has a
\* retry job, and the rest has nothing to show for the article.
Settled(a) ==
    \E n \in 0 .. NumChannels :
        /\ \A c \in 1 .. n : Recorded(a, c, "success")
        /\ n < NumChannels => Recorded(a, n + 1, "failed") /\ Filed(a, n + 1)
        /\ \A c \in (n + 2) .. NumChannels : tries[<<a, c>>] = 0

\* A channel is called for an article only when every channel before it has
\* taken the article and none of them has it in the retry queue, before or
\* after restarts: what a later channel shows, the earlier ones have.
InOrder ==
    \A a \in Articles, c \in Channels : tries[<<a, c>>] > 0 =>
        \A d \in 1 .. (c - 1) : Recorded(a, d, "success") /\ <<a, d>> \notin retryJobs

\* When the dispatcher files a job, its queue has none for that article and
\* channel, whichever writes have failed and whatever a restart has loaded: the
\* key the queues are indexed by is never overwritten.
FiledOnce == loop.pc = "enqueue" => <<loop.article, loop.channel>> \notin retryJobs

\* A stored article is never forgotten silently: it is on its way, or every
\* attempt at it is on record and the failed one has a retry job, unless just
\* that could not be written, or its run counted it as failed (queue full or
\* closed, log not written), or a crash has cut its way short.
Accounted ==
    \A a \in articles :
        \/ Pending(a) \/ Queued(a) \/ Dispatching(a)
        \/ Settled(a)
        \/ a \in dropped

\* Shutdown order: no send meets the closed queue unless Stop or Shutdown gave
\* up waiting for the run that makes it.
RunsEndBeforeClose ==
    closed => timedOut \/ \A p \in Runs : ~InRun(p)

\* When main returns the queue is empty, and every stored article is settled or
\* was counted as failed by its run.  Only a run that has outlived the wait of
\* Stop or Shutdown may still hold one, between Upsert (which has stored it) and
\* Distribute: that article is lost, and no counter shows it.
ExitDrained ==
    main = "exited" =>
        /\ queue = <<>>
        /\ \A a \in articles :
             Settled(a) \/ a \in dropped \/ (timedOut /\ Pending(a))

\* What a retry job or a delivery record is about is in the article log: no
\* restart can leave a job whose article is not found, whichever writes have
\* failed (Upsert's error keeps the article from the queue).
JobsHaveArticles ==
    /\ \A job \in retryJobs : job[1] \in articleLog
    /\ \A record \in recordLog : record.article \in articleLog

\* TestFileArticleStorePersistsRecords (file_article_store_test.go:34): what the
\* store has accepted it loads when it is opened again.  Here: the program can
\* always be started again on its own files, if no write has failed (refuted: a
\* long article is accepted and then stops the scanner).
StartsAgain == faults = 0 => \A file \in Files : tail[file] # "broken"

\* Every article the queue accepts is eventually dispatched, unless the
\* process dies first.
AcceptedIsDispatched ==
    \A a \in Articles :
        Queued(a) ~> Settled(a) \/ a \in dropped \/ main = "panicked"

\* The signal always brings the process down: main does not wait for ever on
\* a run, a handler or the loop (or else the process was killed and restarted).
ShutsDown == main = "stopWorker" ~> main \in {"exited", "panicked", "serving"}
=============================================================================
