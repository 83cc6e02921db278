# hotnew in TLA+

hotnew reads articles from feeds, stores the new ones, sends them to channels
(stdout, blog API, DingTalk, WeCom, webhook) and retries what a channel
refused. This directory models the parts in which goroutines, failures and
restarts meet, checks them with TLC on small instances and proves the main
invariants with TLAPS for every value of the constants.

`PROJECT.json` is the index: components, runs, mutants (one plausible bug of
the code for every property), the source lines of every definition, findings,
hazards and theorems. Paths below are relative to the repository root.

## 1. The system

| component | state | operations | who calls it |
|---|---|---|---|
| retry queue, memory (`internal/store/memory_retry_queue.go`) | jobs by id, archive | Enqueue, Reset, ArchiveSucceededBefore, ClaimReady, ClaimByID, MarkSucceeded, MarkFailed; lists | tracked distributor, retry processor, HTTP handlers |
| retry queue, file (`file_retry_queue.go`) | the map, `retry_jobs.jsonl`, the archive file | the same; load at startup | the same |
| retry queue, SQLite (`sqlite_store.go`) | two tables | the same | the same |
| retry processor (`internal/app/retry_processor.go`) | a mutex | ProcessOnce, ProcessJob: claim, send, mark | retry worker, HTTP |
| retry worker (`retry_worker.go`) | ticker goroutine | Start, Stop, one batch per tick | main |
| runner, scheduler (`runner.go`, `scheduler.go`) | `status.Running`, ticker goroutine | RunNow, Start, Stop | HTTP, main |
| pipeline, ingest (`pipeline.go`, `ingest/service.go`) | none | fetch, normalise, Upsert, Distribute | runner |
| async distributor (`distribute/async.go`) | channel of bounded capacity, `closed`, one goroutine | Distribute, Close, loop | pipeline, main |
| multi and tracked distributors (`multi.go`, `tracked.go`) | none | call the channels in turn; record the attempt; file a retry job | async distributor |
| article and delivery stores | map or slice, JSON-lines file | Upsert, Get, Append, List | pipeline, tracked distributor, processor, HTTP |
| DingTalk limiter (`dingtalk.go`) | message count of a window | Wait; set on "too many messages" | dispatcher, processor |
| HTTP server (`distribute/http/server.go`) | none | run, retries/run, run-one, reset, archive; reads; dashboard | operators |
| main (`cmd/hotnew/main.go`) | lifecycle | start everything, stop it in order | signals |

How they interact. A tick or `POST /v1/run` starts a run; each new article is
stored and put into the async queue; the queue's goroutine gives it to the
channels one after the other; a failed attempt becomes a retry job. The retry
worker and two HTTP handlers take jobs through claim, send and mark under the
processor's mutex. Reset, archive and Enqueue go to the queue directly,
without that mutex. The signal stops worker, scheduler and HTTP server within
ten seconds they share; deferred calls then close the async queue, with no
limit.

What is hard here:

- the mutex of the queue protects single calls, the mutex of the processor a
  whole round; reset, archive and enqueue come in between claim and mark, and
  the mark writes values computed from a copy taken at the claim;
- a crash between claim and mark, between storing an article and sending it,
  between two lines of a file, or between truncation and rewriting;
- operations that change memory first and stay changed when the write fails, and
  callers that drop the error;
- a log whose last line lacks its end, or is longer than the next start can read;
- transactions of several statements on the one connection of a pool;
- a refusal by the full queue after the article has been stored;
- a check of `closed` and a send that are not atomic, which only the order of
  shutdown keeps apart, within a time limit;
- a sleep with a mutex held, and a write to the field it protects without it;
- doubling a `time.Duration`.

What makes each part correct:

- *retry queue and processor*: one holder per job; a held job stays stored and
  active; budgets are neither exceeded nor used up early; only what a channel
  accepted is reported as succeeded; a job in state `processing` is being
  processed; every job is settled in the end; an operator's reset of a job that
  nobody is sending is not lost; the callers keep to what the backends assume;
- *retry processor with files*: what a channel has accepted is not sent again
  after a restart, whichever lines are missing; nor does a job get back a round it
  has used, or its target a second job;
- *file and SQLite backends*: behave as the contract of the queue across failures
  and restarts, forget no accepted job and move each from the active jobs to the
  archive once; every call of the SQLite backend returns;
- *backoff*: between base and maximum, no overflow, doubled from round to round;
- *dispatch*: one run at a time; no article sent twice by the dispatcher; the
  channels in their order, each only after those before it; one retry job for an
  article and channel; no
  stored article lost without a trace; no send to a closed queue; everything
  accepted is dispatched; shutdown ends; what is retried has its article on disk;
  the program can be started again on what it has written;
- *DingTalk limiter*: no window is overrun, nobody waits for ever, a refusal slows
  the senders down.

## 2. Modules

| module | about | uses |
|---|---|---|
| `RetryQueue` | jobs and the operations of `domain.RetryQueue`; its `QueueNext` is the abstract specification | |
| `RetryProcessor` | who calls the queue, in which order, with crashes | extends `RetryQueue` |
| `FileRetryQueue` | the file backend, line by line | refines `RetryQueue` by `INSTANCE` |
| `SQLiteRetryQueue` | the SQLite backend, statement by statement | refines `RetryQueue` by `INSTANCE` |
| `Backoff` | `nextBackoff` in wrapping integers | |
| `Dispatch` | from feed to channels, stores and files, shutdown, restart | |
| `RateLimiter` | the DingTalk limiter and its callers, with time | |
| `MCRetryProcessor`, `MCDispatch` | symmetry; feeds | |
| `RetryProcessorProofs`, `BackoffProofs`, `FileRetryQueueProofs`, `SQLiteRetryQueueProofs`, `DispatchProofs`, `RateLimiterProofs` | theorems | extend the module, `TLAPS` |

Operators that begin with a comment "Mutant:" are the deliberate bugs the
properties are tried against; no specification uses them.

### RetryQueue and RetryProcessor

`jobs` and `archived` are the two fields of `MemoryRetryQueue`; every operation
is one action because it runs under `q.mu`. A job keeps its status, its
attempts and whether `next_attempt_at` has passed (`due`); `TimePasses` sets
it. An identifier is the fingerprint of article, channel and time of the failed
attempt, hence the record of the three.

`mu` is `RetryProcessor.mu`. `ProcessOnce` and `ProcessJob` take it together
with the claim, `Deliver`, `FailDelivery` and `Abandon` are the three ways a job
leaves `processClaimed`'s switch, `Mark` is the write of the outcome and
`Finish` the unlock; each is a step of its own, so that anything may come in
between. `batch` holds the claimed copies. `HandleReset`, `HandleArchive` and
`EnqueueFailed` take no mutex. An article may be gone or a channel switched off
after a `Restart` (`retriable`). `tries`, `delivered`, `abandoned` and `asked`
only record what happened; `MaxTries` stops the operator's requests, not the
program's.

With `Durable`, `disk` is what the lines of the active file say. Every change
writes a line, which may fail: the change stays in memory and the line is in the
file (only the sync failed) or not. `Mark`, `HandleReset` and `EnqueueFailed`
drop the error or report it; a claim that cannot be written returns no job
(`ProcessOnceFails`, `ProcessJobFails`) and leaves what it has come to in state
`processing`. `Restart` loads `disk`. Lines that are cut off, and archive runs
that stop half way, are `FileRetryQueue`'s subject.

### FileRetryQueue

`mem` is the map, `disk` what `load` would read from the active file (last line
of each job), `archiveFile` the number of lines per job in the archive. `tail`
says how the active file ends: with a whole line; with one that can be decoded
and lacks its end, which swallows the next line; or it holds a line that cannot
be decoded. Operations on one job are one action that changes the map and
appends a line, or changes the map and fails to append it wholly, partly, but for
its end, or only at the sync. `ClaimReady` and `ArchiveSucceededBefore` write
several lines under `q.mu`: they are loops, with `op` as program counter.
`Truncate` and `RewriteNext` are `rewriteActive`. `Crash` loses the map; `Start`
loads the file and is impossible while a line cannot be decoded, as the program's
start is. A line of 64 KiB and more, which `load` refuses like one it cannot
decode, is not modelled here; `Dispatch` has such lines.

An archive run that a failed write or a kill cuts short leaves jobs in between:
before the truncation those that already have a line in the archive are in both
files, during the rewrite those not yet written are in neither. `HalfMoved` names
them and `cut` collects them; nothing else uses either. `NeverForgotten` and
`MovedOnce` say that no other job is ever affected.

`ImplementsQueue` maps `jobs` to the map while the program runs and to the file
while it does not, and `archived` to what is in the archive file and no longer a
job. A batch claim then is a series of claims, an archive run a series of moves,
and a restart a stutter. A kill that finds the active file behind the map
(`KilledBehind`) takes back what was not written, a step the contract does not
have: `ImplementsQueue` allows it, and the queue goes on from what it left.
`QueueNext` allows every operation at any time except
that a mark needs an active job and a number of attempts somebody has read.
That `RetryProcessor` calls its queue in no other way is its property
`KeepsContract`, theorem `KeepsContractHolds`.

### SQLiteRetryQueue

`rows` and `archiveRows` are the two tables as committed, `conn` is the one
connection of the pool. A call of `ClaimReady`, `ClaimByID` or
`ArchiveSucceededBefore` waits for it (`begin`), selects its rows with `BEGIN`
(`Begin...`), changes them one after the other (`Change`) and commits, or fails
and rolls back at any point. `Enqueue` is a query (`CheckActive`) and an `Insert`
with everything else in between; marks and `Reset` are one UPDATE each.
`Crash` loses what is not committed. The abstract step of a transaction is its
`Commit`, so the refinement needs no mapping beyond the two tables.

Two assumptions come from other modules: a mark's job is active
(`KeepsContract` of `RetryProcessor`), and no job is filed for a target that has a
settled one (`FiledOnce` of `Dispatch`, which holds because a channel is attempted
once, `AttemptedOnce`). The second one is `Unfiled`, which `Next` adds to
`CheckActive`; `CheckActive` itself has only the conditions of the code. Without
it a reset between `Enqueue`'s two statements would make two active jobs of a
target.

### Backoff

Every iteration of the loop is a step; `Twice` wraps at `MaxInt` as `int64`
does. The two constructors' defaults decide which pairs of base and maximum can
occur. `attempt` is what `failJob` passes, the attempts the job will have after
the round; `DoublesUntilCapped` compares the delays of consecutive failed rounds,
`FollowsDocs` each delay with the schedule of docs/retry.md.

### Dispatch

A caller of `RunNow` goes through `fetch`, `item`, `check` and `send`; `check`
and `send` are separate because `AsyncDistributor.Distribute` releases its lock
in between. The loop's goroutine goes through `try`, `record` and `enqueue`.
`main` goes through the calls it makes after the signal; each wait ends with
what it waits for or because the shared time is over (`timedOut`). A send to
the closed channel is the end of the process in the scheduler's goroutine; in a
handler's the HTTP server recovers it and `status.Running` stays set.
Its first wait is `RetryWorker.Stop`, whose batch has ended or not.
`Restart` may come at any moment, kills included, and loads the logs. `dropped`
records the articles that nothing will send any more, with the step that decided
it.

The stores are those of the file backend. `articleLog`, `recordLog` and `jobLog`
are what has a line; a write may fail (`MaxFaults`), and then the article store
and the queue have what the file lacks, the delivery store lacks what the file
may have, and only `Upsert`'s caller looks at the error. `tail` says how the
logs end, as in `FileRetryQueue`; an article of `LongArticles` has a line that
`bufio.Scanner` refuses to read, and with `LongErrors` so may a delivery record
that carries the text of a channel's error (dingtalk.go:171, tracked.go:58).
`Restart` is impossible while a log does not load.

### RateLimiter

`age` is the time since `lastReset`; the steps of `Wait` are taken with `mu`
held, `Sleep` included. `Load` and `Store` are the two halves of
`messageCount++`, because `Throttle` writes the field without the mutex: a data
race, of which the model has every interleaving of whole words. `told` says
that a refusal has come since the window began with nobody between the two
(`Incrementing`). The dispatcher's
context never ends, a retry round's may (`Impatient`). The dispatcher has one
goroutine and rounds exclude each other, so two callers are all there are.

## 3. What is checked

TLC, one configuration per run. "States" are distinct states.

| run | states | shows |
|---|---|---|
| `retry_memory` | 74 436 | `ProcessingIsHeld`, `Settles` |
| `retry_file` | 961 869 | `HeldOnce`, `HeldIsActive`, `BudgetLeft`, `FailedIsSpent`, `DoneMeansDelivered`, `SentOnce`, `OneRetryPerTarget`, `TriesWithinBudget`, `KeepsContract`, `ResetSticksUnheld` with a failing write and a restart anywhere |
| `backoff` | 2 983 | `DelayInRange`, `DoublesUntilCapped` |
| `file_queue` | 697 380 | `ImplementsQueue`, `NeverForgotten`, `MovedOnce` with a failing write and two kills anywhere |
| `sqlite_queue` | 86 603 | `ImplementsQueue`, `MovedWhole`, `CallsReturn` |
| `dispatch` | 989 267 | `SingleFlight`, `AttemptedOnce`, `InOrder`, `FiledOnce`, `Accounted`, `RunsEndBeforeClose`, `ExitDrained`, `JobsHaveArticles` |
| `dispatch_live` | 39 010 | `AcceptedIsDispatched`, `ShutsDown` |
| `rate_limiter` | 28 540 | `WindowBound`, `SlowsDown`, `Answers` |

and four runs in which the code contradicts its documentation, its tests or its
own messages:

| run | finding |
|---|---|
| `retry_lost_reset` | A reset during a round is overwritten by the round's mark: the job is `retrying` or `failed` with its old attempts, not `queued` with 0 (docs/retry.md:74). |
| `retry_crash_orphan` | After a crash between claim and mark a durable job is `processing` for good; run-one answers "already processing", although nothing processes it; only a reset frees it. |
| `backoff_schedule` | The delays are 5m, 5m, 10m, 20m: `Enqueue`'s caller sets the first one, and after the first failed retry `nextBackoff(1)` is the base again. docs/retry.md:32-38 says 5m, 10m, 20m. |
| `dispatch_restart` | An article whose line has 64 KiB or more is stored, and no later start can read the log; file_article_store_test.go:34-36 expects what was stored to load. Content is bounded only by the 2 MiB of a feed (rss/source.go:66). |

Some properties that hold excuse a case, and the excuse is where the code does not
do what it says or what one would wish:

- *SlowsDown*. After DingTalk's refusal the limiter "will slow down"
  (dingtalk.go:168), but its write to the count has no mutex: an increment that has
  read the count and not yet written it overwrites the refusal, and the next
  messages pass at once. A data race; the property says that nothing else undoes a
  refusal.
- *NeverForgotten*, *MovedOnce*. docs/retry.md:94 says the file backend moves
  entries. Killed (or failing) between the line in the archive and the rewrite, it
  has a job in both files, loads it as succeeded and archives it again; killed while
  the truncated active file is written again, it has lost the jobs still to be
  written, waiting ones among them. The properties say that no other job is touched.
- *ExitDrained* lets go of an article that a run which has outlived its Stop holds
  between `Upsert` and `Distribute` when main returns: it is lost and no counter
  shows it.
- *SingleFlight* lets the flag stay set once a shutdown that ran out of time has
  closed the queue under a handler's run, whose send then panics.

Bounds, and why they are enough:

- *retry_memory*: two articles, one channel, batches of one, so that a waiting
  job sees rounds of another; a handler with limits 1 and 2; budget
  three, four tries before operators stop, so that a job fails for good and is
  run once more.
- *retry_file*: two stamps of one target, for the refusal of duplicates and two
  jobs in one batch (limit 2); two handlers and the worker, because the hazards
  are between two holders and an operator; a budget of two and three tries, so
  that a job fails for good and is run once more; one failing write, so that it
  can hit a claim, a mark, a reset or an enqueue; one restart (a second one starts
  from the same kinds of state). Handlers are symmetric and there is no liveness
  in this run, so symmetry is sound.
- *backoff*: integers of six bits and settings on and around every boundary:
  zero (replaced by the defaults, as a negative one is; TLC configurations have
  no negative numbers, the theorems cover them), one, odd and even maxima, half of
  the largest value and the largest itself; eight rounds reach every cap.
  *backoff_schedule* has four rounds and no reset, which starts the schedule over.
- *file_queue*: two identifiers of one target, so that an enqueue may be refused
  and a loop writes two lines; one failed write, so that the line after it may be
  glued to it; two kills anywhere, so that an archive run can be cut short, started
  again and cut short again. The check for deadlock is off, because a file that
  cannot be decoded ends the program for good.
- *sqlite_queue*: two callers for one connection, the dispatcher and the worker;
  jobs of two targets and a second one of a target; transactions of up to two
  rows. Crashes and failing statements are not bounded.
- *dispatch*: two articles and a queue of one, so that the second finds it full
  while the first has not been taken; feeds that overlap and repeat; two
  channels, so that the second can be skipped; one failing write in any file and
  records of any length; scheduler and one handler (a third caller would find the
  same flag); two runs and one restart.
- *dispatch_live*: one feed, no failing log writes and no long records, which only
  add ways to drop an article and starts that fail.
- *dispatch_restart*: one feed with one long article.
- *rate_limiter*: a rate of two, so that a window is neither empty nor full in
  between; a period of three units, so that windows are looked at before, at and
  after their end; at most four messages in a window, two beyond the rate at its
  last instant.

Fairness.

- `RetryProcessor`: a round that has begun ends, because every channel call has
  a timeout (weak fairness of `Round`); time passes (weak fairness); the
  worker's ticker fires for ever and Go's mutex hands over to a waiter that
  starves (strong fairness of the worker's `ProcessOnce`). Nothing is assumed of
  handlers, resets, archive runs or outcomes of channels.
- `Dispatch`: steps of a started run, of the loop and of main's shutdown are
  weakly fair: fetches and channels have timeouts, store calls return, waits of
  main end with their context. Ticks, requests and the signal need not come.
- `SQLiteRetryQueue`: a statement returns (weak fairness of `Body`). `database/sql`
  keeps no order of arrival, it hands a released connection to one of the waiting
  calls, chosen at random; so a waiting call gets it in the end, with probability
  one, however often others had it before (strong fairness of `Begin` and
  `Insert`).
- `RateLimiter`: time passes and a call goes on (weak fairness), and the mutex
  reaches every waiter (strong fairness of `Lock`).

## 4. What is proved

For all values of the constants, from the assumptions named in the modules
(each of them what a constructor enforces by its defaults), with no theorem
taken on trust.

`RetryProcessorProofs`. The invariant `IInv` has five parts. `TypeOK`.
`Exclusive`: only the holder of the mutex has a batch, and has each job once.
`HeldAccounted`: a held job is active, its copy's attempts and its own round do
not exceed the rounds it has had, and its verdict agrees with the budget of the
copy. `JobsAccounted`: the attempts of a stored job are rounds it has had.
`LinesAccounted`: so are those of its line, since a restart makes the lines the
jobs. None
of the checked invariants is inductive by itself: what a mark writes comes from
the copy, so the copies must be accounted for, and a copy is only as good as the
exclusion that nobody else marks the job. From it follow `HeldOnceHolds`,
`HeldIsActiveHolds`, `BudgetLeftHolds`, `FailedIsSpentHolds` and
`DoneMeansDeliveredHolds`. `ProcessingIsHeldHolds` needs in addition that no
job is durable (`~Durable`), for a restart orphans it; `retry_crash_orphan` shows that it
does. `SentOnceHolds` needs `Sent`: unless an operator has asked for it, a job that
is held is `processing` in memory and on its line, and one that its channel has
accepted is claimed, succeeded or archived in both, with no other verdict to be
marked.

What a step can do to a job no operator has asked for is one lemma,
`UnaskedEffect`: nothing, or one of six things (taken up, judged, marked, entered,
put away, read back from its line), each with what it does to the job, its line,
its copies and its count of tries. The next two theorems are case analyses over
it. `TriesWithinBudgetHolds` needs `Frugal`: wherever such a job waits, in memory or
on its line, its attempts are exactly the rounds it has had, so that neither
reading an old line nor marking from a copy gives a round back.
`OneRetryPerTargetHolds` needs `Single`: a job that will be sent, now or when its
line is read back, is active in memory, which is what `Enqueue` looks at before
it lets another in; with a line alone that would be sent after a restart, the
guard would not see it.

Two action properties. `KeepsContractHolds`: every step of the callers is one
operation of `QueueNext` with its preconditions, so the refinements of the
backends apply to this program. Its crux is that a mark's job is active and its
attempts are those of a copy somebody holds. `ResetSticksUnheldHolds` is the exact
scope of the finding `retry_lost_reset`: until a write fails, a reset is lost
to no one but the process that holds the job when it comes. Its invariant
`Steady` says that file and memory agree, so a restart changes nothing, and that
a queued job has used no attempt, so a second reset or an enqueue changes nothing.

`BackoffProofs`. `DelayInRangeHolds`, and `NoOverflow`: `Double` always writes
twice the value, because a value below `maxBackoff \div 2` doubles below
`MaxInt`. The invariant says that the loop's value stays between base and
maximum. `DoublesUntilCappedHolds` relates two failed rounds that lie a whole run of
the loop apart, so it needs to know what each stored delay is: with n attempts the
base doubled n-1 times, cut off at the maximum (`DelayFollows`), because the loop's
value is the base doubled once per iteration (`LoopFollows`). `Doublings` defines
these powers by recursion. The library's induction theorems cannot be used
with the installed provers, so the induction is done on sets: `SetInduction` shows
that a set of naturals with zero and all successors is everything, because
its complement would have a least element. From it come existence and uniqueness
of the function on each initial segment, hence `DoublingsEquation`, and that the
doublings grow, hence that the loop's early return at half the maximum is where the
doubling passes the maximum, one unit apart when the maximum is odd.

`FileRetryQueueProofs`. `FileImplementsQueue`: wherever it is killed and whatever
writes fail, the file backend refines the queue's contract, but for the kills that
find the file behind the map (`StepRefines`: each step is an operation, a stutter
or such a kill). The invariant is `LoopsSeeWhatTheyChose`: the loops act on the
states they chose on. `NeverForgottenHolds` and `MovedOnceHolds` make no exception
for these kills, only for the jobs in `cut`. Both follow from `AllPlaced`, which
says for each accepted job that no run has left half moved where it is at every
moment of an operation: on a line of the active file, in the archive once, or
among those the rewrite has still to write, and how the map agrees with that.
The step that matters is the one that cuts an operation short: whatever it leaves
in both files or in neither is in `cut`, and no other job.

`SQLiteRetryQueueProofs`. `SQLiteImplementsQueue` and `MovedWholeHolds`, with kills
and failures anywhere. The invariant: only the holder of the connection is in a
transaction (`OneTransaction`), hence the rows it selected are at its commit what
they were (`SelectedStay`); nothing appears between `Enqueue`'s two statements that
its query would have found (`InsertIsFirst`); and every filed job is in one table
(`OneTable`).

`DispatchProofs`. `SingleFlightHolds` and `RunsEndBeforeCloseHolds` come from
`Flight`, which relates main's position to those of the callers of `RunNow`
(`Order`). `AttemptedOnceHolds` and `JobsHaveArticlesHolds` come from `Way`: an
article on its way is in one place only, a run's hands, the queue or the loop's
hands, has a line in the log, and the channels it has not come to have not seen
it. None of these is inductive without the others: that a run alone holds an
article needs the single flight. `AccountedHolds` adds `Trail` to `Way`: the
channels the loop has passed for its article are on record, and a job of the map
has a line or is known to lack it. `ExitDrainedHolds` comes from `Drained`, the
loop's goroutine ends only at the empty closed queue and main after it, with
`Accounted`, and from `Flight`, by which a run is in progress at the end only if
the time of the shutdown is over. `InOrderHolds` and
`FiledOnceHolds` come from `Ledger`, on top of `Way` and `Trail`: what the loop is
about to record or to file has been attempted, and a job is only there for an
article that was attempted and that the loop is done with. `InOrder` alone is not
inductive: it says nothing of a job that could appear for a channel the loop has
already passed, which `Way` excludes because later channels have not been
called.

`RateLimiterProofs`. `WindowBoundHolds`: the unlocked write may undo increments
and increments may undo it, so the count is not the number of messages of the
window. The invariant is that it covers them or is at the rate (`Covers`), for
the stored count as for the copy about to be written back, and that whoever is
about to be let through has found room or an old window (`RoomFound`).
`SlowsDownHolds` adds `StaysFull`: after a refusal that met no increment, neither
the count nor a copy of it that is about to be written back is below the rate.

Each of these modules also proves its `TypeOK`.

Only model-checked: the liveness properties (`Settles`, `AcceptedIsDispatched`,
`ShutsDown`, `Answers`, `CallsReturn`), since fairness is out of the prover's
reach. Every safety property of the passing runs is a theorem.

## 5. What is not modelled

- *SQLite article and delivery stores*. The article store's `Upsert` leaves out
  the column `hash`, which is NOT NULL, and its `Get` reads eleven columns into ten
  places: at this commit the SQLite backend stores no article and the pipeline
  never comes to a retry job. `SQLiteRetryQueue` therefore checks the component
  against its contract, with rows of articles as a constant, and says nothing of
  the whole program on this backend. Its failures are those of a killed process;
  with `synchronous=NORMAL` a power loss may in addition undo the last commits.
  Its lists have their own default limits and change nothing.
- *Formatting, HTTP of the channels, RSS parsing, dashboard, configuration,
  logger, lists and filters*: no state that changes; channels and sources appear
  by their outcome.
- *Time*: delays and timeouts are choices, except in `Backoff` and `RateLimiter`. So
  a request whose context has expired while it waited for the mutex, and a batch
  that the signal cuts short, are not told from a channel that refuses.
- *Delivery records of retry rounds*: nothing reads them.
- *Closing the stores*: main closes them after the async queue is drained. A retry
  worker that has outlived its Stop then meets closed files; to the retry queue
  that is one more failing write.
- *The archive file's own lines*: `load` does not read that file, so how it ends
  makes no difference.

## 6. Plan

In the order of importance; 1 to 9 are done, 10 and 11 are left.

1. `RetryQueue`, `RetryProcessor`: the core of the program's promises.
2. `RetryProcessorProofs`.
3. `Backoff` and its proofs.
4. `FileRetryQueue`, the refinement, and its proofs.
5. `Dispatch`.
6. `RateLimiter` and its proofs.
7. `Dispatch` with failing writes in all three files, logs that do not load and
   the retry worker in the shutdown; `DispatchProofs`.
8. `RetryProcessor` with lines that are not written; `FileRetryQueue` with lines
   that are glued.
9. `SQLiteRetryQueue` and its proofs.
10. Contexts that end: a batch that the signal cuts short, a request that has
    waited too long for the mutex.
11. `FileRetryQueue` with job lines too long for the scanner.
