--------------------------- MODULE DispatchProofs ---------------------------
(***************************************************************************)
(* The way of an article, for any feeds, any number of channels and of     *)
(* handlers, any capacity of the queue, failing writes and restarts.       *)
(***************************************************************************)
EXTENDS Dispatch, SequenceTheorems, TLAPS

USE DispatchAssumption

-----------------------------------------------------------------------------
(* Types.                                                                  *)

\* The goroutine of the queue has an article exactly while it works on it.
LoopBusy == loop.pc \in {"waiting", "gone"} <=> loop.article = NoArticle

LEMMA IdleTypes ==
    /\ IdleRun \in RunState
    /\ IdleLoop \in LoopState
    /\ IdleRun.pc = "idle" /\ IdleRun.items = <<>>
    /\ IdleLoop.pc = "waiting" /\ IdleLoop.article = NoArticle
BY DEF IdleRun, IdleLoop, RunState, LoopState, Channels

\* What is left of the items of a run.
LEMMA ItemsType ==
    ASSUME TypeOK, NEW p \in Runs, HasItem(p)
    PROVE  /\ Current(p) \in Articles
           /\ run[p].items \in Seq(Articles)
           /\ Tail(run[p].items) \in Seq(Articles)
<1>1. run[p].items \in Seq(Articles) /\ run[p].items # <<>>
  BY DEF TypeOK, HasItem, RunState
<1> QED BY <1>1, HeadTailProperties DEF Current

LEMMA WriteType ==
    ASSUME tail \in [Files -> TailState], NEW file \in Files, NEW fits, Write(file, fits)
    PROVE  tail' \in [Files -> TailState]
BY DEF Write, TailState

LEMMA WriteFailsType ==
    ASSUME tail \in [Files -> TailState], faults \in Nat,
           NEW file \in Files, NEW fits, NEW written \in BOOLEAN,
           WriteFails(file, fits, written)
    PROVE  tail' \in [Files -> TailState] /\ faults' = faults + 1
BY WriteType DEF WriteFails, TailState

LEMMA RunStepType ==
    ASSUME TypeOK, NEW p \in Runs, RunStep(p)
    PROVE  TypeOK'
<1> USE IdleTypes DEF TypeOK, async, stores, observed, counts
<1>1. CASE Fetched(p)
  BY <1>1 DEF Fetched, RunState
<1>2. CASE FetchFails(p) \/ RunEnds(p)
  BY <1>2 DEF FetchFails, RunEnds, EndRun
<1>3. ASSUME HasItem(p), NextItem(p) PROVE run' \in [Runs -> RunState]
  BY <1>3, ItemsType DEF NextItem, RunState
<1>4. ASSUME run' = [run EXCEPT ![p].pc = "check"] \/ run' = [run EXCEPT ![p].pc = "send"]
      PROVE  run' \in [Runs -> RunState]
  <2>1. [run[p] EXCEPT !.pc = "check"] \in RunState /\ [run[p] EXCEPT !.pc = "send"] \in RunState
    BY DEF RunState
  <2> QED BY <1>4, <2>1
<1>5. CASE Invalid(p)
  BY <1>3, <1>5 DEF Invalid
<1>6. CASE Upsert(p)
  <2>1. tail' \in [Files -> TailState]
    BY <1>6, WriteType DEF Upsert, Files
  <2>2. run' \in [Runs -> RunState]
    BY <1>3, <1>4, <1>6 DEF Upsert
  <2> QED BY <1>6, <2>1, <2>2, ItemsType DEF Upsert
<1>7. CASE UpsertFails(p)
  <2>1. /\ tail' \in [Files -> TailState]
        /\ faults' = faults + 1
        /\ articleLog' = articleLog \/ articleLog' = articleLog \cup {Current(p)}
    BY <1>7, WriteFailsType DEF UpsertFails, ArticleWriteFails, Files
  <2>2. run' \in [Runs -> RunState]
    BY <1>3, <1>7 DEF UpsertFails
  <2> QED BY <1>7, <2>1, <2>2, ItemsType DEF UpsertFails
<1>8. CASE CheckOpen(p)
  BY <1>4, <1>8 DEF CheckOpen
<1>9. CASE CheckClosed(p) \/ SendFull(p)
  BY <1>3, <1>9, ItemsType DEF CheckClosed, SendFull, Drop
<1>10. CASE Send(p)
  <2>1. queue' \in Seq(Articles) /\ Len(queue') = Len(queue) + 1 /\ Len(queue) \in Nat
    BY <1>10, ItemsType, AppendProperties, LenProperties DEF Send
  <2>2. run' \in [Runs -> RunState]
    BY <1>3, <1>10 DEF Send
  <2> QED BY <1>10, <2>1, <2>2 DEF Send
<1>11. CASE SendPanics(p)
  BY <1>11, ItemsType DEF SendPanics, MainState
<1> QED BY <1>1, <1>2, <1>5, <1>6, <1>7, <1>8, <1>9, <1>10, <1>11 DEF RunStep

LEMMA LoopStepType ==
    ASSUME TypeOK, LoopBusy, LoopStep
    PROVE  TypeOK' /\ LoopBusy'
<1> USE IdleTypes DEF TypeOK, LoopBusy, stores, pipeline, Rest, Quiet
<1>0. loop.pc \in {"try", "record", "enqueue"} =>
        /\ loop.article \in Articles
        /\ <<loop.article, loop.channel>> \in Articles \X Channels
        /\ Attempt \in Record
  BY DEF LoopState, Attempt, Record
<1>1. CASE Receive
  <2>1. /\ Head(queue) \in Articles
        /\ Tail(queue) \in Seq(Articles)
        /\ Len(Tail(queue)) = Len(queue) - 1
        /\ Len(queue) \in Nat
    BY <1>1, HeadTailProperties, LenProperties DEF Receive
  <2>2. loop' \in LoopState
    BY <1>1, <2>1 DEF Receive, LoopState
  <2> QED BY <1>1, <2>1, <2>2 DEF Receive
<1>2. CASE Try
  <2>1. loop' \in LoopState
    BY <1>2 DEF Try, LoopState
  <2>2. tries' \in [Articles \X Channels -> Nat]
    BY <1>0, <1>2 DEF Try
  <2> QED BY <1>2, <2>1, <2>2 DEF Try
<1>3. ASSUME AfterRecord, loop.pc = "record" PROVE loop' \in LoopState /\ LoopBusy'
  <2>1. CASE loop.status = "failed"
    BY <1>3, <2>1 DEF AfterRecord, LoopState
  <2>2. CASE loop.status # "failed" /\ loop.channel < NumChannels
    <3>1. loop' = [loop EXCEPT !.pc = "try", !.channel = @ + 1]
      BY <1>3, <2>2 DEF AfterRecord
    <3>2. loop.channel + 1 \in Channels
      BY <2>2 DEF LoopState, Channels
    <3> QED BY <1>0, <1>3, <3>1, <3>2 DEF LoopState
  <2>3. CASE loop.status # "failed" /\ ~(loop.channel < NumChannels)
    BY <1>3, <2>3 DEF AfterRecord
  <2> QED BY <2>1, <2>2, <2>3
<1>4. CASE AddRecord
  <2>1. tail' \in [Files -> TailState]
    <3>1. PICK fits \in BOOLEAN : Write("deliveries", fits)
      BY <1>4 DEF AddRecord
    <3> QED BY <3>1, WriteType DEF Files
  <2> QED BY <1>0, <1>3, <1>4, <2>1 DEF AddRecord
<1>5. CASE AddRecordFails
  <2>1. /\ tail' \in [Files -> TailState]
        /\ faults' = faults + 1
        /\ recordLog' = recordLog \/ recordLog' = recordLog \cup {Attempt}
    <3>1. PICK written \in BOOLEAN, fits \in BOOLEAN :
            /\ WriteFails("deliveries", fits, written)
            /\ recordLog' = IF written THEN recordLog \cup {Attempt} ELSE recordLog
      BY <1>5 DEF AddRecordFails
    <3> QED BY <3>1, WriteFailsType DEF Files
  <2> QED BY <1>0, <1>3, <1>5, <2>1 DEF AddRecordFails
<1>6. CASE EnqueueRetry \/ EnqueueRetryFails
  BY <1>0, <1>6 DEF EnqueueRetry, EnqueueRetryFails, Job
<1>7. CASE LoopEnds
  BY <1>7 DEF LoopEnds, LoopState
<1> QED BY <1>1, <1>2, <1>4, <1>5, <1>6, <1>7 DEF LoopStep

TypeInv == TypeOK /\ LoopBusy

LEMMA InitType == Init => TypeInv
<1> SUFFICES ASSUME Init PROVE TypeInv
  OBVIOUS
<1> USE IdleTypes DEF Init
<1>1. run \in [Runs -> RunState] /\ loop \in LoopState /\ LoopBusy
  BY DEF LoopBusy
<1>2. queue \in Seq(Articles) /\ Len(queue) <= Buffer
  BY EmptySeq
<1>3. tries \in [Articles \X Channels -> Nat]
  BY DEF Job
<1>4. tail \in [Files -> TailState] /\ main \in MainState
  BY DEF TailState, MainState
<1> QED BY <1>1, <1>2, <1>3, <1>4 DEF TypeInv, TypeOK

LEMMA NextType == TypeInv /\ [Next]_vars => TypeInv'
<1> SUFFICES ASSUME TypeInv, [Next]_vars PROVE TypeInv'
  OBVIOUS
<1> USE DEF TypeInv
<1>1. ASSUME NEW p \in Runs, RunNow(p) PROVE TypeInv'
  <2>1. [run[p] EXCEPT !.pc = "fetch"] \in RunState
    BY DEF TypeOK, RunState
  <2> QED BY <1>1, <2>1 DEF RunNow, TypeOK, LoopBusy, async, stores
<1>2. ASSUME NEW p \in Runs, RunStep(p) PROVE TypeInv'
  <2>1. UNCHANGED loop
    BY <1>2 DEF RunStep, Fetched, FetchFails, RunEnds, Invalid, Upsert, UpsertFails, CheckOpen,
                CheckClosed, Send, SendFull, SendPanics, Drop, async
  <2> QED BY <1>2, <2>1, RunStepType DEF LoopBusy
<1>3. CASE SchedulerExits
  <2>1. Scheduler \in Runs /\ [run[Scheduler] EXCEPT !.pc = "gone"] \in RunState
    BY DEF TypeOK, RunState, Runs
  <2> QED BY <1>3, <2>1 DEF SchedulerExits, TypeOK, LoopBusy, async, stores, observed, counts
<1>4. CASE LoopStep
  BY <1>4, LoopStepType
<1>5. CASE Signal \/ MainStep
  <2>1. main' \in MainState /\ closed' \in BOOLEAN /\ timedOut' \in BOOLEAN /\ UNCHANGED Others
    BY <1>5 DEF Signal, MainStep, StopWorker, StopScheduler, Shutdown, Exit, WaitEnds, MainState,
                TypeOK
  <2> QED BY <2>1 DEF TypeOK, LoopBusy, Others, pipeline, stores, counts
<1>6. CASE Restart
  <2>1. run' \in [Runs -> RunState] /\ loop' \in LoopState /\ LoopBusy'
    BY <1>6, IdleTypes DEF Restart, LoopBusy
  <2>2. queue' \in Seq(Articles) /\ Len(queue') <= Buffer
    BY <1>6, EmptySeq DEF Restart
  <2>3. dropped' \subseteq Articles /\ main' \in MainState
    BY <1>6 DEF Restart, TypeOK, MainState
  <2>4. /\ records' \subseteq recordLog' /\ recordLog' \subseteq Record
        /\ jobLog' \subseteq retryJobs' /\ retryJobs' \subseteq Job
        /\ articles' \subseteq Articles /\ articleLog' \subseteq Articles
        /\ restarts' \in Nat
    BY <1>6 DEF Restart, TypeOK
  <2>5. running' \in BOOLEAN /\ closed' \in BOOLEAN /\ timedOut' \in BOOLEAN
    BY <1>6, Zenon DEF Restart
  <2> QED BY <1>6, <2>1, <2>2, <2>3, <2>4, <2>5 DEF Restart, TypeOK
<1>7. CASE UNCHANGED vars
  BY <1>7 DEF vars, pipeline, async, stores, observed, counts, TypeOK, LoopBusy
<1> QED BY <1>1, <1>2, <1>3, <1>4, <1>5, <1>6, <1>7 DEF Next, Terminated

\* Every reachable state is well typed: the queue never holds more than its
\* capacity, whoever sends.
THEOREM TypeCorrect == Spec => []TypeOK
<1>1. TypeInv => TypeOK
  BY DEF TypeInv
<1> QED BY <1>1, InitType, NextType, PTL DEF Spec

-----------------------------------------------------------------------------
(* One run at a time, and none when the queue is closed.                   *)

\* The order of main's calls: whoever could still send has ended before the
\* queue is closed, or a wait has been given up.
Order ==
    /\ closed => main \in {"draining", "exited", "panicked"}
    /\ main \in {"stopHTTP", "draining", "exited", "panicked"} =>
         timedOut \/ run[Scheduler].pc = "gone"
    /\ RunsEndBeforeClose

Flight == SingleFlight /\ Order

\* A run goes on, or it ends.
Moves(p) ==
    /\ InRun(p) /\ InRun(p)'
    /\ \A q \in Runs \ {p} : run'[q] = run[q]
    /\ UNCHANGED <<running, main, closed, timedOut>>
Ends(p) ==
    /\ InRun(p) /\ ~InRun(p)' /\ ~running'
    /\ \A q \in Runs \ {p} : run'[q] = run[q]
    /\ UNCHANGED <<main, closed, timedOut>>

LEMMA RunStepEffect ==
    ASSUME TypeInv, NEW p \in Runs, RunStep(p)
    PROVE  Moves(p) \/ Ends(p) \/ SendPanics(p)
<1> USE DEF TypeInv, TypeOK, InRun, async, observed
<1>1. CASE Fetched(p)
  BY <1>1 DEF Fetched, Moves
<1>2. CASE FetchFails(p) \/ RunEnds(p)
  <2>1. ~running' /\ UNCHANGED <<main, closed, timedOut>>
    BY <1>2, Zenon DEF FetchFails, RunEnds, EndRun
  <2>2. InRun(p) /\ run' = [run EXCEPT ![p] = IdleRun]
    BY <1>2 DEF FetchFails, RunEnds, EndRun
  <2> QED BY <2>1, <2>2, IdleTypes DEF Ends
<1>3. ASSUME run[p].pc \in {"item", "check", "send"}, NextItem(p),
             UNCHANGED <<running, main, closed, timedOut>>
      PROVE  Moves(p)
  BY <1>3 DEF NextItem, Moves
<1>4. CASE Invalid(p)
  BY <1>3, <1>4 DEF Invalid
<1>5. CASE Upsert(p)
  <2>1. run[p].pc = "item" /\ UNCHANGED <<running, main, closed, timedOut>>
    BY <1>5 DEF Upsert
  <2>2. CASE NextItem(p)
    BY <1>3, <2>1, <2>2
  <2>3. CASE run' = [run EXCEPT ![p].pc = "check"]
    BY <2>1, <2>3 DEF Moves
  <2> QED BY <1>5, <2>2, <2>3 DEF Upsert
<1>6. CASE UpsertFails(p)
  BY <1>3, <1>6 DEF UpsertFails
<1>7. CASE CheckOpen(p)
  BY <1>7 DEF CheckOpen, Moves
<1>8. CASE CheckClosed(p) \/ SendFull(p)
  BY <1>3, <1>8 DEF CheckClosed, SendFull, Drop
<1>9. CASE Send(p)
  BY <1>3, <1>9 DEF Send
<1> QED BY <1>1, <1>2, <1>4, <1>5, <1>6, <1>7, <1>8, <1>9 DEF RunStep

\* A wait that has ended was given up, or there was nothing to wait for.
LEMMA WaitEndsWell ==
    ASSUME NEW finished, WaitEnds(finished)
    PROVE  (timedOut => timedOut') /\ (timedOut' \/ finished)
<1>1. CASE finished /\ UNCHANGED timedOut
  BY <1>1
<1>2. CASE timedOut' = TRUE
  <2>1. timedOut'
    BY ONLY <1>2, Zenon
  <2> QED BY <2>1
<1> QED BY <1>1, <1>2 DEF WaitEnds

LEMMA FlightNext == TypeInv /\ Flight /\ [Next]_vars => Flight'
<1> SUFFICES ASSUME TypeInv, Flight, [Next]_vars PROVE Flight'
  OBVIOUS
<1> USE DEF Flight, SingleFlight, Order, RunsEndBeforeClose, InRun
<1>0. Scheduler \in Runs /\ run \in [Runs -> RunState]
  BY DEF Runs, TypeInv, TypeOK
<1>1. ASSUME NEW p \in Runs, RunNow(p) PROVE Flight'
  <2>1. running' /\ UNCHANGED <<main, closed, timedOut>> /\ ~running
    BY <1>1, Zenon DEF RunNow, async
  <2>2. run' = [run EXCEPT ![p].pc = "fetch"] /\ run[p].pc = "idle"
    BY <1>1 DEF RunNow
  <2>3. /\ run'[p].pc = "fetch"
        /\ \A q \in Runs : q # p => run'[q] = run[q] /\ ~InRun(q)
    BY <1>0, <2>1, <2>2 DEF RunState
  <2>4. ~(closed /\ ~timedOut)
    BY <1>1, <2>2 DEF RunNow, MayTrigger, Runs
  <2> QED BY <1>0, <2>1, <2>2, <2>3, <2>4
<1>2. ASSUME NEW p \in Runs, RunStep(p) PROVE Flight'
  <2>1. CASE Moves(p)
    BY <1>0, <2>1 DEF Moves
  <2>2. CASE Ends(p)
    BY <1>0, <2>2 DEF Ends
  <2>3. CASE SendPanics(p)
    <3>1. /\ closed /\ UNCHANGED <<running, closed, timedOut>>
          /\ run' = [run EXCEPT ![p] = IdleRun]
          /\ InRun(p) /\ main' = IF p = Scheduler THEN "panicked" ELSE main
      BY <2>3 DEF SendPanics, async
    <3>2. /\ ~InRun(p)'
          /\ \A q \in Runs : q # p => run'[q] = run[q]
          /\ timedOut
      BY <1>0, <3>1, IdleTypes
    <3> QED BY <1>0, <3>1, <3>2
  <2> QED BY <1>2, <2>1, <2>2, <2>3, RunStepEffect
<1>3. CASE SchedulerExits
  <2>1. /\ run' = [run EXCEPT ![Scheduler].pc = "gone"] /\ run[Scheduler].pc = "idle"
        /\ UNCHANGED <<running, main, closed, timedOut>>
    BY <1>3 DEF SchedulerExits, async, observed
  <2> QED BY <1>0, <2>1 DEF RunState
<1>4. CASE LoopStep
  <2>1. UNCHANGED <<run, running, main, closed, timedOut>>
    BY <1>4 DEF LoopStep, Receive, Try, AddRecord, AddRecordFails, EnqueueRetry,
                EnqueueRetryFails, LoopEnds, Rest, pipeline
  <2> QED BY <2>1
<1>5. CASE Signal \/ StopWorker \/ Exit
  <2>1. UNCHANGED <<run, running, closed>>
    BY <1>5 DEF Signal, StopWorker, Exit, Others, pipeline
  <2>2. timedOut => timedOut'
    <3>1. CASE StopWorker
      <4>1. PICK idle \in BOOLEAN : WaitEnds(idle)
        BY <3>1 DEF StopWorker
      <4> QED BY <4>1, WaitEndsWell
    <3> QED BY <1>5, <3>1 DEF Signal, Exit
  <2>3. \/ main = "serving" /\ main' = "stopWorker"
        \/ main = "stopWorker" /\ main' = "stopScheduler"
        \/ main = "draining" /\ main' = "exited"
    BY <1>5 DEF Signal, StopWorker, Exit
  <2> QED BY <2>1, <2>2, <2>3
<1>6. CASE StopScheduler
  <2>1. UNCHANGED <<run, running, closed>> /\ main = "stopScheduler" /\ main' = "stopHTTP"
    BY <1>6 DEF StopScheduler, Others, pipeline
  <2>2. (timedOut => timedOut') /\ (timedOut' \/ run[Scheduler].pc = "gone")
    <3>1. WaitEnds(run[Scheduler].pc = "gone")
      BY <1>6 DEF StopScheduler
    <3> QED BY <3>1, WaitEndsWell
  <2> QED BY <2>1, <2>2
<1>7. CASE Shutdown
  <2>1. UNCHANGED <<run, running>> /\ main = "stopHTTP" /\ main' = "draining"
    BY <1>7 DEF Shutdown, Others, pipeline
  <2>2. (timedOut => timedOut') /\ (timedOut' \/ \A h \in Handlers : run[h].pc = "idle")
    <3>1. WaitEnds(\A h \in Handlers : run[h].pc = "idle")
      BY <1>7 DEF Shutdown
    <3> QED BY ONLY <3>1, WaitEndsWell
  <2> QED BY <1>0, <2>1, <2>2 DEF Runs
<1>8. CASE Restart
  <2>1. ~running' /\ ~closed' /\ main' = "serving"
    BY <1>8, Zenon DEF Restart
  <2>2. \A p \in Runs : ~InRun(p)'
    BY <1>8, IdleTypes DEF Restart
  <2> QED BY <2>1, <2>2
<1>9. CASE UNCHANGED vars
  BY <1>9 DEF vars, pipeline, async, observed
<1> QED BY <1>1, <1>2, <1>3, <1>4, <1>5, <1>6, <1>7, <1>8, <1>9 DEF Next, MainStep, Terminated

LEMMA InitFlight == Init => Flight
<1> SUFFICES ASSUME Init PROVE Flight
  OBVIOUS
<1>1. ~running /\ ~closed /\ main = "serving"
  BY Zenon DEF Init
<1>2. \A p \in Runs : ~InRun(p)
  BY IdleTypes DEF Init, InRun
<1> QED BY <1>1, <1>2 DEF Flight, SingleFlight, Order, RunsEndBeforeClose

\* Runner: one run at a time, for any number of handlers, and status.Running
\* says so unless a handler has outlived its Shutdown and met the closed queue.
THEOREM SingleFlightHolds == Spec => []SingleFlight
<1>1. Flight => SingleFlight
  BY DEF Flight
<1> QED BY <1>1, InitType, NextType, InitFlight, FlightNext, PTL DEF Spec

\* The queue is closed after the last run, or a wait has been given up.
THEOREM RunsEndBeforeCloseHolds == Spec => []RunsEndBeforeClose
<1>1. Flight => RunsEndBeforeClose
  BY DEF Flight, Order
<1> QED BY <1>1, InitType, NextType, InitFlight, FlightNext, PTL DEF Spec

-----------------------------------------------------------------------------
(* Where an article is on its way, and what has been tried for it there.   *)

Untouched(a) == \A c \in Channels : tries[<<a, c>>] = 0
OnHand(p) == run[p].pc \in {"check", "send"}
Once == \A i, j \in DOMAIN queue : queue[i] = queue[j] => i = j

\* An article is in the log before it leaves its run, it is in one place at a
\* time, and nothing has been tried for it before the loop has it.
Way ==
    /\ articleLog \subseteq articles
    /\ \A a \in Articles : a \notin articleLog => Untouched(a)
    /\ \A p \in Runs : OnHand(p) =>
         /\ run[p].items # <<>>
         /\ Current(p) \in articleLog
         /\ Untouched(Current(p))
         /\ ~Queued(Current(p)) /\ ~Dispatching(Current(p))
    /\ \A a \in Articles : Queued(a) =>
         a \in articleLog /\ Untouched(a) /\ ~Dispatching(a)
    /\ Once
    /\ loop.article # NoArticle =>
         /\ loop.article \in articleLog
         /\ \A c \in Channels :
              c > loop.channel \/ (c = loop.channel /\ loop.pc = "try") =>
                tries[<<loop.article, c>>] = 0
    /\ \A target \in Job : tries[target] <= 1
    /\ JobsHaveArticles

LEMMA QueueSend ==
    ASSUME queue \in Seq(Articles), Once, NEW a \in Articles, ~Queued(a),
           queue' = Append(queue, a)
    PROVE  /\ \A b : Queued(b)' <=> Queued(b) \/ b = a
           /\ Once'
<1>1. /\ Len(queue) \in Nat /\ DOMAIN queue = 1 .. Len(queue)
      /\ DOMAIN queue' = 1 .. Len(queue) + 1
      /\ \A i \in 1 .. Len(queue) : queue'[i] = queue[i]
      /\ queue'[Len(queue) + 1] = a
  BY LenProperties, AppendProperties
<1> QED BY <1>1 DEF Queued, Once

LEMMA QueueReceive ==
    ASSUME queue \in Seq(Articles), Once, queue # <<>>, queue' = Tail(queue)
    PROVE  /\ \A b : Queued(b)' <=> Queued(b) /\ b # Head(queue)
           /\ Queued(Head(queue))
           /\ Head(queue) \in Articles
           /\ Once'
<1>1. /\ Len(queue) \in Nat \ {0} /\ DOMAIN queue = 1 .. Len(queue)
      /\ DOMAIN queue' = 1 .. Len(queue) - 1
      /\ \A i \in 1 .. Len(queue) - 1 : queue'[i] = queue[i + 1]
      /\ Head(queue) = queue[1] /\ Head(queue) \in Articles
  BY LenProperties, HeadTailProperties, EmptySeq
<1>2. \A i \in 2 .. Len(queue) :
        queue[i] # queue[1] /\ i - 1 \in DOMAIN queue' /\ queue[i] = queue'[i - 1]
  BY <1>1 DEF Once
<1>3. \A i \in DOMAIN queue' : i + 1 \in 2 .. Len(queue) /\ queue'[i] = queue[i + 1]
  BY <1>1
<1>4. ASSUME NEW b PROVE Queued(b)' <=> Queued(b) /\ b # Head(queue)
  <2>1. Queued(b)' => Queued(b) /\ b # Head(queue)
    BY <1>1, <1>2, <1>3 DEF Queued
  <2>2. ASSUME Queued(b), b # Head(queue) PROVE Queued(b)'
    <3>1. PICK i \in 2 .. Len(queue) : queue[i] = b
      BY <1>1, <2>2 DEF Queued
    <3> QED BY <1>2, <3>1 DEF Queued
  <2> QED BY <2>1, <2>2
<1>5. Once'
  BY <1>1, <1>3 DEF Once
<1> QED BY <1>1, <1>4, <1>5 DEF Queued

\* A step after which the run has no article on its hands, or the same.
Leaves(p) ==
    /\ \A q \in Runs : OnHand(q)' => OnHand(q) /\ run'[q].items = run[q].items
    /\ articleLog \subseteq articleLog' /\ articles \subseteq articles'
    /\ articleLog' \subseteq articles'
    /\ UNCHANGED <<queue, loop, tries, retryJobs, recordLog>>

LEMMA LeavesWay ==
    ASSUME TypeInv, Way, NEW p \in Runs, Leaves(p)
    PROVE  Way'
BY DEF Leaves, Way, OnHand, Current, Queued, Dispatching, Untouched, Once, JobsHaveArticles

LEMMA RunStepLeaves ==
    ASSUME TypeInv, Way, NEW p \in Runs,
           \/ Fetched(p) \/ FetchFails(p) \/ RunEnds(p) \/ Invalid(p) \/ UpsertFails(p)
           \/ CheckOpen(p) \/ CheckClosed(p) \/ SendFull(p) \/ SendPanics(p)
    PROVE  Leaves(p)
<1> USE DEF TypeInv, async, stores, observed
<1>0. run \in [Runs -> RunState] /\ articleLog \subseteq articles
  BY DEF TypeOK, Way
<1>1. ASSUME NextItem(p) \/ run' = [run EXCEPT ![p] = IdleRun]
      PROVE  \A q \in Runs : OnHand(q)' => OnHand(q) /\ run'[q].items = run[q].items
  BY <1>0, <1>1, IdleTypes DEF NextItem, OnHand
<1>2. CASE Fetched(p)
  BY <1>0, <1>2 DEF Fetched, Leaves, OnHand
<1>3. CASE FetchFails(p) \/ RunEnds(p) \/ SendPanics(p)
  BY <1>0, <1>1, <1>3 DEF FetchFails, RunEnds, SendPanics, EndRun, Leaves
<1>4. CASE Invalid(p) \/ CheckClosed(p) \/ SendFull(p)
  BY <1>0, <1>1, <1>4 DEF Invalid, CheckClosed, SendFull, Drop, Leaves
<1>5. CASE UpsertFails(p)
  BY <1>0, <1>1, <1>5 DEF UpsertFails, ArticleWriteFails, Leaves
<1>6. CASE CheckOpen(p)
  BY <1>0, <1>6 DEF CheckOpen, Leaves, OnHand, RunState
<1> QED BY <1>2, <1>3, <1>4, <1>5, <1>6

LEMMA UpsertWay ==
    ASSUME TypeInv, Way, NEW p \in Runs, Upsert(p)
    PROVE  Way'
<1> USE DEF TypeInv, async, stores, observed
<1>0. run \in [Runs -> RunState] /\ articleLog \subseteq articles
  BY DEF TypeOK, Way
<1>1. CASE Current(p) \in articles
  <2>1. run' = [run EXCEPT ![p] = [pc |-> "item", items |-> Tail(@.items)]]
    BY <1>1 DEF Upsert, NextItem
  <2>2. Leaves(p)
    BY <1>0, <1>1, <2>1 DEF Upsert, Leaves, OnHand
  <2> QED BY <2>2, LeavesWay
<1>2. CASE Current(p) \notin articles
  <2>1. /\ run' = [run EXCEPT ![p].pc = "check"] /\ run[p].items # <<>>
        /\ articleLog' = articleLog \cup {Current(p)}
        /\ articles' = articles \cup {Current(p)}
        /\ UNCHANGED <<queue, loop, tries, retryJobs, recordLog>>
    BY <1>2 DEF Upsert, HasItem
  <2>2. /\ run'[p].pc = "check" /\ run'[p].items = run[p].items
        /\ \A q \in Runs : q # p => run'[q] = run[q]
    BY <1>0, <2>1 DEF RunState
  <2>3. Current(p) \in Articles /\ Current(p) \notin articleLog /\ Current(p)' = Current(p)
    BY <1>0, <1>2, <2>2, ItemsType DEF Current, Upsert
  <2>4. Untouched(Current(p)) /\ ~Queued(Current(p)) /\ ~Dispatching(Current(p))
    BY <2>3 DEF Way, Dispatching
  <2>5. \A q \in Runs : q # p => OnHand(q)' = OnHand(q) /\ Current(q)' = Current(q)
    BY <2>2 DEF OnHand, Current
  <2>6. \A a : Untouched(a)' = Untouched(a) /\ Queued(a)' = Queued(a) /\ Dispatching(a)' = Dispatching(a)
    BY <2>1 DEF Untouched, Queued, Dispatching
  <2>7. Once' = Once /\ JobsHaveArticles'
    BY <2>1 DEF Once, JobsHaveArticles, Way
  <2> QED BY <2>1, <2>2, <2>3, <2>4, <2>5, <2>6, <2>7 DEF Way
<1> QED BY <1>1, <1>2

LEMMA SendWay ==
    ASSUME TypeInv, Flight, Way, NEW p \in Runs, Send(p)
    PROVE  Way'
<1>1. /\ run[p].pc = "send" /\ run \in [Runs -> RunState] /\ queue \in Seq(Articles)
      /\ Current(p) \in Articles
  BY ItemsType DEF Send, TypeInv, TypeOK
<1>2. /\ queue' = Append(queue, Current(p))
      /\ UNCHANGED <<articles, articleLog, loop, tries, retryJobs, recordLog>>
  BY DEF Send, stores, observed
<1>3. run' = [run EXCEPT ![p] = [pc |-> "item", items |-> Tail(@.items)]]
  BY DEF Send, NextItem
<1>4. \A q \in Runs : ~OnHand(q)'
  BY <1>1, <1>3 DEF OnHand, Flight, SingleFlight, InRun
<1>5. /\ Current(p) \in articleLog /\ Untouched(Current(p))
      /\ ~Queued(Current(p)) /\ ~Dispatching(Current(p))
  BY <1>1 DEF Way, OnHand
<1>6. /\ \A b : Queued(b)' <=> Queued(b) \/ b = Current(p)
      /\ Once'
  BY <1>1, <1>2, <1>5, QueueSend DEF Way
<1>7. \A a : Untouched(a)' = Untouched(a) /\ Dispatching(a)' = Dispatching(a)
  BY <1>2 DEF Untouched, Dispatching
<1>8. JobsHaveArticles'
  BY <1>2 DEF JobsHaveArticles, Way
<1> QED BY <1>2, <1>4, <1>5, <1>6, <1>7, <1>8 DEF Way

\* A step of the loop that leaves the articles it does not work on alone.
LEMMA ReceiveWay ==
    ASSUME TypeInv, Way, Receive
    PROVE  Way'
<1>1. /\ queue \in Seq(Articles) /\ queue # <<>> /\ queue' = Tail(queue)
      /\ UNCHANGED <<run, articles, articleLog, tries, retryJobs, recordLog>>
  BY DEF Receive, TypeInv, TypeOK, Rest, stores, pipeline
<1>2. loop' = [IdleLoop EXCEPT !.pc = "try", !.article = Head(queue)] /\ loop.article = NoArticle
  BY DEF Receive, TypeInv, LoopBusy
<1>3. loop'.pc = "try" /\ loop'.article = Head(queue) /\ loop'.channel = 1
  BY <1>2 DEF IdleLoop
<1>4. /\ \A b : Queued(b)' <=> Queued(b) /\ b # Head(queue)
      /\ Queued(Head(queue)) /\ Head(queue) \in Articles /\ Once'
  BY <1>1, QueueReceive DEF Way
<1>5. \A a : Untouched(a)' = Untouched(a) /\ (Dispatching(a)' <=> a = Head(queue))
  BY <1>1, <1>3 DEF Untouched, Dispatching
<1>6. \A q \in Runs : OnHand(q)' = OnHand(q) /\ Current(q)' = Current(q) /\ run'[q] = run[q]
  BY <1>1 DEF OnHand, Current
<1>7. JobsHaveArticles' = JobsHaveArticles
  BY <1>1 DEF JobsHaveArticles
<1>8. \A c \in Channels : tries'[<<Head(queue), c>>] = 0
  BY <1>1, <1>4 DEF Way, Untouched
<1> QED BY <1>1, <1>3, <1>4, <1>5, <1>6, <1>7, <1>8 DEF Way

LEMMA TryWay ==
    ASSUME TypeInv, Way, Try
    PROVE  Way'
<1>1. /\ UNCHANGED <<run, articles, articleLog, queue, retryJobs, recordLog>>
      /\ loop.pc = "try" /\ loop \in LoopState
      /\ tries' = [tries EXCEPT ![<<loop.article, loop.channel>>] = @ + 1]
      /\ \E status \in {"success", "failed"} :
            loop' = [loop EXCEPT !.pc = "record", !.status = status]
  BY DEF Try, TypeInv, TypeOK, Quiet, Rest, stores, pipeline
<1>2. /\ loop'.pc = "record" /\ loop'.article = loop.article /\ loop'.channel = loop.channel
  BY <1>1 DEF LoopState
<1>3. loop.article \in Articles /\ loop.channel \in Channels /\ loop.article # NoArticle
  BY <1>1 DEF TypeInv, LoopBusy, LoopState
<1>4. /\ tries[<<loop.article, loop.channel>>] = 0
      /\ tries \in [Job -> Nat] /\ <<loop.article, loop.channel>> \in Job
  BY <1>1, <1>3 DEF Way, TypeInv, TypeOK, Job
<1>5. /\ tries'[<<loop.article, loop.channel>>] = 1
      /\ \A target \in Job : target # <<loop.article, loop.channel>> => tries'[target] = tries[target]
  BY <1>1, <1>4
<1>6. \A a \in Articles : a # loop.article => Untouched(a)' = Untouched(a)
  <2>1. ASSUME NEW a \in Articles, a # loop.article, NEW c \in Channels
        PROVE  tries'[<<a, c>>] = tries[<<a, c>>]
    BY <1>5, <2>1 DEF Job
  <2> QED BY <2>1 DEF Untouched
<1>7. \A a : Queued(a)' = Queued(a) /\ Dispatching(a)' = Dispatching(a)
  BY <1>1, <1>2 DEF Queued, Dispatching
<1>8. \A q \in Runs : OnHand(q)' = OnHand(q) /\ Current(q)' = Current(q) /\ run'[q] = run[q]
  BY <1>1 DEF OnHand, Current
<1>9. JobsHaveArticles' /\ Once'
  BY <1>1 DEF JobsHaveArticles, Once, Way
<1>10. \A c \in Channels : c > loop.channel => tries'[<<loop.article, c>>] = 0
  BY <1>3, <1>5 DEF Way, Job, Channels
<1>11. \A target \in Job : tries'[target] <= 1
  BY <1>5 DEF Way
<1>12. \A q \in Runs : OnHand(q) => Current(q) \in Articles
  BY DEF OnHand, TypeInv, TypeOK, Way
<1> QED BY <1>1, <1>2, <1>3, <1>6, <1>7, <1>8, <1>9, <1>10, <1>11, <1>12 DEF Way, Dispatching

\* Recording, filing and ending change neither the tries nor the places, except
\* that the loop may be done with its article.
LEMMA LoopWay ==
    ASSUME TypeInv, Way,
           AddRecord \/ AddRecordFails \/ EnqueueRetry \/ EnqueueRetryFails \/ LoopEnds
    PROVE  Way'
<1>1. /\ UNCHANGED <<run, articles, articleLog, queue, tries>>
      /\ loop \in LoopState
  BY DEF AddRecord, AddRecordFails, EnqueueRetry, EnqueueRetryFails, LoopEnds, TypeInv, TypeOK,
         Quiet, Rest, stores, pipeline
<1>2. JobsHaveArticles'
  <2>1. loop.pc \in {"record", "enqueue"} => loop.article \in articleLog
    BY DEF Way, TypeInv, LoopBusy
  <2>2. CASE AddRecord \/ AddRecordFails
    <3>1. loop.pc = "record" /\ retryJobs' = retryJobs
      BY <2>2 DEF AddRecord, AddRecordFails
    <3>2. recordLog' \subseteq recordLog \cup {Attempt}
      BY <2>2 DEF AddRecord, AddRecordFails
    <3> QED BY <1>1, <2>1, <3>1, <3>2 DEF Way, JobsHaveArticles, Attempt
  <2>3. CASE EnqueueRetry \/ EnqueueRetryFails
    <3>1. /\ loop.pc = "enqueue" /\ recordLog' = recordLog
          /\ retryJobs' = retryJobs \cup {<<loop.article, loop.channel>>}
      BY <2>3 DEF EnqueueRetry, EnqueueRetryFails
    <3> QED BY <1>1, <2>1, <3>1 DEF Way, JobsHaveArticles
  <2>4. CASE LoopEnds
    BY <1>1, <2>4 DEF LoopEnds, stores, Way, JobsHaveArticles
  <2> QED BY <2>2, <2>3, <2>4
<1>3. \/ loop'.article = NoArticle
      \/ /\ loop'.article = loop.article
         /\ loop'.channel \in Channels /\ loop'.channel >= loop.channel
         /\ loop'.pc = "try" => loop'.channel > loop.channel
  <2>1. CASE AfterRecord /\ loop.pc = "record"
    <3>1. CASE loop.status = "failed"
      BY <1>1, <2>1, <3>1 DEF AfterRecord, LoopState, Channels
    <3>2. CASE loop.status # "failed" /\ loop.channel < NumChannels
      <4>1. loop' = [loop EXCEPT !.pc = "try", !.channel = @ + 1]
        BY <2>1, <3>2 DEF AfterRecord
      <4> QED BY <1>1, <3>2, <4>1 DEF LoopState, Channels
    <3>3. CASE loop.status # "failed" /\ ~(loop.channel < NumChannels)
      BY <2>1, <3>3, IdleTypes DEF AfterRecord
    <3> QED BY <3>1, <3>2, <3>3
  <2>2. CASE loop' = IdleLoop
    BY <2>2, IdleTypes
  <2>3. CASE LoopEnds
    BY <1>1, <2>3 DEF LoopEnds, LoopState, TypeInv, LoopBusy
  <2> QED BY <2>1, <2>2, <2>3 DEF AddRecord, AddRecordFails, EnqueueRetry, EnqueueRetryFails
<1>4. \A a : Untouched(a)' = Untouched(a) /\ Queued(a)' = Queued(a)
  BY <1>1 DEF Untouched, Queued
<1>5. \A a \in Articles : Dispatching(a)' => Dispatching(a)
  BY <1>3 DEF Dispatching
<1>6. \A q \in Runs : OnHand(q)' = OnHand(q) /\ Current(q)' = Current(q) /\ run'[q] = run[q]
  BY <1>1 DEF OnHand, Current
<1>7. Once'
  BY <1>1 DEF Way, Once
<1>8. loop'.article # NoArticle =>
        /\ loop'.article \in articleLog'
        /\ \A c \in Channels :
             c > loop'.channel \/ (c = loop'.channel /\ loop'.pc = "try") =>
                tries'[<<loop'.article, c>>] = 0
  BY <1>1, <1>3 DEF Way, LoopState, Channels
<1>9. \A q \in Runs : OnHand(q) => Current(q) \in Articles
  BY DEF OnHand, TypeInv, TypeOK, Way
<1> QED BY <1>1, <1>2, <1>4, <1>5, <1>6, <1>7, <1>8, <1>9 DEF Way

LEMMA RestartWay ==
    ASSUME TypeInv, Way, Restart
    PROVE  Way'
<1>1. /\ run' = [p \in Runs |-> IdleRun] /\ queue' = <<>> /\ loop' = IdleLoop
      /\ articles' = articleLog /\ retryJobs' = jobLog
      /\ UNCHANGED <<articleLog, tries, recordLog>>
  BY DEF Restart
<1>2. \A p \in Runs : ~OnHand(p)'
  BY <1>1, IdleTypes DEF OnHand
<1>3. (\A a : ~Queued(a)') /\ Once'
  BY <1>1 DEF Queued, Once
<1>4. loop'.article = NoArticle
  BY <1>1, IdleTypes
<1>5. JobsHaveArticles'
  BY <1>1 DEF JobsHaveArticles, Way, TypeInv, TypeOK
<1>6. \A a : Untouched(a)' = Untouched(a)
  BY <1>1 DEF Untouched
<1> QED BY <1>1, <1>2, <1>3, <1>4, <1>5, <1>6 DEF Way

LEMMA WayNext == TypeInv /\ Flight /\ Way /\ [Next]_vars => Way'
<1> SUFFICES ASSUME TypeInv, Flight, Way, [Next]_vars PROVE Way'
  OBVIOUS
<1>1. ASSUME \A p \in Runs : OnHand(p)' => OnHand(p) /\ run'[p].items = run[p].items,
             UNCHANGED <<articles, articleLog, queue, loop, tries, retryJobs, recordLog>>
      PROVE  Way'
  <2>1. articleLog \subseteq articles
    BY DEF Way
  <2> QED BY <1>1, <2>1, LeavesWay DEF Leaves, Runs
<1>2. ASSUME NEW p \in Runs, RunNow(p) PROVE Way'
  BY <1>1, <1>2 DEF RunNow, OnHand, TypeInv, TypeOK, async, stores
<1>3. ASSUME NEW p \in Runs, RunStep(p) PROVE Way'
  BY <1>3, RunStepLeaves, LeavesWay, UpsertWay, SendWay DEF RunStep
<1>4. CASE SchedulerExits
  BY <1>1, <1>4 DEF SchedulerExits, OnHand, TypeInv, TypeOK, Runs, async, stores, observed
<1>5. CASE LoopStep
  BY <1>5, ReceiveWay, TryWay, LoopWay DEF LoopStep
<1>6. CASE Signal \/ MainStep
  <2>1. UNCHANGED Others
    BY <1>6 DEF Signal, MainStep, StopWorker, StopScheduler, Shutdown, Exit
  <2> QED BY <1>1, <2>1 DEF Others, pipeline, stores, OnHand
<1>7. CASE Restart
  BY <1>7, RestartWay
<1>8. CASE UNCHANGED vars
  BY <1>1, <1>8 DEF vars, pipeline, async, stores, observed, OnHand
<1> QED BY <1>2, <1>3, <1>4, <1>5, <1>6, <1>7, <1>8 DEF Next, Terminated

LEMMA InitWay == Init => Way
<1> SUFFICES ASSUME Init PROVE Way
  OBVIOUS
<1>1. /\ run = [p \in Runs |-> IdleRun] /\ queue = <<>> /\ loop = IdleLoop
      /\ articles = {} /\ articleLog = {} /\ retryJobs = {} /\ recordLog = {}
      /\ tries = [target \in Job |-> 0]
  BY DEF Init
<1>2. (\A p \in Runs : ~OnHand(p)) /\ (\A a : ~Queued(a)) /\ Once
  BY <1>1, IdleTypes DEF OnHand, Queued, Once
<1>3. (\A a \in Articles : Untouched(a)) /\ (\A target \in Job : tries[target] <= 1)
  BY <1>1 DEF Untouched, Job
<1> QED BY <1>1, <1>2, <1>3, IdleTypes DEF Way, JobsHaveArticles

LEMMA WayHolds == Spec => [](TypeInv /\ Flight /\ Way)
<1> QED BY InitType, NextType, InitFlight, FlightNext, InitWay, WayNext, PTL DEF Spec

\* The dispatcher never tries a channel twice for an article, for any feeds,
\* runs and restarts.
THEOREM AttemptedOnceHolds == Spec => []AttemptedOnce
<1>1. Way => AttemptedOnce
  BY DEF Way, AttemptedOnce, Job
<1> QED BY <1>1, WayHolds, PTL

\* Whichever writes fail and whenever the program is killed, what is to be
\* retried has its article in the log.
THEOREM JobsHaveArticlesHolds == Spec => []JobsHaveArticles
<1>1. Way => JobsHaveArticles
  BY DEF Way
<1> QED BY <1>1, WayHolds, PTL
-----------------------------------------------------------------------------
(* What there is to show for an article.                                   *)

\* Every stored article is accounted for; for the one the loop has, the
\* channels it has passed are on record; and a job without a line is known to
\* lack it.
Trail ==
    /\ Accounted
    /\ \A a \in Articles, k \in Channels :
         loop.article = a /\ loop.channel = k =>
           /\ \A c \in 1 .. (k - 1) : Recorded(a, c, "success")
           /\ loop.pc = "enqueue" => Recorded(a, k, "failed")
    /\ \A job \in retryJobs : job \in jobLog \/ <<"job", job[1], job[2]>> \in unwritten

\* What is on record for an article stays so, and no channel is called for it.
Keeps(a) ==
    \A c \in Channels :
        /\ \A status \in {"success", "failed"} : Recorded(a, c, status) => Recorded(a, c, status)'
        /\ Filed(a, c) => Filed(a, c)'
        /\ tries'[<<a, c>>] = tries[<<a, c>>]

LEMMA SettledStays ==
    ASSUME NEW a \in Articles, Keeps(a), Settled(a)
    PROVE  Settled(a)'
<1>1. PICK n \in 0 .. NumChannels :
        /\ \A c \in 1 .. n : Recorded(a, c, "success")
        /\ n < NumChannels => Recorded(a, n + 1, "failed") /\ Filed(a, n + 1)
        /\ \A c \in (n + 2) .. NumChannels : tries[<<a, c>>] = 0
  BY DEF Settled
<1>2. ASSUME NEW c \in 1 .. n PROVE Recorded(a, c, "success")'
  <2>1. c \in Channels
    BY DEF Channels
  <2>2. Recorded(a, c, "success")
    BY <1>1
  <2> QED BY <2>1, <2>2, Zenon DEF Keeps
<1>3. n < NumChannels => Recorded(a, n + 1, "failed")' /\ Filed(a, n + 1)'
  <2>1. n < NumChannels => n + 1 \in Channels
    BY DEF Channels
  <2> QED BY <1>1, <2>1 DEF Keeps
<1>4. \A c \in (n + 2) .. NumChannels : tries'[<<a, c>>] = 0
  BY <1>1 DEF Keeps, Channels
<1> QED BY <1>2, <1>3, <1>4 DEF Settled

\* A step that is not one of the loop: articles may go on, none gets lost.
LEMMA TrailKept ==
    ASSUME TypeInv, Trail,
           \A a \in articles' : a \in articles \/ Pending(a)' \/ a \in dropped',
           \A a \in Articles : Pending(a) => Pending(a)' \/ Queued(a)' \/ a \in dropped',
           \A a \in Articles : Queued(a) => Queued(a)',
           dropped \subseteq dropped',
           UNCHANGED <<loop, records, retryJobs, jobLog, tries, unwritten>>
    PROVE  Trail'
<1>1. \A a, c, status : /\ Recorded(a, c, status)' = Recorded(a, c, status)
                        /\ Filed(a, c)' = Filed(a, c)
  BY DEF Recorded, Filed
<1>2. ASSUME NEW a \in Articles PROVE Settled(a) => Settled(a)'
  BY <1>1, SettledStays DEF Keeps
<1>3. \A a : Dispatching(a)' = Dispatching(a)
  BY DEF Dispatching
<1>4. articles \subseteq Articles
  BY DEF TypeInv, TypeOK
<1>5. Accounted'
  BY <1>2, <1>3, <1>4 DEF Trail, Accounted
<1> QED BY <1>1, <1>5 DEF Trail

LEMMA RunStepTrail ==
    ASSUME TypeInv, Trail, NEW p \in Runs, RunStep(p)
    PROVE  Trail'
<1> USE DEF async, stores, observed
<1>0. run \in [Runs -> RunState] /\ queue \in Seq(Articles)
  BY DEF TypeInv, TypeOK
<1>1. UNCHANGED <<loop, records, retryJobs, jobLog, tries, unwritten>>
  BY DEF RunStep, Fetched, FetchFails, RunEnds, Invalid, Upsert, UpsertFails, CheckOpen,
         CheckClosed, Send, SendFull, SendPanics, Drop
<1>2. \A q \in Runs \ {p} : run'[q] = run[q]
  BY <1>0 DEF RunStep, Fetched, FetchFails, RunEnds, EndRun, Invalid, Upsert, UpsertFails, CheckOpen,
         CheckClosed, Send, SendFull, SendPanics, Drop, NextItem
<1>3. dropped \subseteq dropped'
  BY DEF RunStep, Fetched, FetchFails, RunEnds, Invalid, Upsert, UpsertFails, CheckOpen,
         CheckClosed, Send, SendFull, SendPanics, Drop
<1>4. ASSUME run[p].pc \in {"check", "send"}, NEW a \in Articles, a = Current(p)
      PROVE  \/ run'[p].pc = "send" /\ Current(p)' = a
             \/ Queued(a)'
             \/ a \in dropped'
  <2>1. CASE CheckOpen(p)
    BY <1>0, <1>4, <2>1 DEF CheckOpen, Current, RunState
  <2>2. CASE CheckClosed(p) \/ SendFull(p) \/ SendPanics(p)
    BY <1>4, <2>2 DEF CheckClosed, SendFull, SendPanics, Drop
  <2>3. CASE Send(p)
    <3>1. queue' = Append(queue, a) /\ Len(queue) \in Nat
      BY <1>0, <1>4, <2>3, LenProperties DEF Send
    <3>2. Len(queue) + 1 \in DOMAIN queue' /\ queue'[Len(queue) + 1] = a
      BY <1>0, <3>1, AppendProperties, LenProperties
    <3> QED BY <3>2 DEF Queued
  <2> QED BY <1>4, <2>1, <2>2, <2>3 DEF RunStep, Fetched, FetchFails, RunEnds, Invalid, Upsert, UpsertFails
<1>5. ASSUME NEW a \in Articles, Pending(a) PROVE Pending(a)' \/ Queued(a)' \/ a \in dropped'
  <2>1. PICK q \in Runs : run[q].pc \in {"check", "send"} /\ Current(q) = a
    BY <1>5 DEF Pending
  <2>2. CASE q # p
    BY <1>2, <2>1, <2>2 DEF Pending, Current
  <2>3. CASE q = p
    BY <1>4, <2>1, <2>3 DEF Pending
  <2> QED BY <2>2, <2>3
<1>6. ASSUME NEW a \in Articles, Queued(a) PROVE Queued(a)'
  <2>1. CASE queue' = queue
    BY <1>6, <2>1 DEF Queued
  <2>2. CASE Send(p)
    <3>1. queue' = Append(queue, Current(p)) /\ Current(p) \in Articles
      BY <2>2, ItemsType DEF Send, TypeInv
    <3>2. /\ DOMAIN queue \subseteq DOMAIN queue'
          /\ \A i \in DOMAIN queue : queue'[i] = queue[i]
      BY <1>0, <3>1, AppendProperties, LenProperties
    <3> QED BY <1>6, <3>2 DEF Queued
  <2> QED BY <2>1, <2>2 DEF RunStep, Fetched, FetchFails, RunEnds, Invalid, Upsert, UpsertFails,
             CheckOpen, CheckClosed, SendFull, SendPanics, Drop
<1>7. \A a \in articles' : a \in articles \/ Pending(a)' \/ a \in dropped'
  <2>1. CASE articles' = articles
    BY <2>1
  <2>2. CASE Upsert(p) /\ Current(p) \notin articles
    <3>1. articles' = articles \cup {Current(p)} /\ run' = [run EXCEPT ![p].pc = "check"]
      BY <2>2 DEF Upsert
    <3>2. run'[p].pc = "check" /\ Current(p)' = Current(p)
      BY <1>0, <3>1 DEF RunState, Current
    <3> QED BY <2>2, <3>1, <3>2 DEF Pending
  <2>3. CASE Upsert(p) /\ Current(p) \in articles
    BY <2>3 DEF Upsert
  <2>4. CASE UpsertFails(p)
    BY <2>4 DEF UpsertFails
  <2> QED BY <2>1, <2>2, <2>3, <2>4 DEF RunStep, Fetched, FetchFails, RunEnds, Invalid,
             CheckOpen, CheckClosed, Send, SendFull, SendPanics, Drop
<1> QED BY <1>1, <1>3, <1>5, <1>6, <1>7, TrailKept

\* The loop works on one article and leaves the others where they are.
LEMMA LoopStepTrail ==
    ASSUME TypeInv, Way, Trail, LoopStep
    PROVE  Trail'
<1>0. /\ loop \in LoopState /\ queue \in Seq(Articles) /\ articles \subseteq Articles
      /\ tries \in [Job -> Nat]
      /\ loop.pc \in {"try", "record", "enqueue"} => loop.article \in Articles
  BY DEF TypeInv, TypeOK, LoopBusy, LoopState, Job
<1>1. UNCHANGED <<run, articles, dropped>>
  BY DEF LoopStep, Receive, Try, AddRecord, AddRecordFails, EnqueueRetry, EnqueueRetryFails, LoopEnds,
         Rest, pipeline
<1>2. \A a : Pending(a)' = Pending(a)
  BY <1>1 DEF Pending, Current
<1>3. records \subseteq records' /\ retryJobs \subseteq retryJobs' /\ unwritten \subseteq unwritten'
  BY DEF LoopStep, Receive, Try, AddRecord, AddRecordFails, EnqueueRetry, EnqueueRetryFails, LoopEnds,
         Rest, Quiet, stores
<1>4. \A a, c, status : /\ Recorded(a, c, status) => Recorded(a, c, status)'
                        /\ Filed(a, c) => Filed(a, c)'
  BY <1>3 DEF Recorded, Filed
<1>5. ASSUME NEW a \in Articles, a # loop.article \/ ~Try, Settled(a) PROVE Settled(a)'
  <2>1. \A c \in Channels : tries'[<<a, c>>] = tries[<<a, c>>]
    <3>1. CASE Try
      BY <1>0, <1>5, <3>1 DEF Try, Job
    <3>2. CASE ~Try
      BY <3>2 DEF LoopStep, Receive, AddRecord, AddRecordFails, EnqueueRetry, EnqueueRetryFails, LoopEnds
    <3> QED BY <3>1, <3>2
  <2> QED BY <1>4, <1>5, <2>1, SettledStays DEF Keeps
<1>6. ASSUME ~Receive, NEW a \in Articles PROVE Queued(a)' = Queued(a)
  <2>1. queue' = queue
    BY <1>6 DEF LoopStep, Try, AddRecord, AddRecordFails, EnqueueRetry, EnqueueRetryFails, LoopEnds
  <2> QED BY <2>1 DEF Queued
<1>7. \A job \in retryJobs' : job \in jobLog' \/ <<"job", job[1], job[2]>> \in unwritten'
  <2>1. CASE EnqueueRetry
    BY <2>1 DEF EnqueueRetry, Quiet, Trail
  <2>2. CASE EnqueueRetryFails
    <3>1. /\ retryJobs' = retryJobs \cup {<<loop.article, loop.channel>>} /\ jobLog' = jobLog
          /\ unwritten' = unwritten \cup {<<"job", loop.article, loop.channel>>}
      BY <2>2 DEF EnqueueRetryFails
    <3>2. ASSUME NEW job \in retryJobs', job \notin retryJobs
          PROVE  <<"job", job[1], job[2]>> \in unwritten'
      <4>1. job = <<loop.article, loop.channel>>
        BY <3>1, <3>2
      <4>2. job[1] = loop.article /\ job[2] = loop.channel
        BY <4>1
      <4> QED BY <3>1, <4>2
    <3> QED BY <3>1, <3>2 DEF Trail
  <2>3. CASE ~EnqueueRetry /\ ~EnqueueRetryFails
    <3>1. retryJobs' = retryJobs /\ jobLog' = jobLog
      BY <2>3 DEF LoopStep, Receive, Try, AddRecord, AddRecordFails, LoopEnds, stores
    <3> QED BY <1>3, <3>1 DEF Trail
  <2> QED BY <2>1, <2>2, <2>3
<1>8. CASE Receive
  <2>1. loop' = [IdleLoop EXCEPT !.pc = "try", !.article = Head(queue)]
        /\ queue # <<>> /\ queue' = Tail(queue) /\ loop.article = NoArticle
    BY <1>8 DEF Receive, TypeInv, LoopBusy
  <2>2. loop'.pc = "try" /\ loop'.article = Head(queue) /\ loop'.channel = 1
    BY <2>1 DEF IdleLoop
  <2>3. \A a : Queued(a) => Queued(a)' \/ Dispatching(a)'
    BY <1>0, <2>1, <2>2, QueueReceive DEF Way, Dispatching
  <2>4. ~Try
    BY <1>8 DEF Receive, Try
  <2>5. \A a \in Articles : ~Dispatching(a)
    BY <2>1 DEF Dispatching
  <2>6. Accounted'
    BY <1>0, <1>1, <1>2, <1>5, <2>3, <2>4, <2>5 DEF Trail, Accounted
  <2>7. \A k \in Channels : loop'.channel = k => 1 .. (k - 1) = {} /\ loop'.pc # "enqueue"
    BY <2>2
  <2> QED BY <1>7, <2>6, <2>7 DEF Trail
<1>9. CASE Try
  <2>1. /\ loop'.pc = "record" /\ loop'.article = loop.article /\ loop'.channel = loop.channel
    BY <1>0, <1>9 DEF Try, LoopState
  <2>2. \A a : Dispatching(a)' = Dispatching(a)
    BY <2>1 DEF Dispatching
  <2>3. ~Receive
    BY <1>9 DEF Receive, Try
  <2>4. ASSUME NEW a \in articles PROVE Pending(a)' \/ Queued(a)' \/ Dispatching(a)' \/ Settled(a)' \/ a \in dropped'
    <3>1. CASE a = loop.article
      BY <2>2, <3>1 DEF Dispatching
    <3>2. CASE a # loop.article
      BY <1>0, <1>1, <1>2, <1>5, <1>6, <2>2, <2>3, <3>2 DEF Trail, Accounted
    <3> QED BY <3>1, <3>2
  <2>5. Accounted'
    BY <1>1, <2>4 DEF Accounted
  <2> QED BY <1>4, <1>7, <2>1, <2>5 DEF Trail
<1>10. ASSUME ~Receive, ~Try,
              \A a \in Articles : Dispatching(a) => Dispatching(a)' \/ Settled(a)'
       PROVE  Accounted'
  BY <1>0, <1>1, <1>2, <1>5, <1>6, <1>10 DEF Trail, Accounted
<1>11. ASSUME NEW a \in Articles, NEW k \in Channels, loop.article = a, loop.channel = k,
              AddRecord \/ AddRecordFails
       PROVE  Trail'
  <2>1. loop.pc = "record" /\ AfterRecord /\ ~Receive /\ ~Try
    BY <1>11 DEF AddRecord, AddRecordFails, Receive, Try
  <2>2. \A status : status = loop.status => Recorded(a, k, status)'
    BY <1>11 DEF AddRecord, AddRecordFails, Recorded, Attempt
  <2>3. k \in 1 .. NumChannels /\ loop.status \in {"success", "failed"} /\ a # NoArticle
    BY <1>0 DEF LoopState, Channels
  <2>4. \A c \in 1 .. (k - 1) : Recorded(a, c, "success")'
    BY <1>4, <1>11 DEF Trail
  <2>5. CASE loop.status = "failed"
    <3>1. loop'.pc = "enqueue" /\ loop'.article = a /\ loop'.channel = k
      BY <1>0, <1>11, <2>1, <2>5 DEF AfterRecord, LoopState
    <3>2. Accounted'
      BY <1>10, <1>11, <2>1, <3>1 DEF Dispatching
    <3> QED BY <1>7, <2>2, <2>4, <2>5, <3>1, <3>2 DEF Trail
  <2>6. CASE loop.status = "success" /\ k < NumChannels
    <3>1. loop'.pc = "try" /\ loop'.article = a /\ loop'.channel = k + 1
      <4>1. loop' = [loop EXCEPT !.pc = "try", !.channel = @ + 1]
        BY <1>11, <2>1, <2>6 DEF AfterRecord
      <4> QED BY <1>0, <1>11, <4>1 DEF LoopState
    <3>2. Accounted'
      BY <1>10, <1>11, <2>1, <3>1 DEF Dispatching
    <3>3. \A c \in 1 .. ((k + 1) - 1) : c = k \/ c \in 1 .. (k - 1)
      BY <2>3
    <3>4. \A c \in 1 .. ((k + 1) - 1) : Recorded(a, c, "success")'
      BY <2>2, <2>4, <2>6, <3>3
    <3> QED BY <1>7, <3>1, <3>2, <3>4 DEF Trail
  <2>7. CASE loop.status = "success" /\ ~(k < NumChannels)
    <3>1. loop' = IdleLoop
      BY <1>11, <2>1, <2>7 DEF AfterRecord
    <3>2. \A c \in 1 .. NumChannels : c = k \/ c \in 1 .. (k - 1)
      BY <2>3, <2>7
    <3>3. \A c \in 1 .. NumChannels : Recorded(a, c, "success")'
      BY <2>2, <2>4, <2>7, <3>2
    <3>4. NumChannels \in 0 .. NumChannels /\ (NumChannels + 2) .. NumChannels = {}
      OBVIOUS
    <3>5. Settled(a)'
      BY <3>3, <3>4 DEF Settled
    <3>6. Accounted'
      BY <1>10, <1>11, <2>1, <3>5 DEF Dispatching
    <3> QED BY <1>7, <3>1, <3>6, IdleTypes DEF Trail
  <2> QED BY <2>3, <2>5, <2>6, <2>7
<1>12. ASSUME NEW a \in Articles, NEW k \in Channels, loop.article = a, loop.channel = k,
              EnqueueRetry \/ EnqueueRetryFails
       PROVE  Trail'
  <2>1. /\ loop.pc = "enqueue" /\ loop' = IdleLoop /\ ~Receive /\ ~Try /\ tries' = tries
        /\ <<a, k>> \in retryJobs'
    BY <1>12 DEF EnqueueRetry, EnqueueRetryFails, Receive, Try
  <2>2. k \in 1 .. NumChannels /\ a # NoArticle
    BY DEF Channels
  <2>3. /\ \A c \in 1 .. (k - 1) : Recorded(a, c, "success")'
        /\ Recorded(a, k, "failed")'
        /\ Filed(a, k)'
    BY <1>4, <1>12, <2>1 DEF Trail, Filed
  <2>4. \A c \in (k + 1) .. NumChannels : tries'[<<a, c>>] = 0
    BY <1>12, <2>1, <2>2 DEF Way, Channels
  <2>5. Settled(a)'
    <3>1. PICK n \in 0 .. NumChannels : n = k - 1
      BY <2>2
    <3>2. n + 1 = k /\ n + 2 = k + 1
      BY <2>2, <3>1
    <3> QED BY <2>3, <2>4, <3>1, <3>2 DEF Settled
  <2>6. Accounted'
    BY <1>10, <1>12, <2>1, <2>5 DEF Dispatching
  <2> QED BY <1>7, <2>1, <2>6, IdleTypes DEF Trail
<1>13. CASE LoopEnds
  <2>1. loop'.article = loop.article /\ loop.article = NoArticle /\ ~Receive /\ ~Try
    BY <1>0, <1>13 DEF LoopEnds, LoopState, TypeInv, LoopBusy, Receive, Try
  <2>2. Accounted'
    BY <1>10, <2>1 DEF Dispatching
  <2> QED BY <1>7, <2>1, <2>2 DEF Trail
<1>14. loop.channel \in Channels
  BY <1>0 DEF LoopState
<1>15. AddRecord \/ AddRecordFails \/ EnqueueRetry \/ EnqueueRetryFails => loop.article \in Articles
  BY <1>0 DEF AddRecord, AddRecordFails, EnqueueRetry, EnqueueRetryFails
<1> QED BY <1>8, <1>9, <1>11, <1>12, <1>13, <1>14, <1>15 DEF LoopStep

LEMMA RestartTrail ==
    ASSUME TypeInv, Way, Trail, Restart
    PROVE  Trail'
<1>1. /\ loop' = IdleLoop /\ articles' = articleLog /\ records' = recordLog /\ retryJobs' = jobLog
      /\ dropped' = {a \in articleLog : a \in dropped \/ Pending(a) \/ Queued(a) \/ Dispatching(a)}
      /\ UNCHANGED <<jobLog, tries, unwritten>>
  BY DEF Restart
<1>2. \A a, c, status : /\ Recorded(a, c, status) => Recorded(a, c, status)'
                        /\ Filed(a, c) => Filed(a, c)'
  BY <1>1 DEF Recorded, Filed, Trail, TypeInv, TypeOK
<1>3. ASSUME NEW a \in articleLog
      PROVE  a \in dropped' \/ Settled(a)'
  <2>1. a \in Articles /\ a \in articles
    BY DEF TypeInv, TypeOK, Way
  <2>2. Settled(a) => Settled(a)'
    BY <1>1, <1>2, <2>1, SettledStays DEF Keeps
  <2> QED BY <1>1, <2>1, <2>2 DEF Trail, Accounted
<1> QED BY <1>1, <1>3, IdleTypes DEF Trail, Accounted


LEMMA TrailNext == TypeInv /\ Way /\ Trail /\ [Next]_vars => Trail'
<1> SUFFICES ASSUME TypeInv, Way, Trail, [Next]_vars PROVE Trail'
  OBVIOUS
<1>0. run \in [Runs -> RunState]
  BY DEF TypeInv, TypeOK
<1>1. ASSUME \A p \in Runs : run[p].pc \in {"check", "send"} => run'[p] = run[p],
             UNCHANGED <<articles, queue, dropped, loop, records, retryJobs, jobLog, tries, unwritten>>
      PROVE  Trail'
  <2>1. \A a \in Articles : Pending(a) => Pending(a)'
    BY <1>1 DEF Pending, Current
  <2>2. \A a \in Articles : Queued(a) => Queued(a)'
    BY <1>1 DEF Queued
  <2> QED BY <1>1, <2>1, <2>2, TrailKept
<1>2. ASSUME NEW p \in Runs, RunNow(p) PROVE Trail'
  BY <1>0, <1>1, <1>2 DEF RunNow, async, stores
<1>3. ASSUME NEW p \in Runs, RunStep(p) PROVE Trail'
  BY <1>3, RunStepTrail
<1>4. CASE SchedulerExits
  BY <1>0, <1>1, <1>4 DEF SchedulerExits, async, stores, observed
<1>5. CASE LoopStep
  BY <1>5, LoopStepTrail
<1>6. CASE Signal \/ MainStep
  <2>1. UNCHANGED Others
    BY <1>6 DEF Signal, MainStep, StopWorker, StopScheduler, Shutdown, Exit
  <2> QED BY <1>1, <2>1 DEF Others, pipeline, stores
<1>7. CASE Restart
  BY <1>7, RestartTrail
<1>8. CASE UNCHANGED vars
  BY <1>1, <1>8 DEF vars, pipeline, async, stores, observed
<1> QED BY <1>2, <1>3, <1>4, <1>5, <1>6, <1>7, <1>8 DEF Next, Terminated

LEMMA InitTrail == Init => Trail
BY IdleTypes DEF Init, Trail, Accounted

LEMMA TrailHolds == Spec => [](TypeInv /\ Flight /\ Way /\ Trail)
<1> QED BY WayHolds, InitTrail, TrailNext, PTL DEF Spec

\* No stored article is forgotten without a trace, however often writes fail
\* and the program is killed.
THEOREM AccountedHolds == Spec => []Accounted
<1>1. Trail => Accounted
  BY DEF Trail
<1> QED BY <1>1, TrailHolds, PTL

-----------------------------------------------------------------------------
(* The channels in their order, and the jobs filed for them.               *)

\* The attempt the loop is about to record or to file has been made; a job is
\* only there for an article the loop is done with, was tried, and kept the
\* article from the later channels.
Ledger ==
    /\ InOrder
    /\ loop.pc \in {"record", "enqueue"} => tries[<<loop.article, loop.channel>>] > 0
    /\ \A job \in retryJobs : tries[job] > 0 /\ loop.article # job[1]

\* A step that calls no channel and files no job.
LEMMA LedgerKept ==
    ASSUME TypeInv, Ledger,
           retryJobs' \subseteq retryJobs, tries' = tries,
           \A a \in Articles, c \in Channels :
               Recorded(a, c, "success") => Recorded(a, c, "success")',
           \/ loop'.article = NoArticle /\ loop'.pc \notin {"record", "enqueue"}
           \/ /\ loop'.article = loop.article
              /\ loop'.pc \in {"record", "enqueue"} =>
                   loop'.channel = loop.channel /\ loop.pc \in {"record", "enqueue"}
    PROVE  Ledger'
<1>1. InOrder'
  <2> SUFFICES ASSUME NEW a \in Articles, NEW c \in Channels, tries[<<a, c>>] > 0,
                      NEW d \in 1 .. (c - 1)
               PROVE  Recorded(a, d, "success")' /\ <<a, d>> \notin retryJobs'
    BY DEF InOrder
  <2>1. d \in Channels
    BY DEF Channels
  <2> QED BY <2>1 DEF Ledger, InOrder
<1>2. \A job \in retryJobs : job[1] # NoArticle
  BY DEF TypeInv, TypeOK, Job
<1> QED BY <1>1, <1>2 DEF Ledger

LEMMA ReceiveLedger ==
    ASSUME TypeInv, Way, Ledger, Receive
    PROVE  Ledger'
<1>1. /\ loop'.pc = "try" /\ loop'.article = Head(queue)
      /\ UNCHANGED <<tries, records, retryJobs, unwritten>>
  BY DEF Receive, stores, Quiet, TypeInv, TypeOK, IdleLoop
<1>2. Head(queue) \in Articles /\ Untouched(Head(queue))
  <2>1. queue \in Seq(Articles) /\ queue # <<>> /\ queue' = Tail(queue)
    BY DEF Receive, TypeInv, TypeOK
  <2>2. Queued(Head(queue)) /\ Head(queue) \in Articles
    BY <2>1, QueueReceive DEF Way
  <2> QED BY <2>2 DEF Way
<1>3. ASSUME NEW job \in retryJobs PROVE tries[job] > 0 /\ Head(queue) # job[1]
  <2>1. job \in Job /\ tries[job] > 0
    BY DEF Ledger, TypeInv, TypeOK
  <2>2. PICK a \in Articles, c \in Channels : job = <<a, c>>
    BY <2>1 DEF Job
  <2>3. job[1] = a
    BY <2>2
  <2> QED BY <1>2, <2>1, <2>2, <2>3 DEF Untouched
<1>4. InOrder'
  BY <1>1 DEF Ledger, InOrder, Recorded
<1> QED BY <1>1, <1>3, <1>4 DEF Ledger

LEMMA TryLedger ==
    ASSUME TypeInv, Trail, Ledger, Try
    PROVE  Ledger'
<1>1. /\ loop'.article = loop.article /\ loop'.channel = loop.channel
      /\ UNCHANGED <<records, retryJobs, unwritten>>
  BY DEF Try, stores, Quiet, TypeInv, TypeOK, LoopState
<1>2. /\ loop.article \in Articles /\ loop.channel \in Channels
      /\ <<loop.article, loop.channel>> \in Job
  BY DEF Try, TypeInv, TypeOK, LoopBusy, LoopState, Job
<1>3. /\ tries \in [Job -> Nat]
      /\ tries' = [tries EXCEPT ![<<loop.article, loop.channel>>] = @ + 1]
  BY DEF Try, TypeInv, TypeOK, Job
<1>4. /\ tries'[<<loop.article, loop.channel>>] > 0
      /\ \A target \in Job : tries[target] > 0 => tries'[target] > 0
      /\ \A target \in Job : target # <<loop.article, loop.channel>> =>
           tries'[target] = tries[target]
  <2>1. /\ tries'[<<loop.article, loop.channel>>] = tries[<<loop.article, loop.channel>>] + 1
        /\ \A target \in Job : target # <<loop.article, loop.channel>> =>
             tries'[target] = tries[target]
    BY ONLY <1>2, <1>3
  <2>2. \A target \in Job : tries[target] \in Nat
    BY ONLY <1>3
  <2> QED BY ONLY <1>2, <2>1, <2>2
<1>5. InOrder'
  <2> SUFFICES ASSUME NEW a \in Articles, NEW c \in Channels, tries'[<<a, c>>] > 0,
                      NEW d \in 1 .. (c - 1)
               PROVE  Recorded(a, d, "success") /\ <<a, d>> \notin retryJobs
    BY <1>1 DEF InOrder, Recorded
  <2>1. CASE a = loop.article /\ c = loop.channel
    <3>1. Recorded(a, d, "success")
      BY <2>1 DEF Trail
    <3>2. ASSUME <<a, d>> \in retryJobs PROVE FALSE
      <4>1. loop.article # <<a, d>>[1]
        BY <3>2 DEF Ledger
      <4> QED BY <2>1, <4>1
    <3> QED BY <3>1, <3>2
  <2>2. CASE ~(a = loop.article /\ c = loop.channel)
    <3>1. <<a, c>> \in Job /\ <<a, c>> # <<loop.article, loop.channel>>
      BY <2>2 DEF Job
    <3> QED BY <1>4, <3>1 DEF Ledger, InOrder
  <2> QED BY <2>1, <2>2
<1>6. \A job \in retryJobs : job \in Job
  BY DEF TypeInv, TypeOK
<1> QED BY <1>1, <1>4, <1>5, <1>6 DEF Ledger

LEMMA FileLedger ==
    ASSUME TypeInv, Way, Ledger, EnqueueRetry \/ EnqueueRetryFails
    PROVE  Ledger'
<1>1. /\ loop.pc = "enqueue" /\ loop' = IdleLoop
      /\ retryJobs' = retryJobs \cup {<<loop.article, loop.channel>>}
      /\ UNCHANGED <<tries, records>> /\ unwritten \subseteq unwritten'
  BY DEF EnqueueRetry, EnqueueRetryFails, Quiet
<1>2. loop.article \in Articles /\ loop.channel \in Channels /\ loop.article # NoArticle
  BY <1>1 DEF TypeInv, TypeOK, LoopBusy, LoopState
<1>3. tries \in [Job -> Nat]
  BY DEF TypeInv, TypeOK, Job
<1>4. InOrder'
  <2> SUFFICES ASSUME NEW a \in Articles, NEW c \in Channels, tries[<<a, c>>] > 0,
                      NEW d \in 1 .. (c - 1)
               PROVE  Recorded(a, d, "success")' /\ <<a, d>> \notin retryJobs'
    BY <1>1 DEF InOrder
  <2>1. Recorded(a, d, "success") /\ <<a, d>> \notin retryJobs
    BY DEF Ledger, InOrder
  <2>2. ASSUME a = loop.article, d = loop.channel PROVE FALSE
    <3>1. c > loop.channel
      BY <2>2 DEF Channels
    <3> QED BY <1>2, <2>2, <3>1 DEF Way
  <2>3. Recorded(a, d, "success")'
    BY <1>1, <2>1 DEF Recorded
  <2> QED BY <1>1, <2>1, <2>2, <2>3
<1>5. ASSUME NEW job \in retryJobs' PROVE tries[job] > 0 /\ job[1] # NoArticle
  <2>1. CASE job \in retryJobs
    BY <2>1 DEF Ledger, TypeInv, TypeOK, Job
  <2>2. CASE job = <<loop.article, loop.channel>>
    BY <1>1, <1>2, <2>2 DEF Ledger
  <2> QED BY <1>1, <2>1, <2>2
<1> QED BY <1>1, <1>4, <1>5, IdleTypes DEF Ledger

LEMMA LedgerNext == TypeInv /\ Way /\ Trail /\ Ledger /\ [Next]_vars => Ledger'
<1> SUFFICES ASSUME TypeInv, Way, Trail, Ledger, [Next]_vars PROVE Ledger'
  OBVIOUS
<1>0. loop \in LoopState
  BY DEF TypeInv, TypeOK
<1>1. ASSUME UNCHANGED <<loop, records, retryJobs, tries, unwritten>> PROVE Ledger'
  BY <1>1 DEF Ledger, InOrder, Recorded
<1>2. ASSUME NEW p \in Runs, RunNow(p) \/ RunStep(p) PROVE Ledger'
  <2>1. UNCHANGED <<loop, records, retryJobs, tries, unwritten>>
    BY <1>2 DEF RunNow, RunStep, Fetched, FetchFails, RunEnds, Invalid, Upsert, UpsertFails,
           CheckOpen, CheckClosed, Send, SendFull, SendPanics, Drop, async, stores, observed
  <2> QED BY <1>1, <2>1
<1>3. CASE LoopStep
  <2>1. CASE AddRecord \/ AddRecordFails
    <3>1. /\ loop.pc = "record" /\ AfterRecord
          /\ UNCHANGED <<retryJobs, tries>>
          /\ records \subseteq records' /\ unwritten \subseteq unwritten'
      BY <2>1 DEF AddRecord, AddRecordFails
    <3>2. \/ loop'.article = NoArticle /\ loop'.pc \notin {"record", "enqueue"}
          \/ /\ loop'.article = loop.article
             /\ loop'.pc \in {"record", "enqueue"} => loop'.channel = loop.channel
      BY <1>0, <3>1, IdleTypes DEF AfterRecord, LoopState
    <3>3. \A a \in Articles, c \in Channels :
            Recorded(a, c, "success") => Recorded(a, c, "success")'
      BY <3>1 DEF Recorded
    <3> QED BY <3>1, <3>2, <3>3, LedgerKept
  <2>2. CASE LoopEnds
    <3>1. UNCHANGED <<records, retryJobs, tries, unwritten>> /\ loop.pc = "waiting"
      BY <2>2 DEF LoopEnds, stores, Quiet
    <3>2. loop'.article = loop.article /\ loop'.pc = "gone"
      BY <1>0, <2>2 DEF LoopEnds, LoopState
    <3> QED BY <3>1, <3>2 DEF Ledger, InOrder, Recorded
  <2> QED BY <1>3, <2>1, <2>2, ReceiveLedger, TryLedger, FileLedger DEF LoopStep
<1>4. CASE SchedulerExits \/ UNCHANGED vars
  BY <1>1, <1>4 DEF SchedulerExits, vars, async, stores, observed
<1>5. CASE Signal \/ MainStep
  <2>1. UNCHANGED Others
    BY <1>5 DEF Signal, MainStep, StopWorker, StopScheduler, Shutdown, Exit
  <2> QED BY <1>1, <2>1 DEF Others, stores
<1>6. CASE Restart
  <2>1. /\ loop' = IdleLoop /\ records' = recordLog /\ retryJobs' = jobLog
        /\ UNCHANGED <<tries, unwritten>>
    BY <1>6 DEF Restart
  <2>2. records \subseteq records' /\ retryJobs' \subseteq retryJobs
    BY <2>1 DEF TypeInv, TypeOK
  <2>3. \A a \in Articles, c \in Channels :
            Recorded(a, c, "success") => Recorded(a, c, "success")'
    BY <2>1, <2>2 DEF Recorded
  <2> QED BY <2>1, <2>2, <2>3, LedgerKept, IdleTypes
<1> QED BY <1>2, <1>3, <1>4, <1>5, <1>6 DEF Next, Terminated

LEMMA LedgerHolds == Spec => [](TypeInv /\ Ledger)
<1>1. Init => Ledger
  <2> SUFFICES ASSUME Init PROVE Ledger
    OBVIOUS
  <2>1. loop.pc = "waiting" /\ retryJobs = {}
    BY IdleTypes DEF Init
  <2>2. ASSUME NEW a \in Articles, NEW c \in Channels PROVE ~(tries[<<a, c>>] > 0)
    BY DEF Init, Job
  <2> QED BY <2>1, <2>2 DEF Ledger, InOrder
<1> QED BY <1>1, LedgerNext, TrailHolds, PTL DEF Spec

\* The channels see an article one after the other: each only when those before
\* it have taken it and have no retry job for it.
THEOREM InOrderHolds == Spec => []InOrder
<1>1. Ledger => InOrder
  BY DEF Ledger
<1> QED BY <1>1, LedgerHolds, PTL

\* The dispatcher files at most one job for an article and channel, for any
\* number of runs, failing writes and restarts.
THEOREM FiledOnceHolds == Spec => []FiledOnce
<1>1. TypeInv /\ Ledger => FiledOnce
  <2> SUFFICES ASSUME TypeInv, Ledger, loop.pc = "enqueue",
                      <<loop.article, loop.channel>> \in retryJobs
               PROVE  FALSE
    BY DEF FiledOnce
  <2>1. loop.article # <<loop.article, loop.channel>>[1]
    BY DEF Ledger
  <2> QED BY <2>1
<1> QED BY <1>1, LedgerHolds, PTL

-----------------------------------------------------------------------------
(* The end of the shutdown.                                                *)

\* The goroutine ends when the closed queue is empty, and main after it.
Drained ==
    /\ loop.pc = "gone" => closed /\ queue = <<>>
    /\ main = "exited" => loop.pc = "gone"

LEMMA DrainedNext == TypeInv /\ Drained /\ [Next]_vars => Drained'
<1> SUFFICES ASSUME TypeInv, Drained, [Next]_vars PROVE Drained'
  OBVIOUS
<1> USE DEF Drained, Alive
<1>0. loop \in LoopState
  BY DEF TypeInv, TypeOK
<1>1. ASSUME NEW p \in Runs, RunNow(p) PROVE Drained'
  BY <1>1 DEF RunNow, async
<1>2. ASSUME NEW p \in Runs, RunStep(p) PROVE Drained'
  <2>1. UNCHANGED <<loop, closed>> /\ (queue' = queue \/ ~closed) /\ main' \in {main, "panicked"}
    BY <1>2 DEF RunStep, Fetched, FetchFails, RunEnds, Invalid, Upsert, UpsertFails, CheckOpen,
           CheckClosed, Send, SendFull, SendPanics, Drop, async, observed
  <2> QED BY <2>1
<1>3. CASE SchedulerExits
  BY <1>3 DEF SchedulerExits, async
<1>4. CASE LoopStep
  <2>1. main' = main /\ closed' = closed /\ main # "exited"
    BY <1>4 DEF LoopStep, Receive, Try, AddRecord, AddRecordFails, EnqueueRetry,
           EnqueueRetryFails, LoopEnds, Rest
  <2>2. CASE LoopEnds
    BY <2>1, <2>2 DEF LoopEnds
  <2>3. CASE ~LoopEnds
    <3>1. loop'.pc # "gone"
      BY <1>0, <1>4, <2>3, IdleTypes DEF LoopStep, Receive, Try, AddRecord, AddRecordFails,
             EnqueueRetry, EnqueueRetryFails, AfterRecord, LoopState, IdleLoop
    <3> QED BY <2>1, <3>1
  <2> QED BY <2>2, <2>3
<1>5. CASE Signal \/ MainStep
  BY <1>5 DEF Signal, MainStep, StopWorker, StopScheduler, Shutdown, Exit, Others
<1>6. CASE Restart
  BY <1>6, IdleTypes DEF Restart
<1>7. CASE UNCHANGED vars
  BY <1>7 DEF vars, async
<1> QED BY <1>1, <1>2, <1>3, <1>4, <1>5, <1>6, <1>7 DEF Next, Terminated

\* When main has returned, everything the queue has accepted was dispatched, and
\* unless a wait was given up no run is left that could still hold an article.
THEOREM ExitDrainedHolds == Spec => []ExitDrained
<1>1. Init => Drained
  BY IdleTypes DEF Init, Drained
<1>2. TypeInv /\ Flight /\ Trail /\ Drained => ExitDrained
  <2> SUFFICES ASSUME TypeInv, Flight, Trail, Drained, main = "exited" PROVE ExitDrained
    BY DEF ExitDrained
  <2>1. queue = <<>> /\ loop.article = NoArticle /\ articles \subseteq Articles
    BY DEF Drained, TypeInv, TypeOK, LoopBusy
  <2>2. \A a \in articles : ~Queued(a) /\ ~Dispatching(a)
    BY <2>1 DEF Queued, Dispatching
  <2>3. closed
    BY DEF Drained
  <2>4. \A a \in articles : Pending(a) => timedOut
    BY <2>3 DEF Pending, Flight, Order, RunsEndBeforeClose, InRun
  <2> QED BY <2>1, <2>2, <2>4 DEF Trail, Accounted, ExitDrained
<1> QED BY <1>1, <1>2, DrainedNext, TrailHolds, PTL DEF Spec

=============================================================================
