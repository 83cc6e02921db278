---------------------------- MODULE RateLimiter ----------------------------
(***************************************************************************)
(* DingTalkDistributor and its RateLimiter: a count of messages per window *)
(* of fixed length, shared by the goroutines that send to DingTalk (the    *)
(* dispatcher's loop and a retry round).  Wait runs under the limiter's    *)
(* mutex, also while it sleeps; the answer "too many messages" sets the    *)
(* count without the mutex, so the increment in Wait is two steps here.    *)
(*                                                                         *)
(* Abstractions.  Time is the age of the window, in units that divide the  *)
(* period; beyond the period only that it is beyond matters.  Building,    *)
(* signing and sending the message are one step, its answer another.       *)
(***************************************************************************)
EXTENDS Integers

CONSTANTS
    Callers,        \* goroutines that call Distribute
    Impatient,      \* those whose context may end while they wait
    Nobody,         \* the mutex is free
    Rate, Period,   \* rl.rate and rl.period
    MaxPermits      \* bound: messages let through in one window

\* NewDingTalkDistributor replaces settings that are not positive.
ASSUME LimiterAssumption ==
    /\ Impatient \subseteq Callers
    /\ Nobody \notin Callers
    /\ Rate \in Nat \ {0}
    /\ Period \in Nat \ {0}
    /\ MaxPermits \in Nat \ {0}

VARIABLES
    mu,             \* rl.mu: who holds it
    messageCount,   \* rl.messageCount
    age,            \* the time since rl.lastReset
    pc,             \* where each caller is
    loaded          \* the count it has read and will write back plus one

\* Observation only.
VARIABLES
    permits,        \* messages let through since rl.lastReset
    told            \* a refusal since rl.lastReset met no increment in progress

observed == <<permits, told>>
vars == <<mu, messageCount, age, pc, loaded, permits, told>>

InWait == {"looking", "comparing", "sleeping", "loading", "storing"}
PC == {"idle", "locking", "sending", "told"} \cup InWait
Ages == 0 .. Period + 1

Init ==
    /\ mu = Nobody
    /\ messageCount = 0
    /\ age = 0
    /\ pc = [c \in Callers |-> "idle"]
    /\ loaded = [c \in Callers |-> 0]
    /\ permits = 0
    /\ told = FALSE

Goto(c, label) == pc' = [pc EXCEPT ![c] = label]

-----------------------------------------------------------------------------
Distribute(c) ==
    /\ pc[c] = "idle"
    /\ Goto(c, "locking")
    /\ UNCHANGED <<mu, messageCount, age, loaded, observed>>

Lock(c) ==
    /\ pc[c] = "locking"
    /\ mu = Nobody
    /\ mu' = c
    /\ Goto(c, "looking")
    /\ UNCHANGED <<messageCount, age, loaded, observed>>

NewWindow ==
    /\ messageCount' = 0
    /\ age' = 0
    /\ permits' = 0
    /\ told' = FALSE

\* The window is older than the period.
Reset(c) ==
    /\ pc[c] = "looking"
    /\ age > Period
    /\ NewWindow
    /\ Goto(c, "comparing")
    /\ UNCHANGED <<mu, loaded>>

\* Mutant: one message more than the rate.
FullAbove == messageCount > Rate

Full == messageCount >= Rate

\* A full window has still some time to go.
Sleep(c) ==
    /\ \/ pc[c] = "looking" /\ age < Period
       \/ pc[c] = "comparing"
    /\ Full
    /\ Goto(c, "sleeping")
    /\ UNCHANGED <<mu, messageCount, age, loaded, observed>>

\* The window has room, or its time is over to the nanosecond: then there is
\* nothing to wait for, and the count goes on beyond the rate.
Pass(c) ==
    /\ \/ pc[c] = "looking" /\ age < Period /\ ~Full
       \/ pc[c] = "looking" /\ age = Period
       \/ pc[c] = "comparing" /\ ~Full
    /\ permits < MaxPermits
    /\ Goto(c, "loading")
    /\ UNCHANGED <<mu, messageCount, age, loaded, observed>>

\* The timer fires.
Wake(c) ==
    /\ pc[c] = "sleeping"
    /\ age >= Period
    /\ NewWindow
    /\ Goto(c, "loading")
    /\ UNCHANGED <<mu, loaded>>

\* Mutant: the mutex is not released on this way out.
GiveUpLocked(c) ==
    /\ pc[c] = "sleeping"
    /\ c \in Impatient
    /\ Goto(c, "idle")
    /\ UNCHANGED <<mu, messageCount, age, loaded, observed>>

\* Mutant: who gives up takes a message back that was not counted.
GiveUpUncounted(c) ==
    /\ pc[c] = "sleeping"
    /\ c \in Impatient
    /\ messageCount' = messageCount - 1
    /\ mu' = Nobody
    /\ Goto(c, "idle")
    /\ UNCHANGED <<age, loaded, observed>>

\* The caller's context ends first.
GiveUp(c) ==
    /\ pc[c] = "sleeping"
    /\ c \in Impatient
    /\ mu' = Nobody
    /\ Goto(c, "idle")
    /\ UNCHANGED <<messageCount, age, loaded, observed>>

\* messageCount++ reads ...
Load(c) ==
    /\ pc[c] = "loading"
    /\ loaded' = [loaded EXCEPT ![c] = messageCount]
    /\ Goto(c, "storing")
    /\ UNCHANGED <<mu, messageCount, age, observed>>

\* ... and writes; Wait returns.
Store(c) ==
    /\ pc[c] = "storing"
    /\ messageCount' = loaded[c] + 1
    /\ permits' = permits + 1
    /\ mu' = Nobody
    /\ Goto(c, "sending")
    /\ UNCHANGED <<age, loaded, told>>

\* The message is accepted, or refused for another reason, or not answered.
Answered(c) ==
    /\ pc[c] = "sending"
    /\ Goto(c, "idle")
    /\ UNCHANGED <<mu, messageCount, age, loaded, observed>>

TooMany(c) ==
    /\ pc[c] = "sending"
    /\ Goto(c, "told")
    /\ UNCHANGED <<mu, messageCount, age, loaded, observed>>

\* Somebody is between the two halves of messageCount++.
Incrementing == \E c \in Callers : pc[c] = "storing"

\* Mutant: a full window is added to the count.
ThrottleAdds(c) ==
    /\ pc[c] = "told"
    /\ messageCount' = messageCount + Rate
    /\ told' = (told \/ ~Incrementing)
    /\ Goto(c, "idle")
    /\ UNCHANGED <<mu, age, loaded, permits>>

\* The refused caller fills the window, without the mutex.
Throttle(c) ==
    /\ pc[c] = "told"
    /\ messageCount' = Rate
    /\ told' = (told \/ ~Incrementing)
    /\ Goto(c, "idle")
    /\ UNCHANGED <<mu, age, loaded, permits>>

Tick ==
    /\ age <= Period
    /\ age' = age + 1
    /\ UNCHANGED <<mu, messageCount, pc, loaded, observed>>

Step(c) ==
    \/ Reset(c) \/ Sleep(c) \/ Pass(c) \/ Wake(c) \/ GiveUp(c) \/ Load(c) \/ Store(c)
    \/ Answered(c) \/ TooMany(c) \/ Throttle(c)

Next ==
    \/ \E c \in Callers : Distribute(c) \/ Lock(c) \/ Step(c)
    \/ Tick

Spec == Init /\ [][Next]_vars

\* Time passes; a call that has begun goes on, the HTTP client having a
\* timeout; and a goroutine that waits for a sync.Mutex gets it however often
\* others take it in between.
Fairness ==
    /\ WF_vars(Tick)
    /\ \A c \in Callers : SF_vars(Lock(c)) /\ WF_vars(Step(c))

FairSpec == Spec /\ Fairness

-----------------------------------------------------------------------------
TypeOK ==
    /\ mu \in Callers \cup {Nobody}
    /\ messageCount \in 0 .. Rate + MaxPermits
    /\ age \in Ages
    /\ pc \in [Callers -> PC]
    /\ loaded \in [Callers -> 0 .. Rate + MaxPermits]
    /\ permits \in Nat
    /\ told \in BOOLEAN

\* As long as a window is younger than the period, no more messages than the
\* rate have been let through in it, although the count is written without
\* the mutex.  (At the period's last instant more may pass: Pass.)
WindowBound == age < Period => permits <= Rate

\* Nobody waits for ever to send: the sleeping holder of the mutex wakes up or
\* gives up, and leaves the mutex to the others.
Answers == \A c \in Callers : pc[c] = "locking" ~> pc[c] = "idle"

\* dingtalk.go:168, "DingTalk rate limit exceeded, will slow down": the window
\* counts as full until its end, whatever increments, cancelled waits and further
\* refusals follow.  The one thing that undoes a refusal is an increment that has
\* read the count and not yet written it back.
SlowsDown == told => Full
=============================================================================
