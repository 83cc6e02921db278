------------------------- MODULE RateLimiterProofs -------------------------
(***************************************************************************)
(* Theorems about RateLimiter, for every set of callers, rate and period.  *)
(***************************************************************************)
EXTENDS RateLimiter, TLAPS

USE LimiterAssumption

\* Only the holder of the mutex is inside Wait.
Exclusive == \A c \in Callers : pc[c] \in InWait => mu = c

\* The count may have lost or gained through the unlocked write, but it is
\* never below the messages of its window unless it is at the rate.
Covers(n) == permits <= n \/ n >= Rate
Bounded(n) == n <= Rate + permits

Counted ==
    /\ permits <= MaxPermits
    /\ Covers(messageCount) /\ Bounded(messageCount)
    /\ \A c \in Callers : pc[c] = "storing" => Covers(loaded[c]) /\ Bounded(loaded[c])

\* Whoever is about to be let through has found room, or an old window.
RoomFound ==
    \A c \in Callers : pc[c] \in {"loading", "storing"} =>
        /\ permits < MaxPermits
        /\ age >= Period \/ permits < Rate

\* After a refusal that met no increment, neither the count nor a copy of it that
\* is about to be written back falls below the rate.
StaysFull ==
    told => /\ messageCount >= Rate
            /\ \A c \in Callers : pc[c] = "storing" => loaded[c] >= Rate

IInv == TypeOK /\ Exclusive /\ Counted /\ RoomFound /\ WindowBound

LEMMA ZeroFits == 0 \in Ages /\ 0 \in 0 .. Rate + MaxPermits
BY DEF Ages

LEMMA InitInv == Init => IInv
<1> SUFFICES ASSUME Init PROVE IInv
  OBVIOUS
<1>1. TypeOK
  BY ZeroFits DEF Init, TypeOK, PC
<1>2. Exclusive /\ RoomFound
  BY DEF Init, Exclusive, RoomFound, InWait
<1>3. Counted /\ WindowBound
  BY DEF Init, Counted, Covers, Bounded, WindowBound
<1> QED BY <1>1, <1>2, <1>3 DEF IInv

\* A step that leaves the window and the counts alone and lets nobody near the
\* increment.
LEMMA QuietStep ==
    ASSUME IInv, NEW c \in Callers, NEW label \in PC \ {"loading", "storing"},
           Goto(c, label), mu' \in Callers \cup {Nobody},
           \A d \in Callers : pc'[d] \in InWait => mu' = d,
           UNCHANGED <<messageCount, age, loaded, observed>>
    PROVE  IInv'
<1>1. pc' \in [Callers -> PC] /\ \A d \in Callers : d # c => pc'[d] = pc[d]
  BY DEF IInv, TypeOK, Goto
<1>2. pc'[c] = label
  BY DEF IInv, TypeOK, Goto
<1>3. TypeOK' /\ Exclusive' /\ WindowBound'
  BY <1>1 DEF IInv, TypeOK, Exclusive, WindowBound, observed, Ages
<1>4. Counted' /\ RoomFound'
  BY <1>1, <1>2 DEF IInv, TypeOK, Counted, Covers, Bounded, RoomFound, observed
<1> QED BY <1>3, <1>4 DEF IInv

\* The first moment of a window, whoever opens it being alone in Wait.
LEMMA NewWindowStep ==
    ASSUME IInv, NEW c \in Callers, pc[c] \in InWait, NewWindow,
           NEW label \in {"comparing", "loading"}, Goto(c, label), UNCHANGED <<mu, loaded>>
    PROVE  IInv'
<1>1. pc' \in [Callers -> PC] /\ pc'[c] = label
      /\ \A d \in Callers : d # c => pc'[d] = pc[d]
  BY DEF IInv, TypeOK, Goto, PC, InWait
<1>2. mu = c /\ \A d \in Callers : d # c => pc'[d] \notin InWait
  BY <1>1 DEF IInv, Exclusive
<1>3. TypeOK'
  BY <1>1, ZeroFits DEF IInv, TypeOK, NewWindow
<1>4. Exclusive' /\ WindowBound'
  BY <1>1, <1>2 DEF Exclusive, WindowBound, NewWindow
<1>5. \A d \in Callers : pc'[d] # "storing"
  BY <1>1, <1>2 DEF InWait
<1>6. Counted' /\ RoomFound'
  BY <1>5 DEF Counted, Covers, Bounded, RoomFound, NewWindow
<1> QED BY <1>3, <1>4, <1>6 DEF IInv

LEMMA NextInv == IInv /\ [Next]_vars => IInv'
<1> SUFFICES ASSUME IInv, [Next]_vars PROVE IInv'
  OBVIOUS
<1>1. ASSUME NEW c \in Callers, Distribute(c) PROVE IInv'
  <2>1. \A d \in Callers : pc'[d] \in InWait => mu' = d
    BY <1>1 DEF IInv, TypeOK, Exclusive, Distribute, Goto, InWait
  <2> QED BY <1>1, <2>1, QuietStep DEF Distribute, PC, InWait, IInv, TypeOK
<1>2. ASSUME NEW c \in Callers, Lock(c) PROVE IInv'
  <2>1. \A d \in Callers : pc'[d] \in InWait => mu' = d
    BY <1>2 DEF IInv, TypeOK, Exclusive, Lock, Goto, InWait
  <2> QED BY <1>2, <2>1, QuietStep DEF Lock, PC, InWait
<1>3. ASSUME NEW c \in Callers, Reset(c) PROVE IInv'
  BY <1>3, NewWindowStep DEF Reset, InWait
<1>4. ASSUME NEW c \in Callers, Sleep(c) PROVE IInv'
  <2>1. \A d \in Callers : pc'[d] \in InWait => mu' = d
    BY <1>4 DEF IInv, TypeOK, Exclusive, Sleep, Goto, InWait
  <2> QED BY <1>4, <2>1, QuietStep DEF Sleep, PC, InWait, IInv, TypeOK
<1>5. ASSUME NEW c \in Callers, Pass(c) PROVE IInv'
  <2>1. pc' \in [Callers -> PC] /\ pc'[c] = "loading"
        /\ \A d \in Callers : d # c => pc'[d] = pc[d]
    BY <1>5 DEF IInv, TypeOK, Pass, Goto, PC, InWait
  <2>2. mu = c /\ \A d \in Callers : d # c => pc'[d] \notin InWait
    BY <1>5, <2>1 DEF IInv, Exclusive, Pass, InWait
  <2>3. TypeOK' /\ Exclusive' /\ WindowBound'
    BY <1>5, <2>1, <2>2 DEF IInv, TypeOK, Exclusive, WindowBound, Pass, observed
  <2>4. Counted'
    BY <1>5, <2>1, <2>2 DEF IInv, TypeOK, Counted, Covers, Bounded, Pass, observed, InWait
  <2>5. age >= Period \/ permits < Rate
    BY <1>5 DEF IInv, TypeOK, Counted, Covers, Pass, Full, Ages
  <2>6. RoomFound'
    BY <1>5, <2>1, <2>2, <2>5 DEF RoomFound, Pass, observed, InWait
  <2> QED BY <2>3, <2>4, <2>6 DEF IInv
<1>6. ASSUME NEW c \in Callers, Wake(c) PROVE IInv'
  BY <1>6, NewWindowStep DEF Wake, InWait
<1>7. ASSUME NEW c \in Callers, GiveUp(c) PROVE IInv'
  <2>1. \A d \in Callers : pc'[d] \in InWait => mu' = d
    BY <1>7 DEF IInv, TypeOK, Exclusive, GiveUp, Goto, InWait
  <2> QED BY <1>7, <2>1, QuietStep DEF GiveUp, PC, InWait
<1>8. ASSUME NEW c \in Callers, Load(c) PROVE IInv'
  <2>1. pc' \in [Callers -> PC] /\ pc'[c] = "storing"
        /\ \A d \in Callers : d # c => pc'[d] = pc[d]
    BY <1>8 DEF IInv, TypeOK, Load, Goto, PC, InWait
  <2>2. loaded' \in [Callers -> 0 .. Rate + MaxPermits] /\ loaded'[c] = messageCount
        /\ \A d \in Callers : d # c => loaded'[d] = loaded[d]
    BY <1>8 DEF IInv, TypeOK, Load
  <2>3. TypeOK' /\ Exclusive' /\ WindowBound'
    BY <1>8, <2>1, <2>2 DEF IInv, TypeOK, Exclusive, WindowBound, Load, observed, InWait
  <2>4. Counted' /\ RoomFound'
    BY <1>8, <2>1, <2>2 DEF IInv, Counted, Covers, Bounded, RoomFound, Load, observed
  <2> QED BY <2>3, <2>4 DEF IInv
<1>9. ASSUME NEW c \in Callers, Store(c) PROVE IInv'
  <2>1. pc' \in [Callers -> PC] /\ pc'[c] = "sending"
        /\ \A d \in Callers : d # c => pc'[d] = pc[d]
    BY <1>9 DEF IInv, TypeOK, Store, Goto, PC
  <2>2. mu = c /\ \A d \in Callers : pc'[d] \notin InWait
    BY <1>9, <2>1 DEF IInv, Exclusive, Store, InWait
  <2>3. /\ permits < MaxPermits
        /\ age >= Period \/ permits < Rate
        /\ Covers(loaded[c]) /\ Bounded(loaded[c])
        /\ loaded[c] \in Nat
    BY <1>9 DEF IInv, TypeOK, RoomFound, Counted, Store
  <2>4. Covers(messageCount)' /\ Bounded(messageCount)' /\ permits' <= MaxPermits
    BY <1>9, <2>3 DEF IInv, TypeOK, Covers, Bounded, Store
  <2>5. messageCount' \in 0 .. Rate + MaxPermits
    BY <1>9, <2>3 DEF IInv, TypeOK, Bounded, Store
  <2>6. TypeOK' /\ Exclusive' /\ WindowBound'
    BY <1>9, <2>1, <2>2, <2>3, <2>5
       DEF IInv, TypeOK, Exclusive, WindowBound, Store, Ages
  <2>7. Counted' /\ RoomFound'
    BY <2>2, <2>4 DEF Counted, RoomFound, InWait
  <2> QED BY <2>6, <2>7 DEF IInv
<1>10. ASSUME NEW c \in Callers, Answered(c) \/ TooMany(c) PROVE IInv'
  <2>1. \A d \in Callers : pc'[d] \in InWait => mu' = d
    BY <1>10 DEF IInv, TypeOK, Exclusive, Answered, TooMany, Goto, InWait
  <2> QED BY <1>10, <2>1, QuietStep DEF Answered, TooMany, PC, InWait, IInv, TypeOK
<1>11. ASSUME NEW c \in Callers, Throttle(c) PROVE IInv'
  <2>1. pc' \in [Callers -> PC] /\ pc'[c] = "idle"
        /\ \A d \in Callers : d # c => pc'[d] = pc[d]
    BY <1>11 DEF IInv, TypeOK, Throttle, Goto, PC
  <2>2. TypeOK' /\ Exclusive' /\ WindowBound'
    BY <1>11, <2>1 DEF IInv, TypeOK, Exclusive, WindowBound, Throttle, InWait
  <2>3. Counted' /\ RoomFound'
    BY <1>11, <2>1 DEF IInv, TypeOK, Counted, Covers, Bounded, RoomFound, Throttle
  <2> QED BY <2>2, <2>3 DEF IInv
<1>12. CASE Tick
  <2>1. TypeOK' /\ Exclusive' /\ WindowBound'
    BY <1>12 DEF IInv, TypeOK, Exclusive, WindowBound, Tick, Ages, observed
  <2>2. Counted' /\ RoomFound'
    BY <1>12 DEF IInv, TypeOK, Counted, Covers, Bounded, RoomFound, Tick, Ages, observed
  <2> QED BY <2>1, <2>2 DEF IInv
<1>13. CASE UNCHANGED vars
  BY <1>13 DEF vars, IInv, TypeOK, Exclusive, Counted, Covers, Bounded, RoomFound,
               WindowBound
<1> QED BY <1>1, <1>2, <1>3, <1>4, <1>5, <1>6, <1>7, <1>8, <1>9, <1>10, <1>11, <1>12,
           <1>13 DEF Next, Step

LEMMA InitFull == Init => StaysFull
BY DEF Init, StaysFull

LEMMA NextFull == IInv /\ StaysFull /\ [Next]_vars => StaysFull'
<1> SUFFICES ASSUME IInv, StaysFull, [Next]_vars PROVE StaysFull'
  OBVIOUS
<1> USE DEF IInv, TypeOK, Goto
<1>1. ASSUME NEW c \in Callers, NEW label \in PC \ {"storing"}, Goto(c, label),
             UNCHANGED <<messageCount, loaded, told>>
      PROVE  StaysFull'
  BY <1>1 DEF StaysFull
<1>2. ASSUME NewWindow PROVE StaysFull'
  BY <1>2 DEF NewWindow, StaysFull
<1>3. ASSUME NEW c \in Callers, Load(c) PROVE StaysFull'
  BY <1>3 DEF Load, StaysFull, observed
<1>4. ASSUME NEW c \in Callers, Store(c) PROVE StaysFull'
  BY <1>4 DEF Store, StaysFull
<1>5. ASSUME NEW c \in Callers, Throttle(c) PROVE StaysFull'
  BY <1>5 DEF Throttle, Incrementing, StaysFull
<1>6. CASE Tick \/ UNCHANGED vars
  BY <1>6 DEF Tick, vars, observed, StaysFull
<1>7. ASSUME NEW c \in Callers, Distribute(c) \/ Lock(c) \/ Sleep(c) \/ Pass(c) \/ GiveUp(c)
                               \/ Answered(c) \/ TooMany(c)
      PROVE  StaysFull'
  BY <1>1, <1>7 DEF Distribute, Lock, Sleep, Pass, GiveUp, Answered, TooMany, observed, PC, InWait
<1>8. ASSUME NEW c \in Callers, Reset(c) \/ Wake(c) PROVE StaysFull'
  BY <1>2, <1>8 DEF Reset, Wake
<1> QED BY <1>3, <1>4, <1>5, <1>6, <1>7, <1>8 DEF Next, Step

LEMMA IInvHolds == Spec => []IInv
BY InitInv, NextInv, PTL DEF Spec

\* The count, with its unlocked write, stays within its range.
THEOREM TypeCorrect == Spec => []TypeOK
<1>1. IInv => TypeOK
  BY DEF IInv
<1> QED BY <1>1, IInvHolds, PTL

\* RateLimiter.Wait lets at most the rate through before a window's last
\* instant, whatever the unlocked write of Throttle does to the count.
THEOREM WindowBoundHolds == Spec => []WindowBound
<1>1. IInv => WindowBound
  BY DEF IInv
<1> QED BY <1>1, IInvHolds, PTL

\* After "will slow down" the window counts as full until it ends, for any number
\* of callers, unless an increment was in progress at every refusal.
THEOREM SlowsDownHolds == Spec => []SlowsDown
<1>1. StaysFull => SlowsDown
  BY DEF StaysFull, SlowsDown, Full
<1> QED BY <1>1, InitInv, NextInv, InitFull, NextFull, PTL DEF Spec
=============================================================================
