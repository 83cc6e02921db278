---------------------------- MODULE BackoffProofs ----------------------------
(***************************************************************************)
(* The range of nextBackoff's delays, for every pair of settings the       *)
(* configuration may give and every number of failed rounds.               *)
(***************************************************************************)
EXTENDS Backoff, WellFoundedInduction, TLAPS

USE BackoffAssumption

\* While the loop runs, its value is between the two settings, so that it can
\* be doubled without overflow whenever the loop's guard lets it.
LoopInRange == pc = "computing" => value \in backoff .. maxBackoff /\ i >= 1

Inv == TypeOK /\ LoopInRange /\ DelayInRange

\* The guard of the loop: half of the maximum is at least the next value.
LEMMA DoubleFits ==
    ASSUME NEW m \in 1 .. MaxInt, NEW v \in 1 .. MaxInt, v < m \div 2
    PROVE  Twice(v) = v * 2 /\ v * 2 <= m
BY DEF Twice

LEMMA InitInv == Init => Inv
<1> SUFFICES ASSUME Init PROVE Inv
  OBVIOUS
<1>1. PICK b \in Configured, m \in Configured :
        /\ backoff = OrDefault(b, DefaultBackoff)
        /\ maxBackoff = AtLeast(OrDefault(m, DefaultMaxBackoff), OrDefault(b, DefaultBackoff))
  BY DEF Init
<1>2. b \in Int /\ b <= MaxInt /\ m \in Int /\ m <= MaxInt
  OBVIOUS
<1>3. backoff \in 1 .. MaxInt
  BY <1>1, <1>2 DEF OrDefault
<1>4. maxBackoff \in backoff .. MaxInt
  BY <1>1, <1>2, <1>3 DEF OrDefault, AtLeast
<1> QED BY <1>3, <1>4 DEF Init, Inv, TypeOK, LoopInRange, DelayInRange

LEMMA NextInv == Inv /\ [Next]_vars => Inv'
<1> SUFFICES ASSUME Inv, [Next]_vars PROVE Inv'
  OBVIOUS
<1> USE DEF Inv, TypeOK, LoopInRange, DelayInRange, settings, attempt
<1>1. CASE Fail
  BY <1>1 DEF Fail
<1>2. CASE Double
  <2>1. Twice(value) = value * 2 /\ value * 2 <= maxBackoff
    BY <1>2, DoubleFits DEF Double, CanDouble
  <2> QED BY <1>2, <2>1 DEF Double
<1>3. CASE ReturnEarly
  BY <1>3 DEF ReturnEarly, Return
<1>4. CASE ReturnLate
  BY <1>4 DEF ReturnLate, Return
<1>5. CASE Reset
  BY <1>5 DEF Reset
<1>6. CASE UNCHANGED vars
  BY <1>6 DEF vars
<1> QED BY <1>1, <1>2, <1>3, <1>4, <1>5, <1>6 DEF Next

\* The machine's integers never wrap into a value out of the settings' range.
THEOREM TypeCorrect == Spec => []TypeOK
<1>1. Inv => TypeOK
  BY DEF Inv
<1> QED BY <1>1, InitInv, NextInv, PTL DEF Spec

\* DelayInRange holds for every base, maximum and number of failed rounds.
THEOREM DelayInRangeHolds == Spec => []DelayInRange
<1>1. Inv => DelayInRange
  BY DEF Inv
<1> QED BY <1>1, InitInv, NextInv, PTL DEF Spec

\* The doubling inside nextBackoff never leaves int64.
THEOREM NoOverflow == Spec => [][Double => value' = value * 2]_vars
<1>1. Inv /\ [Next]_vars => [Double => value' = value * 2]_vars
  BY DoubleFits DEF Inv, TypeOK, LoopInRange, Double, CanDouble
<1> QED BY <1>1, InitInv, NextInv, PTL DEF Spec

-----------------------------------------------------------------------------
(* Powers of two.                                                          *)

\* Induction over the numbers in a set, from the library's least elements.
LEMMA SetInduction ==
    ASSUME NEW S, 0 \in S, \A n \in Nat : n \in S => n + 1 \in S
    PROVE  Nat \subseteq S
<1> DEFINE Less == {pair \in Nat \X Nat : pair[1] < pair[2]}
           Rest == Nat \ S
<1>1. IsWellFoundedOn(Less, Nat)
  BY NatLessThanWellFounded DEF OpToRel
<1>2. SUFFICES ASSUME Rest # {} PROVE FALSE
  OBVIOUS
<1>3. PICK least \in Rest : \A m \in Rest : <<m, least>> \notin Less
  <2> HIDE DEF Less
  <2> QED BY <1>1, <1>2, WFMin
<1>4. least \in Nat \ {0} /\ least - 1 \in Nat /\ least - 1 \notin S
  BY <1>3
<1>5. <<least - 1, least>> \in Less /\ least - 1 \in Rest
  BY <1>4
<1> QED BY <1>3, <1>5

\* The first n doublings, and no more, satisfy the recursion.
Doubles(n, f) ==
    /\ f \in [0 .. n -> Nat]
    /\ f[0] = 1
    /\ \A k \in 1 .. n : f[k] = 2 * f[k - 1]

LEMMA DoublesExists == \A n \in Nat : \E f : Doubles(n, f)
<1> DEFINE S == {n \in Nat : \E f : Doubles(n, f)}
<1>1. 0 \in S
  <2> DEFINE f == [k \in 0 .. 0 |-> 1]
  <2>1. Doubles(0, f)
    BY DEF Doubles
  <2> QED BY <2>1
<1>2. ASSUME NEW n \in Nat, n \in S PROVE n + 1 \in S
  <2>1. PICK f : Doubles(n, f)
    BY <1>2
  <2> DEFINE g == [k \in 0 .. n + 1 |-> IF k = n + 1 THEN 2 * f[n] ELSE f[k]]
  <2>2. Doubles(n + 1, g)
    <3>1. g \in [0 .. n + 1 -> Nat]
      BY <2>1 DEF Doubles
    <3>2. g[0] = 1
      BY <2>1 DEF Doubles
    <3>3. ASSUME NEW k \in 1 .. n + 1 PROVE g[k] = 2 * g[k - 1]
      BY <2>1 DEF Doubles
    <3> QED BY <3>1, <3>2, <3>3 DEF Doubles
  <2> HIDE DEF g
  <2> QED BY <2>2
<1> HIDE DEF S
<1>3. Nat \subseteq S
  BY <1>1, <1>2, SetInduction
<1> QED BY <1>3 DEF S

LEMMA DoublesUnique ==
    ASSUME NEW n \in Nat, NEW m \in Nat, NEW f, NEW g, Doubles(n, f), Doubles(m, g),
           NEW k \in Nat, k <= n, k <= m
    PROVE  f[k] = g[k]
<1> DEFINE S == {j \in Nat : j <= n /\ j <= m => f[j] = g[j]}
<1>1. 0 \in S
  BY DEF Doubles
<1>2. ASSUME NEW j \in Nat, j \in S PROVE j + 1 \in S
  BY <1>2 DEF Doubles
<1> HIDE DEF S
<1>3. Nat \subseteq S
  BY <1>1, <1>2, SetInduction
<1> QED BY <1>3 DEF S

\* The recursion defines a function.
LEMMA DoublingsEquation ==
    Doublings = [n \in Nat |-> IF n = 0 THEN 1 ELSE 2 * Doublings[n - 1]]
<1> DEFINE Prefix(n) == CHOOSE f : Doubles(n, f)
           g == [n \in Nat |-> Prefix(n)[n]]
<1>1. ASSUME NEW n \in Nat PROVE Doubles(n, Prefix(n))
  BY DoublesExists
<1>2. ASSUME NEW n \in Nat PROVE g[n] = IF n = 0 THEN 1 ELSE 2 * g[n - 1]
  <2>1. CASE n = 0
    <3>1. Prefix(0)[0] = 1
      BY <1>1 DEF Doubles
    <3> QED BY <2>1, <3>1
  <2>2. CASE n # 0
    <3>1. n - 1 \in Nat /\ n \in 1 .. n
      BY <2>2
    <3>2. Prefix(n)[n] = 2 * Prefix(n)[n - 1]
      BY <1>1, <3>1 DEF Doubles
    <3>3. Prefix(n)[n - 1] = Prefix(n - 1)[n - 1]
      BY <1>1, <3>1, DoublesUnique
    <3> QED BY <2>2, <3>1, <3>2, <3>3
  <2> QED BY <2>1, <2>2
<1> HIDE DEF Prefix
<1>3. g = [n \in Nat |-> IF n = 0 THEN 1 ELSE 2 * g[n - 1]]
  BY <1>2
<1> HIDE DEF g
<1> QED BY <1>3 DEF Doublings

LEMMA DoublingsCases ==
    /\ Doublings[0] = 1
    /\ \A n \in Nat : Doublings[n + 1] = 2 * Doublings[n]
<1>1. \A n \in Nat : Doublings[n] = IF n = 0 THEN 1 ELSE 2 * Doublings[n - 1]
  BY DoublingsEquation
<1>2. ASSUME NEW n \in Nat PROVE Doublings[n + 1] = 2 * Doublings[n]
  BY <1>1
<1> QED BY <1>1, <1>2

LEMMA DoublingsType == \A n \in Nat : Doublings[n] \in Nat \ {0}
<1> DEFINE S == {n \in Nat : Doublings[n] \in Nat \ {0}}
<1>1. 0 \in S /\ \A n \in Nat : n \in S => n + 1 \in S
  BY DoublingsCases
<1> HIDE DEF S
<1>2. Nat \subseteq S
  BY <1>1, SetInduction
<1> QED BY <1>2 DEF S

LEMMA DoublingsGrow ==
    ASSUME NEW m \in Nat, NEW n \in Nat, m < n
    PROVE  2 * Doublings[m] <= Doublings[n]
<1> DEFINE S == {k \in Nat : 2 * Doublings[m] <= Doublings[m + 1 + k]}
<1>1. 0 \in S
  BY DoublingsCases, DoublingsType
<1>2. ASSUME NEW k \in Nat, k \in S PROVE k + 1 \in S
  <2>1. Doublings[m + 1 + k] \in Nat \ {0} /\ Doublings[m] \in Nat
    BY DoublingsType
  <2>2. Doublings[(m + 1 + k) + 1] = 2 * Doublings[m + 1 + k]
    BY DoublingsCases
  <2> QED BY <1>2, <2>1, <2>2
<1> HIDE DEF S
<1>3. Nat \subseteq S
  BY <1>1, <1>2, SetInduction
<1>4. n - m - 1 \in S /\ m + 1 + (n - m - 1) = n
  BY <1>3
<1> QED BY <1>4 DEF S

-----------------------------------------------------------------------------
(* nextBackoff doubles from one failed round to the next.                  *)

\* In its i-th round the loop has doubled the base i - 1 times.
LoopFollows ==
    pc = "computing" => i \in 1 .. attempt /\ value = backoff * Doublings[i - 1]

\* After the n-th failed round the delay is the base doubled n - 1 times, or the
\* maximum once that is a unit short of it or beyond it.
DelayFollows ==
    attempts > 0 =>
      LET exact == backoff * Doublings[attempts - 1]
      IN \/ delay = exact /\ exact <= maxBackoff
         \/ delay = maxBackoff /\ exact + 1 >= maxBackoff

Doubled ==
    attempts > 0 /\ attempts' = attempts + 1 =>
      \/ delay' = 2 * delay
      \/ delay' = maxBackoff /\ 2 * delay + 1 >= maxBackoff

LEMMA NextFollows ==
    ASSUME Inv, LoopFollows, DelayFollows, [Next]_vars
    PROVE  LoopFollows' /\ DelayFollows' /\ Doubled
<1> USE DEF attempt, settings
<1>0. /\ backoff \in 1 .. MaxInt /\ maxBackoff \in backoff .. MaxInt
      /\ attempts \in Nat /\ i \in Nat /\ value \in Int /\ delay \in Int
      /\ pc = "computing" => value \in backoff .. maxBackoff
  BY DEF Inv, TypeOK, LoopInRange
<1>1. CASE Fail
  <2>1. Doublings[0] = 1
    BY DoublingsCases
  <2>2. LoopFollows'
    BY <1>0, <1>1, <2>1 DEF Fail, LoopFollows
  <2> QED BY <1>0, <1>1, <2>2 DEF Fail, DelayFollows, Doubled
<1>2. CASE Double
  <2>1. /\ i \in 1 .. attempts /\ i' = i + 1 /\ value' = 2 * value
        /\ value = backoff * Doublings[i - 1] /\ pc = "computing"
        /\ UNCHANGED <<settings, attempts, delay, pc>>
    BY <1>0, <1>2, DoubleFits DEF Double, CanDouble, LoopFollows
  <2>2. i - 1 \in Nat /\ Doublings[i - 1] \in Nat /\ Doublings[i] = 2 * Doublings[i - 1]
    <3>1. i - 1 \in Nat /\ (i - 1) + 1 = i
      BY <1>0, <2>1
    <3> QED BY <3>1, DoublingsCases, DoublingsType
  <2>3. value' = backoff * Doublings[i]
    BY <1>0, <2>1, <2>2
  <2> QED BY <1>0, <2>1, <2>3 DEF LoopFollows, DelayFollows, Doubled
<1>3. CASE ReturnEarly
  <2>1. /\ i \in 1 .. attempts /\ value = backoff * Doublings[i - 1]
        /\ value >= maxBackoff \div 2 /\ delay' = maxBackoff
        /\ attempts' = attempts + 1 /\ pc' = "stored" /\ UNCHANGED settings
    BY <1>0, <1>3 DEF ReturnEarly, Return, CanDouble, LoopFollows
  <2> DEFINE before == backoff * Doublings[attempts - 1]
             after  == backoff * Doublings[attempts]
  <2>2. /\ attempts - 1 \in Nat /\ i - 1 \in Nat /\ i - 1 <= attempts - 1
        /\ Doublings[i - 1] \in Nat /\ Doublings[attempts - 1] \in Nat
        /\ Doublings[attempts] = 2 * Doublings[attempts - 1]
    <3>1. attempts - 1 \in Nat /\ i - 1 \in Nat /\ i - 1 <= attempts - 1
          /\ (attempts - 1) + 1 = attempts
      BY <1>0, <2>1
    <3> QED BY <3>1, DoublingsCases, DoublingsType
  <2>3. Doublings[i - 1] <= Doublings[attempts - 1]
    <3>1. CASE i - 1 = attempts - 1
      BY <2>2, <3>1
    <3>2. CASE i - 1 # attempts - 1
      <4>1. i - 1 < attempts - 1
        BY <1>0, <2>2, <3>2
      <4>2. 2 * Doublings[i - 1] <= Doublings[attempts - 1]
        BY <2>2, <4>1, DoublingsGrow
      <4> QED BY <2>2, <4>2
    <3> QED BY <3>1, <3>2
  <2>4. before \in Int /\ value <= before /\ after = 2 * before
    BY <1>0, <2>1, <2>2, <2>3
  <2>5. before >= maxBackoff \div 2
    BY <1>0, <2>1, <2>4
  <2>6. 2 * before + 1 >= maxBackoff
    BY <1>0, <2>4, <2>5
  <2>7. delay = before \/ delay = maxBackoff
    BY <1>0, <2>1 DEF DelayFollows
  <2>8. LoopFollows'
    BY <2>1 DEF LoopFollows
  <2>9. DelayFollows'
    <3>1. attempts' - 1 = attempts
      BY <1>0, <2>1
    <3> QED BY <2>1, <2>4, <2>6, <3>1 DEF DelayFollows
  <2> HIDE DEF before, after
  <2> QED BY <1>0, <2>1, <2>4, <2>6, <2>7, <2>8, <2>9 DEF Doubled
<1>4. CASE ReturnLate
  <2>1. /\ value = backoff * Doublings[attempts] /\ value <= maxBackoff
        /\ delay' = value /\ attempts' = attempts + 1 /\ pc' = "stored"
        /\ UNCHANGED settings
    <3>1. pc = "computing" /\ i = attempts + 1 /\ i - 1 = attempts
      BY <1>0, <1>4 DEF ReturnLate, LoopFollows
    <3> QED BY <1>0, <1>4, <3>1 DEF ReturnLate, Return, LoopFollows
  <2>2. LoopFollows'
    BY <2>1 DEF LoopFollows
  <2>3. DelayFollows'
    <3>1. attempts' - 1 = attempts
      BY <1>0, <2>1
    <3> QED BY <2>1, <3>1 DEF DelayFollows
  <2>4. ASSUME attempts > 0 PROVE Doubled
    <3> DEFINE before == backoff * Doublings[attempts - 1]
    <3>1. /\ attempts - 1 \in Nat /\ Doublings[attempts - 1] \in Nat \ {0}
          /\ Doublings[attempts] = 2 * Doublings[attempts - 1]
      <4>1. attempts - 1 \in Nat /\ (attempts - 1) + 1 = attempts
        BY <1>0, <2>4
      <4> QED BY <4>1, DoublingsCases, DoublingsType
    <3>2. before \in Int /\ before >= 1 /\ value = 2 * before
      BY <1>0, <2>1, <3>1
    <3>3. delay = before \/ (delay = maxBackoff /\ before + 1 >= maxBackoff)
      BY <2>4 DEF DelayFollows
    <3> HIDE DEF before
    <3> QED BY <1>0, <2>1, <3>2, <3>3 DEF Doubled
  <2>5. ASSUME ~(attempts > 0) PROVE Doubled
    BY <2>5 DEF Doubled
  <2> QED BY <2>2, <2>3, <2>4, <2>5
<1>5. CASE Reset
  BY <1>0, <1>5 DEF Reset, LoopFollows, DelayFollows, Doubled
<1>6. CASE UNCHANGED vars
  BY <1>0, <1>6 DEF vars, LoopFollows, DelayFollows, Doubled
<1> QED BY <1>1, <1>2, <1>3, <1>4, <1>5, <1>6 DEF Next

\* From one failed round to the next the delay doubles, or is the maximum because
\* the double is at most a unit short of it, for every base, maximum and number
\* of rounds.
THEOREM DoublesUntilCappedHolds == Spec => DoublesUntilCapped
<1>1. Init => LoopFollows /\ DelayFollows
  BY DEF Init, LoopFollows, DelayFollows
<1>2. Inv /\ LoopFollows /\ DelayFollows /\ [Next]_vars => LoopFollows' /\ DelayFollows'
  BY NextFollows
<1>3. Inv /\ LoopFollows /\ DelayFollows /\ [Next]_vars => [Doubled]_vars
  BY NextFollows
<1>4. [Doubled]_vars =>
        [attempts > 0 /\ attempts' = attempts + 1 =>
           \/ delay' = 2 * delay
           \/ delay' = maxBackoff /\ 2 * delay + 1 >= maxBackoff]_vars
  BY DEF Doubled
<1> QED BY <1>1, <1>2, <1>3, <1>4, InitInv, NextInv, PTL DEF Spec, DoublesUntilCapped
=============================================================================
