-------------------------- MODULE BackgroundProofs --------------------------
(***************************************************************************)
(* Background work, searches and playback: when a step runs, what the page *)
(* shows of it, where its statements go, and how a receipt is played.      *)
(*                                                                         *)
(* Clock.  How far the accumulator may be off is not inductive by itself:  *)
(* when the epsilon lets a step come early, how early it was is forgotten. *)
(* PageInv counts such steps.  Time comes in quanta, so the k-th can come  *)
(* early only after rounding has added k quanta less k epsilons; with an   *)
(* epsilon below half a quantum that is more than the k epsilons that were *)
(* forgotten.                                                              *)
(*                                                                         *)
(* Dashboard.  What the panel keeps (total, anchors, chart) is what the    *)
(* record of background work says up to the last sample it took (Seen), and*)
(* the statement counter has since gained exactly what the load ran        *)
(* (Matches): a traced statement moves both at once.                       *)
(*                                                                         *)
(* Lookup.  The bisection of RegionLookup returns the Region that holds    *)
(* the key, for any number of Regions, keys and splits.  The loop          *)
(* invariant names no Region: the positions still in question begin at or  *)
(* below the key and end above it.  With the start keys sorted they cannot *)
(* run out.                                                                *)
(*                                                                         *)
(* Detector.  The search is well defined because every call has fewer      *)
(* transactions nobody visited, or fewer neighbours left, than the one     *)
(* that made it (Size).  A search that finds no path has visited a set     *)
(* that no edge leaves, with the holder in it and the waiter not, so the   *)
(* new edge is on no cycle.                                                *)
(*                                                                         *)
(* Playback.  The schedule of a receipt is first shown to be one: starts   *)
(* and ends in order, an event's start not below the end of what it waits  *)
(* for, every group contiguous (Plays).  PlaybackInv then says that the    *)
(* clock, the particles on screen, the sought event and the hold always    *)
(* agree with that schedule, whatever the controls did before.             *)
(***************************************************************************)
EXTENDS WaitForCycle, RegionLookup, CityPage, TracePlayback,
        FiniteSetTheorems, NaturalsInduction, WellFoundedInduction, TLAPS

(* Induction over the natural numbers, for a set.                          *)
LEMMA CountsUp ==
  ASSUME NEW P, 0 \in P, \A n \in Nat : n \in P => n + 1 \in P
  PROVE  \A n \in Nat : n \in P
<1> DEFINE R == {p \in Nat \X Nat : p[1] < p[2]}
           Bad == Nat \ P
<1>1. IsWellFoundedOn(R, Nat)
  BY NatLessThanWellFounded DEF OpToRel
<1>2. SUFFICES ASSUME Bad # {} PROVE FALSE
  OBVIOUS
<1> HIDE DEF R
<1>3. PICK n \in Bad : \A m \in Bad : ~ (<<m, n>> \in R)
  BY <1>1, <1>2, WFMin
<1>4. n - 1 \in Nat /\ n - 1 < n /\ n \in Nat /\ (n - 1) + 1 = n
  BY <1>3
<1>5. n - 1 \in Bad
  BY <1>3, <1>4
<1>6. QED
  BY <1>3, <1>4, <1>5 DEF R

LEMMA MaxOfTwo ==
  ASSUME NEW a \in Int, NEW b \in Int
  PROVE  Max({a, b}) = IF a >= b THEN a ELSE b
BY DEF Max

LEMMA MinOfTwo ==
  ASSUME NEW a \in Int, NEW b \in Int
  PROVE  Min({a, b}) = IF a <= b THEN a ELSE b
BY DEF Min

LEMMA Commutes ==
  ASSUME NEW a \in Int, NEW b \in Int
  PROVE  a * b = b * a /\ b * a \in Int
OBVIOUS

LEMMA DivMod ==
  ASSUME NEW a \in Int, NEW b \in Int, b > 0
  PROVE  /\ a \div b \in Int /\ a % b \in 0..(b - 1)
         /\ a = b * (a \div b) + (a % b)
  BY SMTT(30)

LEMMA DivUnique ==
  ASSUME NEW a \in Int, NEW k \in Int, NEW b \in Int, b > 0, NEW r \in Int,
         0 <= r, r < b, a = k * b + r
  PROVE  a \div b = k
  BY SMTT(30)

-----------------------------------------------------------------------------
(* Whole multiples of a quantum.                                           *)
Multiple(a, q) == \E k \in Int : a = k * q

LEMMA MultipleTimes ==
  ASSUME NEW a \in Int, NEW q \in Int, NEW m \in Int, Multiple(a, q)
  PROVE  Multiple(m * a, q)
<1>1. PICK k \in Int : a = k * q
  BY DEF Multiple
<1>2. m * a = (m * k) * q /\ m * k \in Int
  BY <1>1
<1>3. QED
  BY <1>2 DEF Multiple

LEMMA MultipleSum ==
  ASSUME NEW a \in Int, NEW b \in Int, NEW q \in Int, Multiple(a, q), Multiple(b, q)
  PROVE  Multiple(a + b, q) /\ Multiple(a - b, q)
<1>1. PICK k \in Int : a = k * q
  BY DEF Multiple
<1>2. PICK j \in Int : b = j * q
  BY DEF Multiple
<1>3. a + b = (k + j) * q /\ a - b = (k - j) * q
  BY <1>1, <1>2
<1>4. k + j \in Int /\ k - j \in Int
  OBVIOUS
<1>5. QED
  BY <1>3, <1>4 DEF Multiple

\* Between two neighbouring multiples there is no third.
LEMMA MultipleGap ==
  ASSUME NEW a \in Int, NEW q \in Int, q > 0, NEW j \in Int, Multiple(a, q), a < j * q
  PROVE  a <= (j - 1) * q
<1>1. PICK k \in Int : a = k * q
  BY DEF Multiple
<1>2. k < j
  <2>1. SUFFICES ASSUME j <= k PROVE FALSE
    BY <1>1
  <2>2. (k - j) * q >= 0
    BY <2>1
  <2>3. (k - j) * q = k * q - j * q /\ k * q \in Int /\ j * q \in Int
    OBVIOUS
  <2>4. QED
    BY <1>1, <2>2, <2>3
<1>3. ((j - 1) - k) * q >= 0
  BY <1>2
<1>4. ((j - 1) - k) * q = (j - 1) * q - k * q /\ (j - 1) * q \in Int /\ k * q \in Int
  OBVIOUS
<1>5. QED
  BY <1>1, <1>3, <1>4

\* The quantum of real time that PageAssumption says there is.
Quantum ==
  CHOOSE quantum \in 1..FixedStep :
    /\ 2 * Epsilon < quantum
    /\ \A time \in Durations \cup {FixedStep} : time % quantum = 0

LEMMA QuantumFacts ==
  /\ Quantum \in 1..FixedStep /\ 2 * Epsilon < Quantum
  /\ Multiple(FixedStep, Quantum) /\ \A time \in Durations : Multiple(time, Quantum)
<1>1. /\ Quantum \in 1..FixedStep /\ 2 * Epsilon < Quantum
      /\ \A time \in Durations \cup {FixedStep} : time % Quantum = 0
  <2> DEFINE Fits(quantum) == /\ 2 * Epsilon < quantum
                              /\ \A time \in Durations \cup {FixedStep} : time % quantum = 0
  <2>1. \E quantum \in 1..FixedStep : Fits(quantum)
    BY PageAssumption
  <2>2. Quantum = CHOOSE quantum \in 1..FixedStep : Fits(quantum)
    BY Zenon DEF Quantum
  <2> HIDE DEF Fits
  <2>3. Quantum \in 1..FixedStep /\ Fits(Quantum)
    BY Zenon, <2>1, <2>2
  <2>4. QED
    BY Zenon, <2>3 DEF Fits
<1>2. ASSUME NEW time \in Durations \cup {FixedStep} PROVE Multiple(time, Quantum)
  <2>1. time \in Int /\ Quantum \in Int /\ Quantum > 0 /\ time % Quantum = 0
    BY <1>1, PageAssumption
  <2>2. time \div Quantum \in Int /\ time = Quantum * (time \div Quantum) + 0
    BY <2>1, DivMod
  <2>3. time = (time \div Quantum) * Quantum
    BY <2>1, <2>2
  <2>4. QED
    BY <2>2, <2>3 DEF Multiple
<1>3. QED
  BY <1>1, <1>2

-----------------------------------------------------------------------------
(* The clock is off by what rounding added, and by an epsilon for each     *)
(* step that came before its time.  Such a step, k of them, needed an error*)
(* of k quanta.                                                            *)
Early(drift, error, k) ==
  k \in Nat /\ drift <= error + k * Epsilon /\ k * Quantum <= error + k * Epsilon

Within(drift, error) == -error <= drift /\ \E k : Early(drift, error, k)

LEMMA EarlyBounded ==
  ASSUME NEW drift \in Int, NEW error \in Nat, Within(drift, error)
  PROVE  drift \in -error..(2 * error) /\ (error <= Epsilon => drift <= error)
<1>1. PICK k : Early(drift, error, k)
  BY DEF Within
<1>2. k \in Nat /\ Epsilon \in Nat /\ Quantum \in Nat /\ 2 * Epsilon + 1 <= Quantum
  BY <1>1, QuantumFacts, PageAssumption DEF Early
<1>3. drift <= error + k * Epsilon /\ k * Quantum <= error + k * Epsilon
  BY <1>1 DEF Early
<1>4. k * (Quantum - (2 * Epsilon + 1)) >= 0
  BY <1>2
<1>5. k * (Quantum - (2 * Epsilon + 1)) = k * Quantum - (k * Epsilon + k * Epsilon + k)
      /\ k * Quantum \in Nat /\ k * Epsilon \in Nat
  BY <1>2
<1>6. k * Epsilon + k <= error
  BY <1>2, <1>3, <1>4, <1>5
<1>7. error <= Epsilon => k = 0
  <2>1. SUFFICES ASSUME error <= Epsilon, k >= 1 PROVE FALSE
    BY <1>2
  <2>2. (k - 1) * Epsilon >= 0 /\ (k - 1) * Epsilon = k * Epsilon - Epsilon
    BY <1>2, <2>1
  <2>3. QED
    BY <1>2, <1>5, <1>6, <2>1, <2>2
<1>8. k = 0 => k * Epsilon = 0
  BY <1>2
<1>9. -error <= drift
  BY DEF Within
<1>10. QED
  BY <1>2, <1>3, <1>5, <1>6, <1>7, <1>8, <1>9

(* An accumulator that keeps time, after so many steps, of so much time    *)
(* played in so many frames: it never holds a step that is due, the time   *)
(* is a multiple of the quantum, and the clock is Within bounds.           *)
Kept(accumulator, steps, elapsed, frames) ==
  /\ accumulator \in Nat /\ accumulator + Epsilon < FixedStep
  /\ steps \in Int /\ elapsed \in Nat /\ frames \in Nat
  /\ Multiple(elapsed, Quantum)
  /\ Within(accumulator + steps * FixedStep - elapsed, Rounding * frames)

\* update: the steps of a frame, and the rest that stays in the accumulator.
Ran(accumulator, played, off, n, rest) ==
  LET sum == accumulator + played + off
  IN  n = StepsDue(sum) /\ rest = Max({0, sum - n * FixedStep})

(* A frame keeps time.                                                     *)
LEMMA FrameKeepsTime ==
  ASSUME NEW accumulator, NEW steps, NEW elapsed, NEW frames,
         Kept(accumulator, steps, elapsed, frames),
         NEW played \in Nat, Multiple(played, Quantum), NEW off \in -Rounding..Rounding,
         NEW n, NEW rest, Ran(accumulator, played, off, n, rest)
  PROVE  n \in Nat /\ Kept(rest, steps + n, elapsed + played, frames + 1)
<1> DEFINE sum == accumulator + played + off
           drift == accumulator + steps * FixedStep - elapsed
           error == Rounding * frames
           due == (elapsed + played) - (steps + n) * FixedStep
           left == sum - n * FixedStep
           next == Rounding * (frames + 1)
<1>0. /\ accumulator \in Nat /\ accumulator + Epsilon < FixedStep
      /\ steps \in Int /\ elapsed \in Nat /\ frames \in Nat
      /\ Multiple(elapsed, Quantum) /\ Within(drift, error)
      /\ n = (sum + Epsilon) \div FixedStep /\ rest = Max({0, left})
  BY DEF Kept, Ran, StepsDue
<1> HIDE DEF sum
<1>1. /\ FixedStep \in Nat \ {0} /\ Epsilon \in Nat /\ Rounding \in Nat /\ Rounding <= Epsilon
      /\ Quantum \in Nat /\ Quantum > 0 /\ Multiple(FixedStep, Quantum)
      /\ 2 * Epsilon < Quantum /\ Quantum <= FixedStep
  BY QuantumFacts, PageAssumption
<1>2. sum \in Int /\ sum + Epsilon >= 0 /\ off \in Int /\ -Rounding <= off /\ off <= Rounding
      /\ sum = accumulator + played + off
  BY <1>0, <1>1 DEF sum
<1>3. n \in Int /\ left + Epsilon \in 0..(FixedStep - 1)
  <2>1. /\ n \in Int /\ (sum + Epsilon) % FixedStep \in 0..(FixedStep - 1)
        /\ sum + Epsilon = FixedStep * n + ((sum + Epsilon) % FixedStep)
    BY <1>0, <1>1, <1>2, DivMod
  <2>2. FixedStep * n = n * FixedStep /\ n * FixedStep \in Int
    <3>1. FixedStep \in Int /\ n \in Int
      BY <1>1, <2>1
    <3>2. QED
      BY <3>1, Commutes
  <2> DEFINE whole == n * FixedStep
             more == (sum + Epsilon) % FixedStep
  <2>3. /\ whole \in Int /\ more \in 0..(FixedStep - 1) /\ sum + Epsilon = whole + more
        /\ left = sum - whole
    BY <2>1, <2>2
  <2> HIDE DEF whole, more, left
  <2>4. left + Epsilon = more
    BY <1>1, <1>2, <2>3
  <2>5. QED
    BY <2>1, <2>3, <2>4
<1>4. n \in Nat
  <2>1. SUFFICES ASSUME n <= -1 PROVE FALSE
    BY <1>3
  <2>2. (-1 - n) * FixedStep >= 0 /\ (-1 - n) * FixedStep = -FixedStep - n * FixedStep
        /\ n * FixedStep \in Int
    BY <1>0, <1>1, <1>3, <2>1
  <2>3. QED
    BY <1>0, <1>1, <1>2, <1>3, <2>2
<1>5. n * FixedStep \in Int /\ left \in Int /\ -Epsilon <= left /\ left + Epsilon < FixedStep
  BY <1>0, <1>1, <1>2, <1>3
<1>6. rest = IF 0 >= left THEN 0 ELSE left
  BY <1>0, <1>5, MaxOfTwo
<1>7. (steps + n) * FixedStep = steps * FixedStep + n * FixedStep /\ steps * FixedStep \in Int
  BY <1>0, <1>1, <1>3
<1>8. due \in Int /\ left = drift + off + due /\ drift \in Int
  BY <1>0, <1>1, <1>2, <1>3, <1>5, <1>7
<1>9. error \in Nat /\ next \in Nat /\ next = error + Rounding
  BY <1>0, <1>1
<1>10. rest + (steps + n) * FixedStep - (elapsed + played) = rest - due
  BY <1>0, <1>5, <1>6, <1>7
<1>11. Multiple(due, Quantum) /\ Multiple(-due, Quantum)
  <2> DEFINE time == elapsed + played
             many == steps + n
             ran == many * FixedStep
  <2>1. Multiple(time, Quantum) /\ time \in Int
    BY <1>0, <1>1, MultipleSum
  <2>2. many \in Int /\ ran \in Int
    BY <1>0, <1>1, <1>3
  <2> HIDE DEF many
  <2>3. Multiple(ran, Quantum)
    BY <1>0, <1>1, <2>2, MultipleTimes
  <2>4. due = time - ran
    BY DEF many
  <2> HIDE DEF time, ran, due
  <2>5. Multiple(due, Quantum)
    BY <1>0, <1>1, <2>1, <2>2, <2>3, <2>4, MultipleSum
  <2>6. Multiple((-1) * due, Quantum)
    BY <1>0, <1>1, <1>8, <2>5, MultipleTimes
  <2>7. (-1) * due = -due
    BY <1>8
  <2>8. QED
    BY <2>5, <2>6, <2>7
<1>12. rest \in Nat /\ rest + Epsilon < FixedStep
  <2> HIDE DEF left
  <2>1. Epsilon < FixedStep
    BY <1>1
  <2>2. CASE 0 >= left
    BY <1>1, <1>6, <2>1, <2>2
  <2>3. CASE ~(0 >= left)
    BY <1>5, <1>6, <2>3
  <2>4. QED
    BY <2>2, <2>3
<1>13. PICK k : Early(drift, error, k)
  BY <1>0 DEF Within
<1>14. -error <= drift
  BY <1>0 DEF Within
<1> HIDE DEF drift, error, due, left, next
<1>15. k \in Nat /\ drift <= error + k * Epsilon /\ k * Quantum <= error + k * Epsilon
       /\ k * Epsilon \in Nat /\ k * Quantum \in Nat
  BY <1>0, <1>1, <1>13 DEF Early
<1>16. ASSUME left > 0
       PROVE  Within(rest + (steps + n) * FixedStep - (elapsed + played), next)
  <2>1. rest - due = drift + off
    BY <1>2, <1>5, <1>6, <1>8, <1>16
  <2>2. -next <= rest - due
    BY <1>0, <1>1, <1>2, <1>8, <1>9, <1>14, <2>1
  <2>3. Early(rest - due, next, k)
    BY <1>0, <1>1, <1>2, <1>8, <1>9, <1>15, <2>1 DEF Early
  <2>4. QED
    BY <1>10, <2>2, <2>3 DEF Within
<1>17. ASSUME left <= 0
       PROVE  Within(rest + (steps + n) * FixedStep - (elapsed + played), next)
  <2>1. rest - due = -due /\ -due = drift + off - left
    BY <1>2, <1>5, <1>6, <1>8, <1>17
  <2>2. -next <= -due /\ -due <= error + k * Epsilon + Rounding + Epsilon
    BY <1>0, <1>1, <1>2, <1>5, <1>8, <1>9, <1>14, <1>15, <1>17, <2>1
  <2>3. \E j : Early(-due, next, j)
    <3>1. CASE (k + 1) * Quantum <= -due
      <4>1. (k + 1) * Epsilon = k * Epsilon + Epsilon /\ (k + 1) * Quantum \in Nat /\ k + 1 \in Nat
        BY <1>0, <1>1, <1>15
      <4>2. -due <= next + (k + 1) * Epsilon
        BY <1>0, <1>1, <1>8, <1>9, <1>15, <2>2, <4>1
      <4>3. Early(-due, next, k + 1)
        BY <1>0, <1>1, <1>8, <1>9, <1>15, <3>1, <4>1, <4>2 DEF Early
      <4>4. QED
        BY <4>3
    <3>2. CASE -due < (k + 1) * Quantum
      <4> DEFINE a == -due
                 j == k + 1
      <4>1. j \in Int /\ a \in Int /\ a < j * Quantum /\ Multiple(a, Quantum) /\ j - 1 = k
        BY <1>8, <1>11, <1>15, <3>2
      <4> HIDE DEF a, j
      <4>2. a <= (j - 1) * Quantum
        BY <1>0, <1>1, <4>1, MultipleGap
      <4>3. Early(-due, next, k)
        BY <1>0, <1>1, <1>8, <1>9, <1>15, <4>1, <4>2 DEF Early, a
      <4>4. QED
        BY <4>3
    <3>3. QED
      BY <1>0, <1>1, <1>8, <1>15, <3>1, <3>2
  <2>4. QED
    BY <1>10, <2>1, <2>2, <2>3 DEF Within
<1>18. Within(rest + (steps + n) * FixedStep - (elapsed + played), Rounding * (frames + 1))
  BY <1>5, <1>16, <1>17 DEF next
<1>19. Multiple(elapsed + played, Quantum)
  BY <1>0, <1>1, MultipleSum
<1>20. steps + n \in Int /\ elapsed + played \in Nat /\ frames + 1 \in Nat
  BY <1>0, <1>4
<1>21. QED
  BY <1>4, <1>12, <1>18, <1>19, <1>20 DEF Kept

(* As long as rounding adds up to no more than the epsilon, the steps that *)
(* ran are those whose time is complete.                                   *)
LEMMA StepsAreExact ==
  ASSUME NEW accumulator, NEW steps, NEW elapsed, NEW frames,
         Kept(accumulator, steps, elapsed, frames), Rounding * frames <= Epsilon
  PROVE  steps = elapsed \div FixedStep
<1> DEFINE drift == accumulator + steps * FixedStep - elapsed
           error == Rounding * frames
           due == elapsed - steps * FixedStep
<1>1. /\ FixedStep \in Nat \ {0} /\ Epsilon \in Nat /\ Quantum \in Nat /\ Quantum > 0
      /\ Multiple(FixedStep, Quantum) /\ 2 * Epsilon < Quantum
  BY QuantumFacts, PageAssumption
<1>0. /\ accumulator \in Nat /\ accumulator + Epsilon < FixedStep
      /\ steps \in Int /\ elapsed \in Nat /\ frames \in Nat /\ Rounding \in Nat
      /\ Multiple(elapsed, Quantum) /\ Within(drift, error)
  BY PageAssumption DEF Kept
<1>9. error \in Nat /\ error <= Epsilon
  BY <1>0
<1> HIDE DEF error
<1>2. steps * FixedStep \in Int /\ due \in Int /\ drift \in Int /\ due = accumulator - drift
  BY <1>0, <1>1
<1>3. -error <= drift /\ drift <= error
  BY <1>0, <1>2, <1>9, EarlyBounded DEF Within
<1>4. Multiple(due, Quantum)
  <2> DEFINE ran == steps * FixedStep
  <2>1. Multiple(ran, Quantum) /\ ran \in Int
    BY <1>0, <1>1, MultipleTimes
  <2> HIDE DEF ran
  <2>2. Multiple(elapsed - ran, Quantum)
    BY <1>0, <1>1, <2>1, MultipleSum
  <2>3. QED
    BY <2>2 DEF ran
<1>5. due < FixedStep
  BY <1>0, <1>1, <1>2, <1>3, <1>9
<1>6. due >= 0
  <2>1. SUFFICES ASSUME due < 0 PROVE FALSE
    BY <1>0, <1>2
  <2>2. 0 * Quantum = 0 /\ (0 - 1) * Quantum = -Quantum
    BY <1>0, <1>1
  <2> HIDE DEF due
  <2>3. due <= (0 - 1) * Quantum
    BY <1>1, <1>2, <1>4, <2>1, <2>2, MultipleGap
  <2>4. QED
    BY <1>0, <1>1, <1>2, <1>3, <1>9, <2>2, <2>3
<1>7. elapsed = steps * FixedStep + due
  BY <1>0, <1>2
<1> HIDE DEF due
<1>8. QED
  BY <1>0, <1>1, <1>2, <1>5, <1>6, <1>7, DivUnique

-----------------------------------------------------------------------------
ClockState == [accumulator : Nat, tick : Nat, credit : 0..StepsPerSecond]
GhostState == [elapsed : Nat, offered : Nat, frames : Nat, manual : Nat, work : Seq(Nat),
               since : Nat]

(* What n fixed steps leave of a state: the load was asked for n times,    *)
(* and what it asked for has run or is credit still.                       *)
Later(s, n) ==
  /\ s.clock \in ClockState /\ s.statements \in Nat /\ s.work \in Seq(Nat)
  /\ s.clock.accumulator = clock.accumulator /\ s.clock.tick = clock.tick + n
  /\ Len(s.work) = s.clock.tick
  /\ UpTo(s.work, s.clock.tick) * StepsPerSecond + s.clock.credit
       = ghost.offered + n * controls.qps

\* The statements that ran up to each tick never become fewer.
Grows(work) ==
  \A later \in 0..Len(work) : \A tick \in 0..later : UpTo(work, tick) <= UpTo(work, later)

\* What was recorded stays recorded, and the counter gained what was added.
Adds(statements, work, tick) ==
  /\ Grows(work)
  /\ \A t \in 0..clock.tick : UpTo(work, t) = UpTo(ghost.work, t)
  /\ statements - metrics.statements = UpTo(work, tick) - UpTo(ghost.work, clock.tick)

LEMMA CreditLeft ==
  ASSUME NEW credit \in Nat, NEW n,
         LET whole == credit \div StepsPerSecond
         IN  n \in {whole} \cup IF whole > 0 /\ credit % StepsPerSecond = 0
                                THEN {whole - 1} ELSE {}
  PROVE  n \in Nat /\ credit - n * StepsPerSecond \in 0..StepsPerSecond
<1> DEFINE whole == credit \div StepsPerSecond
           part == credit % StepsPerSecond
<1>1. StepsPerSecond \in Int /\ StepsPerSecond > 0
  BY PageAssumption
<1>2. /\ whole \in Int /\ part \in 0..(StepsPerSecond - 1)
      /\ credit = StepsPerSecond * whole + part
  BY <1>1, DivMod
<1>3. n = whole \/ (n = whole - 1 /\ whole > 0 /\ part = 0)
  OBVIOUS
<1> HIDE DEF whole, part
<1>4. whole >= 0
  <2>1. SUFFICES ASSUME whole <= -1 PROVE FALSE
    BY <1>2
  <2>2. StepsPerSecond * (-1 - whole) >= 0
        /\ StepsPerSecond * (-1 - whole) = -StepsPerSecond - StepsPerSecond * whole
        /\ StepsPerSecond * whole \in Int
    BY <1>1, <1>2, <2>1
  <2>3. QED
    BY <1>1, <1>2, <2>2
<1>5. /\ whole * StepsPerSecond = StepsPerSecond * whole
      /\ (whole - 1) * StepsPerSecond = StepsPerSecond * whole - StepsPerSecond
      /\ StepsPerSecond * whole \in Int
  BY <1>1, <1>2
<1>6. QED
  BY <1>1, <1>2, <1>3, <1>4, <1>5

LEMMA UpToNat ==
  ASSUME NEW work \in Seq(Nat), NEW tick \in 0..Len(work)
  PROVE  UpTo(work, tick) \in Nat
  BY DEF UpTo

LEMMA UpToAppended ==
  ASSUME NEW work \in Seq(Nat), NEW sum \in Nat
  PROVE  /\ UpTo(Append(work, sum), Len(work) + 1) = sum
         /\ \A tick \in 0..Len(work) : UpTo(Append(work, sum), tick) = UpTo(work, tick)
         /\ Append(work, sum) \in Seq(Nat) /\ Len(Append(work, sum)) = Len(work) + 1
  BY DEF UpTo

LEMMA GrowsOn ==
  ASSUME NEW work \in Seq(Nat), Grows(work), NEW more \in Nat
  PROVE  Grows(Append(work, UpTo(work, Len(work)) + more))
<1> DEFINE sum == UpTo(work, Len(work)) + more
           next == Append(work, sum)
<1>1. /\ Len(work) \in Nat /\ UpTo(work, Len(work)) \in Nat
      /\ \A tick \in 0..Len(work) : UpTo(work, tick) \in Nat
  <2>1. Len(work) \in Nat /\ Len(work) \in 0..Len(work)
    OBVIOUS
  <2>2. QED
    BY <2>1, UpToNat
<1>2. sum \in Nat
  BY <1>1
<1>3. /\ UpTo(next, Len(work) + 1) = sum /\ Len(next) = Len(work) + 1
      /\ \A tick \in 0..Len(work) : UpTo(next, tick) = UpTo(work, tick)
  BY <1>2, UpToAppended
<1>4. \A tick \in 0..Len(work) : UpTo(work, tick) <= sum
  <2>1. TAKE tick \in 0..Len(work)
  <2>2. UpTo(work, tick) <= UpTo(work, Len(work))
    BY <1>1 DEF Grows
  <2>3. QED
    BY <1>1, <2>2
<1> HIDE DEF sum, next
<1>5. ASSUME NEW later \in 0..(Len(work) + 1), NEW tick \in 0..later
      PROVE  UpTo(next, tick) <= UpTo(next, later)
  <2>1. CASE later <= Len(work)
    <3>1. later \in 0..Len(work) /\ tick \in 0..Len(work)
      BY <1>1, <2>1
    <3>2. UpTo(work, tick) <= UpTo(work, later)
      BY <3>1 DEF Grows
    <3>3. QED
      BY <1>3, <3>1, <3>2
  <2>2. CASE later = Len(work) + 1
    <3>1. CASE tick = later
      BY <1>2, <1>3, <2>2, <3>1
    <3>2. CASE tick # later
      <4>1. tick \in 0..Len(work)
        BY <1>1, <2>2, <3>2
      <4>2. QED
        BY <1>3, <1>4, <2>2, <4>1
    <3>3. QED
      BY <3>1, <3>2
  <2>3. QED
    BY <1>1, <2>1, <2>2
<1>6. Grows(next)
  BY <1>3, <1>5 DEF Grows
<1>7. QED
  BY <1>6 DEF next, sum

LEMMA TimesNext ==
  ASSUME NEW n \in Nat, NEW load \in Nat
  PROVE  (n + 1) * load = n * load + load /\ n * load \in Nat
  OBVIOUS

(* One more step.                                                          *)
LEMMA OneMore ==
  ASSUME NEW n \in Nat, NEW s, controls.qps \in Nat, clock.tick \in Nat, ghost.offered \in Nat,
         Later(s, n), NEW t \in BackgroundWork(s)
  PROVE  Later(t, n + 1)
<1> DEFINE credit == s.clock.credit + controls.qps
           before == UpTo(s.work, Len(s.work))
<1>1. StepsPerSecond \in Nat \ {0}
  BY PageAssumption
<1>2. /\ s.clock \in ClockState /\ s.statements \in Nat /\ s.work \in Seq(Nat)
      /\ s.clock.accumulator = clock.accumulator /\ s.clock.tick = clock.tick + n
      /\ Len(s.work) = s.clock.tick
      /\ before * StepsPerSecond + s.clock.credit = ghost.offered + n * controls.qps
  BY DEF Later
<1>3. /\ credit \in Nat /\ s.clock.tick \in Nat /\ before \in Nat /\ s.clock.credit \in Nat
  <2>1. s.clock.tick \in Nat /\ s.clock.credit \in Nat
    BY <1>1, <1>2 DEF ClockState
  <2>2. Len(s.work) \in 0..Len(s.work)
    BY <1>2
  <2>3. before \in Nat
    BY <1>2, <2>2, UpToNat
  <2> HIDE DEF before
  <2>4. QED
    BY <2>1, <2>3
<1>4. PICK m : /\ LET whole == credit \div StepsPerSecond
                  IN  m \in {whole} \cup IF whole > 0 /\ credit % StepsPerSecond = 0
                                         THEN {whole - 1} ELSE {}
               /\ t = [clock |-> [s.clock EXCEPT !.tick = s.clock.tick + 1,
                                                 !.credit = credit - m * StepsPerSecond],
                       statements |-> s.statements + m,
                       work |-> Append(s.work, before + m)]
  BY Zenon DEF BackgroundWork
<1> DEFINE left == credit - m * StepsPerSecond
           next == s.clock.tick + 1
           done == before + m
<1>5. m \in Nat /\ left \in 0..StepsPerSecond
  BY <1>3, <1>4, CreditLeft
<1>6. /\ t.clock = [s.clock EXCEPT !.tick = next, !.credit = left]
      /\ t.statements = s.statements + m /\ t.work = Append(s.work, done)
  BY <1>4
<1> HIDE DEF before, credit, left
<1>7. next \in Nat /\ done \in Nat /\ next = Len(s.work) + 1 /\ next = clock.tick + (n + 1)
  <2>1. done \in Nat
    BY <1>3, <1>5
  <2> DEFINE tick == s.clock.tick
             start == clock.tick
             length == Len(s.work)
  <2>2. tick \in Nat /\ start \in Nat /\ tick = start + n /\ length = tick /\ next = tick + 1
    BY <1>2, <1>3
  <2> HIDE DEF tick, start, length, next
  <2>3. next \in Nat /\ next = length + 1 /\ next = start + (n + 1)
    BY <2>2
  <2>4. QED
    BY <2>1, <2>3 DEF length, start
<1>8. done * StepsPerSecond + left = ghost.offered + (n + 1) * controls.qps
  <2> DEFINE ran == before * StepsPerSecond
             more == m * StepsPerSecond
             asked == n * controls.qps
  <2>1. done * StepsPerSecond = ran + more /\ ran \in Nat /\ more \in Nat
    BY <1>1, <1>3, <1>5
  <2>2. (n + 1) * controls.qps = asked + controls.qps /\ asked \in Nat
    BY TimesNext
  <2>3. left + more = s.clock.credit + controls.qps /\ left \in Int
    <3>1. left = credit - more
      BY DEF left
    <3> HIDE DEF more
    <3>2. QED
      BY <1>3, <2>1, <3>1 DEF credit
  <2>4. ran + s.clock.credit = ghost.offered + asked
    BY <1>2
  <2> DEFINE all == done * StepsPerSecond
             total == (n + 1) * controls.qps
  <2>5. all = ran + more /\ total = asked + controls.qps
    BY <2>1, <2>2
  <2> DEFINE had == s.clock.credit
             load == controls.qps
             offered == ghost.offered
  <2>6. /\ had \in Nat /\ load \in Nat /\ offered \in Nat
        /\ ran \in Nat /\ more \in Nat /\ asked \in Nat /\ left \in Int
        /\ left + more = had + load /\ ran + had = offered + asked
        /\ all = ran + more /\ total = asked + load
    BY <1>3, <2>1, <2>2, <2>3, <2>4, <2>5
  <2> HIDE DEF done, ran, more, asked, all, total, had, load, offered
  <2>7. all + left = offered + total
    BY <2>6
  <2>8. QED
    BY <2>7 DEF all, total, offered
<1> HIDE DEF next, done
<1>9. /\ t.clock \in ClockState /\ t.clock.accumulator = clock.accumulator
      /\ t.clock.tick = next /\ t.clock.credit = left
  <2>1. /\ s.clock \in ClockState /\ next \in Nat /\ left \in 0..StepsPerSecond
        /\ t.clock = [s.clock EXCEPT !.tick = next, !.credit = left]
        /\ s.clock.accumulator = clock.accumulator
    BY <1>2, <1>5, <1>6, <1>7
  <2>2. QED
    BY <2>1 DEF ClockState
<1>10. t.work \in Seq(Nat) /\ Len(t.work) = next /\ UpTo(t.work, next) = done
  <2>1. s.work \in Seq(Nat) /\ done \in Nat /\ next = Len(s.work) + 1
        /\ t.work = Append(s.work, done)
    BY <1>2, <1>6, <1>7
  <2>2. QED
    BY <2>1 DEF UpTo
<1>11. t.statements \in Nat
  BY <1>2, <1>5, <1>6
<1>12. QED
  BY <1>7, <1>8, <1>9, <1>10, <1>11 DEF Later

(* One more step adds its statements to the record and to the counter.     *)
LEMMA OneMoreAdds ==
  ASSUME NEW n \in Nat, NEW s, controls.qps \in Nat, clock.tick \in Nat, metrics.statements \in Nat,
         ghost.work \in Seq(Nat), clock.tick = Len(ghost.work),
         Later(s, n), Adds(s.statements, s.work, s.clock.tick), NEW t \in BackgroundWork(s)
  PROVE  Adds(t.statements, t.work, t.clock.tick)
<1> DEFINE credit == s.clock.credit + controls.qps
           before == UpTo(s.work, Len(s.work))
<1>1. /\ s.clock \in ClockState /\ s.statements \in Nat /\ s.work \in Seq(Nat)
      /\ s.clock.tick = clock.tick + n /\ Len(s.work) = s.clock.tick
  BY DEF Later
<1>2. PICK m : /\ LET whole == credit \div StepsPerSecond
                  IN  m \in {whole} \cup IF whole > 0 /\ credit % StepsPerSecond = 0
                                         THEN {whole - 1} ELSE {}
               /\ t = [clock |-> [s.clock EXCEPT !.tick = s.clock.tick + 1,
                                                 !.credit = credit - m * StepsPerSecond],
                       statements |-> s.statements + m,
                       work |-> Append(s.work, before + m)]
  BY Zenon DEF BackgroundWork
<1>3. credit \in Nat
  <2>1. s.clock.credit \in 0..StepsPerSecond /\ StepsPerSecond \in Nat
    BY <1>1, PageAssumption DEF ClockState
  <2>2. QED
    BY <2>1
<1>4. m \in Nat
  BY <1>2, <1>3, CreditLeft
<1>5. /\ t.statements = s.statements + m /\ t.work = Append(s.work, before + m)
      /\ t.clock.tick = s.clock.tick + 1
  BY <1>1, <1>2 DEF ClockState
<1>6. Grows(t.work)
  BY <1>1, <1>4, <1>5, GrowsOn DEF Adds
<1>7. before \in Nat
  <2>1. Len(s.work) \in 0..Len(s.work)
    BY <1>1
  <2>2. QED
    BY <1>1, <2>1, UpToNat
<1> DEFINE done == before + m
<1>8. /\ UpTo(t.work, t.clock.tick) = done
      /\ \A tick \in 0..Len(s.work) : UpTo(t.work, tick) = UpTo(s.work, tick)
  <2>1. done \in Nat /\ t.work = Append(s.work, done) /\ t.clock.tick = Len(s.work) + 1
    BY <1>1, <1>4, <1>5, <1>7
  <2> HIDE DEF done
  <2>2. /\ UpTo(Append(s.work, done), Len(s.work) + 1) = done
        /\ \A tick \in 0..Len(s.work) : UpTo(Append(s.work, done), tick) = UpTo(s.work, tick)
    BY <1>1, <2>1, UpToAppended
  <2>3. QED
    BY <2>1, <2>2
<1>9. \A tick \in 0..clock.tick : UpTo(t.work, tick) = UpTo(ghost.work, tick)
  <2>1. \A tick \in 0..clock.tick : tick \in 0..Len(s.work)
    BY <1>1
  <2>2. QED
    BY <1>8, <2>1 DEF Adds
<1>10. t.statements - metrics.statements = UpTo(t.work, t.clock.tick) - UpTo(ghost.work, clock.tick)
  <2> DEFINE had == UpTo(ghost.work, clock.tick)
             counted == metrics.statements
             was == s.statements
  <2>1. had \in Nat
    <3>1. clock.tick \in 0..Len(ghost.work)
      OBVIOUS
    <3>2. QED
      BY <3>1, UpToNat
  <2>2. was - counted = before - had
    BY <1>1 DEF Adds
  <2>3. was \in Nat /\ counted \in Nat
    BY <1>1
  <2>4. t.statements = was + m /\ UpTo(t.work, t.clock.tick) = before + m
    BY <1>5, <1>8
  <2> HIDE DEF had, counted, was, before, done
  <2>5. (was + m) - counted = (before + m) - had
    BY <1>4, <1>7, <2>1, <2>2, <2>3
  <2>6. QED
    BY <2>4, <2>5 DEF had, counted
<1>11. QED
  BY <1>6, <1>9, <1>10 DEF Adds

-----------------------------------------------------------------------------
\* The recursive function of FixedSteps, up to n.
Begun == {[clock |-> clock, statements |-> metrics.statements, work |-> ghost.work]}
Steps(n, f) ==
  f = [k \in 0..n |-> IF k = 0 THEN Begun ELSE UNION {BackgroundWork(s) : s \in f[k - 1]}]

LEMMA StepsExist == \A n \in Nat : \E f : Steps(n, f)
<1> DEFINE P == {n \in Nat : \E f : Steps(n, f)}
<1>1. 0 \in P
  <2> DEFINE f == [k \in 0..0 |-> Begun]
  <2>1. f = [k \in 0..0 |-> IF k = 0 THEN Begun
                            ELSE UNION {BackgroundWork(s) : s \in f[k - 1]}]
    OBVIOUS
  <2>2. QED
    BY <2>1 DEF Steps
<1>2. ASSUME NEW n \in Nat, n \in P PROVE n + 1 \in P
  <2>1. PICK f : Steps(n, f)
    BY <1>2
  <2> DEFINE g == [k \in 0..(n + 1) |-> IF k <= n THEN f[k]
                                        ELSE UNION {BackgroundWork(s) : s \in f[n]}]
  <2>2. \A k \in 0..n : f[k] = IF k = 0 THEN Begun
                               ELSE UNION {BackgroundWork(s) : s \in f[k - 1]}
    BY <2>1 DEF Steps
  <2>3. ASSUME NEW k \in 0..(n + 1)
        PROVE  g[k] = IF k = 0 THEN Begun ELSE UNION {BackgroundWork(s) : s \in g[k - 1]}
    <3>1. CASE k = 0
      <4>1. 0 \in 0..n /\ 0 \in 0..(n + 1) /\ 0 <= n
        OBVIOUS
      <4>2. g[0] = f[0] /\ f[0] = Begun
        BY <2>2, <4>1
      <4>3. QED
        BY <3>1, <4>2
    <3>2. CASE k # 0
      <4>1. k - 1 \in 0..n /\ k - 1 <= n /\ k - 1 \in 0..(n + 1)
        BY <3>2
      <4>2. g[k - 1] = f[k - 1]
        BY <4>1
      <4>3. g[k] = UNION {BackgroundWork(s) : s \in f[k - 1]}
        <5>1. CASE k <= n
          <6>1. k \in 0..n /\ g[k] = f[k]
            BY <5>1
          <6>2. QED
            BY <2>2, <3>2, <6>1
        <5>2. CASE ~(k <= n)
          <6>1. k - 1 = n
            BY <5>2
          <6>2. QED
            BY <5>2, <6>1
        <5>3. QED
          BY <5>1, <5>2
      <4>4. QED
        BY <3>2, <4>2, <4>3
    <3>3. QED
      BY <3>1, <3>2
  <2> HIDE DEF g
  <2>4. g = [k \in 0..(n + 1) |-> g[k]]
    BY DEF g
  <2>5. Steps(n + 1, g)
    BY <2>3, <2>4 DEF Steps
  <2>6. QED
    BY <2>5
<1> HIDE DEF P
<1>3. \A n \in Nat : n \in P
  BY <1>1, <1>2, CountsUp
<1>4. QED
  BY <1>3 DEF P

(* However the background load runs in n fixed steps.                      *)
LEMMA FixedStepsLater ==
  ASSUME NEW n \in Nat, controls.qps \in Nat, clock.tick \in Nat, ghost.offered \in Nat,
         metrics.statements \in Nat, ghost.work \in Seq(Nat), clock.tick = Len(ghost.work),
         Grows(ghost.work),
         Later([clock |-> clock, statements |-> metrics.statements, work |-> ghost.work], 0),
         NEW s \in FixedSteps(n)
  PROVE  Later(s, n) /\ Adds(s.statements, s.work, s.clock.tick)
<1> DEFINE f == CHOOSE g : Steps(n, g)
<1>1. Steps(n, f)
  BY StepsExist
<1>2. FixedSteps(n) = f[n]
  BY Zenon DEF FixedSteps, Steps, Begun
<1> HIDE DEF f
<1>3. /\ f[0] = Begun
      /\ \A k \in 0..n : k # 0 => f[k] = UNION {BackgroundWork(r) : r \in f[k - 1]}
  <2>1. f = [k \in 0..n |-> IF k = 0 THEN Begun ELSE UNION {BackgroundWork(r) : r \in f[k - 1]}]
    BY <1>1 DEF Steps
  <2>2. \A k \in 0..n : f[k] = IF k = 0 THEN Begun ELSE UNION {BackgroundWork(r) : r \in f[k - 1]}
    BY <2>1, Zenon
  <2>3. 0 \in 0..n
    OBVIOUS
  <2>4. f[0] = Begun
    BY <2>2, <2>3
  <2>5. ASSUME NEW k \in 0..n, k # 0 PROVE f[k] = UNION {BackgroundWork(r) : r \in f[k - 1]}
    BY <2>2, <2>5, Zenon
  <2>6. QED
    BY <2>4, <2>5
<1> DEFINE P == {k \in Nat : k <= n => \A r \in f[k] : Later(r, k) /\ Adds(r.statements, r.work, r.clock.tick)}
<1>4. 0 \in P
  <2>1. metrics.statements - metrics.statements = UpTo(ghost.work, clock.tick) - UpTo(ghost.work, clock.tick)
    <3>1. clock.tick \in 0..Len(ghost.work)
      OBVIOUS
    <3>2. UpTo(ghost.work, clock.tick) \in Nat
      BY <3>1, UpToNat
    <3>3. QED
      BY <3>2
  <2>2. Adds(metrics.statements, ghost.work, clock.tick)
    BY <2>1 DEF Adds
  <2>3. QED
    BY <1>3, <2>2 DEF Begun
<1>5. ASSUME NEW k \in Nat, k \in P PROVE k + 1 \in P
  <2>1. SUFFICES ASSUME k + 1 <= n, NEW t \in f[k + 1]
                 PROVE  Later(t, k + 1) /\ Adds(t.statements, t.work, t.clock.tick)
    OBVIOUS
  <2>2. k + 1 \in 0..n /\ k + 1 # 0 /\ (k + 1) - 1 = k /\ k <= n
    BY <2>1
  <2>3. f[k + 1] = UNION {BackgroundWork(r) : r \in f[k]}
    BY <1>3, <2>2
  <2>4. PICK r \in f[k] : t \in BackgroundWork(r)
    BY <2>1, <2>3
  <2>5. Later(r, k) /\ Adds(r.statements, r.work, r.clock.tick)
    BY <1>5, <2>2, <2>4
  <2>6. QED
    BY <2>4, <2>5, OneMore, OneMoreAdds
<1> HIDE DEF P
<1>6. \A k \in Nat : k \in P
  BY <1>4, <1>5, CountsUp
<1>7. \A r \in f[n] : Later(r, n) /\ Adds(r.statements, r.work, r.clock.tick)
  BY <1>6 DEF P
<1>8. QED
  BY <1>2, <1>7

-----------------------------------------------------------------------------
(* A clock and the ghost that watches it: the accumulator keeps time, but  *)
(* for single steps.  What the load asked for has run or is credit.        *)
Timely(c, g) ==
  /\ c \in ClockState /\ g \in GhostState
  /\ Kept(c.accumulator, c.tick - g.manual, g.elapsed, g.frames)
  /\ Len(g.work) = c.tick /\ Grows(g.work)
  /\ UpTo(g.work, c.tick) * StepsPerSecond + c.credit = g.offered

(* A state that the engine comes to: what was recorded stays recorded, and *)
(* the counter gained what was added.                                      *)
Extends(e) ==
  /\ clock.tick <= e.clock.tick /\ e.ghost.since = ghost.since
  /\ Adds(e.metrics.statements, e.ghost.work, e.clock.tick)

SpeedRange == 1..200
LoadRange == 0..5000
Playbacks == {"step", "slow", "live"}
ControlState == [paused : BOOLEAN, speed : SpeedRange, qps : LoadRange, playback : Playbacks]
ControlsOK == controls \in ControlState

TraceState == LET receipt == 0..MaxInputs \cup {None}
              IN  [last : receipt, current : receipt, city : receipt]
TracesOK == traces \in TraceState

PageInv ==
  /\ Timely(clock, ghost) /\ clock.tick <= MaxTicks
  /\ ControlsOK /\ metrics \in [statements : Nat] /\ TracesOK /\ inputs \in 0..MaxInputs

LEMMA PageInvClockKeepsTime == PageInv => ClockKeepsTime
<1>1. SUFFICES ASSUME PageInv PROVE ClockKeepsTime
  OBVIOUS
<1> DEFINE accumulator == clock.accumulator
           steps == clock.tick - ghost.manual
           elapsed == ghost.elapsed
           frames == ghost.frames
<1>2. /\ clock \in ClockState /\ clock.tick <= MaxTicks
      /\ Kept(accumulator, steps, elapsed, frames)
      /\ UpTo(ghost.work, clock.tick) * StepsPerSecond + clock.credit = ghost.offered
  BY <1>1 DEF PageInv, Timely
<1>3. /\ FixedStep \in Nat \ {0} /\ Epsilon \in Nat /\ Rounding \in Nat /\ MaxTicks \in Nat
      /\ StepsPerSecond \in Nat
  BY PageAssumption
<1>4. clock.tick \in Nat /\ clock.credit \in 0..StepsPerSecond
  BY <1>2 DEF ClockState
<1>5. /\ Drift = accumulator + steps * FixedStep - elapsed /\ Error = Rounding * frames
      /\ clock.accumulator = accumulator
  BY DEF Drift, Error
<1> HIDE DEF accumulator, steps, elapsed, frames
<1>6. /\ accumulator \in Nat /\ accumulator + Epsilon < FixedStep
      /\ steps \in Int /\ elapsed \in Nat /\ frames \in Nat /\ Within(Drift, Error)
  BY <1>2, <1>5 DEF Kept
<1>7. clock \in [accumulator : 0..(FixedStep - 1), tick : 0..MaxTicks, credit : Nat]
  <2>1. clock.accumulator \in 0..(FixedStep - 1) /\ clock.tick \in 0..MaxTicks
        /\ clock.credit \in Nat
    BY <1>2, <1>3, <1>4, <1>5, <1>6
  <2>2. QED
    BY <1>2, <2>1 DEF ClockState
<1>8. TypeOK
  <2>1. controls \in [paused : BOOLEAN, speed : 1..200, qps : 0..5000,
                      playback : {"step", "slow", "live"}]
    BY <1>1 DEF PageInv, ControlsOK, ControlState, SpeedRange, LoadRange, Playbacks
  <2>2. LET receipt == 0..MaxInputs \cup {None}
        IN  traces \in [last : receipt, current : receipt, city : receipt]
    BY <1>1 DEF PageInv, TracesOK, TraceState
  <2>3. QED
    BY <1>1, <1>7, <2>1, <2>2 DEF TypeOK, PageInv
<1>9. Error \in Nat /\ Drift \in Int
  BY <1>3, <1>5, <1>6
<1>10. Drift \in -Error..(2 * Error) /\ (Error <= Epsilon => Drift <= Error)
  BY <1>6, <1>9, EarlyBounded
<1>11. Error <= Epsilon => steps = elapsed \div FixedStep
  BY <1>2, <1>5, StepsAreExact
<1>12. QED
  BY <1>2, <1>4, <1>8, <1>10, <1>11 DEF ClockKeepsTime, steps, elapsed

-----------------------------------------------------------------------------
LEMMA TimelySince ==
  ASSUME NEW c, NEW g, Timely(c, g), NEW tick \in Nat
  PROVE  Timely(c, [g EXCEPT !.since = tick])
<1> DEFINE h == [g EXCEPT !.since = tick]
<1>1. g \in GhostState
  BY DEF Timely
<1>2. /\ h \in GhostState /\ h.elapsed = g.elapsed /\ h.offered = g.offered
      /\ h.frames = g.frames /\ h.manual = g.manual /\ h.work = g.work
  BY <1>1 DEF GhostState
<1> HIDE DEF h
<1>3. Timely(c, h)
  BY <1>2 DEF Timely
<1>4. QED
  BY <1>3 DEF h

LEMMA NothingRun ==
  ASSUME Timely(clock, ghost), metrics \in [statements : Nat], controls.qps \in Nat
  PROVE  Later([clock |-> clock, statements |-> metrics.statements, work |-> ghost.work], 0)
<1> DEFINE s == [clock |-> clock, statements |-> metrics.statements, work |-> ghost.work]
<1>1. s.clock = clock /\ s.statements \in Nat /\ s.work = ghost.work
  OBVIOUS
<1>2. /\ clock \in ClockState /\ ghost \in GhostState /\ Len(ghost.work) = clock.tick
      /\ UpTo(ghost.work, clock.tick) * StepsPerSecond + clock.credit = ghost.offered
  BY DEF Timely
<1>3. /\ clock.tick \in Nat /\ ghost.work \in Seq(Nat) /\ ghost.offered \in Nat
  BY <1>2 DEF ClockState, GhostState
<1>4. 0 * controls.qps = 0
  OBVIOUS
<1> HIDE DEF s
<1>5. Later(s, 0)
  BY <1>1, <1>2, <1>3, <1>4 DEF Later
<1>6. QED
  BY <1>5 DEF s

\* What a clock that keeps time says of the record of statements.
LEMMA RecordKept ==
  ASSUME NEW c, NEW g, Timely(c, g)
  PROVE  /\ c.tick \in Nat /\ g.work \in Seq(Nat) /\ Len(g.work) = c.tick /\ Grows(g.work)
         /\ \A tick \in 0..c.tick : UpTo(g.work, tick) \in Nat
<1>1. c.tick \in Nat /\ g.work \in Seq(Nat) /\ Len(g.work) = c.tick /\ Grows(g.work)
  BY DEF Timely, ClockState, GhostState
<1>2. QED
  BY <1>1, UpToNat

\* An engine that stands still, whatever its accumulator holds.
LEMMA StandingExtends ==
  ASSUME Timely(clock, ghost), metrics \in [statements : Nat], NEW e,
         e.clock.tick = clock.tick, e.metrics = metrics, e.ghost = ghost
  PROVE  Extends(e)
<1>1. /\ clock.tick \in Nat /\ Grows(ghost.work) /\ UpTo(ghost.work, clock.tick) \in Nat
  BY RecordKept
<1>2. metrics.statements \in Nat
  OBVIOUS
<1>3. metrics.statements - metrics.statements = UpTo(ghost.work, clock.tick) - UpTo(ghost.work, clock.tick)
  BY <1>1, <1>2
<1>4. Adds(e.metrics.statements, e.ghost.work, e.clock.tick)
  BY <1>1, <1>3 DEF Adds
<1>5. QED
  BY <1>1, <1>4 DEF Extends

LEMMA ControlNumbers ==
  ASSUME ControlsOK
  PROVE  controls.qps \in Nat /\ controls.speed \in Nat
<1> DEFINE load == controls.qps
           speed == controls.speed
<1>1. load \in 0..5000 /\ speed \in 1..200
  BY DEF ControlsOK, ControlState, SpeedRange, LoadRange
<1> HIDE DEF load, speed
<1>2. load \in Nat /\ speed \in Nat
  BY <1>1
<1>3. QED
  BY <1>2 DEF load, speed

(* A frame keeps time, and so do a step and the load.                      *)
LEMMA UpdatesTimely ==
  ASSUME Timely(clock, ghost), ControlsOK, metrics \in [statements : Nat],
         NEW duration \in Durations, NEW error \in -Rounding..Rounding,
         NEW e \in Updates(duration, error)
  PROVE  Timely(e.clock, e.ghost) /\ e.metrics \in [statements : Nat] /\ Extends(e)
<1>1. CASE controls.paused
  <2>1. e = [clock |-> clock, metrics |-> metrics, ghost |-> ghost]
    BY <1>1 DEF Updates
  <2>2. e.clock = clock /\ e.metrics = metrics /\ e.ghost = ghost
    BY <2>1
  <2>3. QED
    BY <2>2, StandingExtends
<1>2. CASE ~controls.paused
  <2> DEFINE played == duration * controls.speed
             sum == clock.accumulator + duration * controls.speed + error
             n == StepsDue(sum)
             rest == Max({0, sum - n * FixedStep})
             steps == clock.tick - ghost.manual
  <2>1. PICK s \in FixedSteps(n) :
          e = [clock |-> [s.clock EXCEPT !.accumulator = rest],
               metrics |-> [statements |-> s.statements],
               ghost |-> [ghost EXCEPT !.elapsed = ghost.elapsed + duration * controls.speed,
                                       !.offered = ghost.offered + n * controls.qps,
                                       !.frames = ghost.frames + 1, !.work = s.work]]
    BY <1>2, Zenon DEF Updates
  <2>2. /\ clock \in ClockState /\ ghost \in GhostState
        /\ Kept(clock.accumulator, steps, ghost.elapsed, ghost.frames)
    BY DEF Timely
  <2>3. clock.tick \in Nat /\ controls.qps \in Nat /\ controls.speed \in Nat
    BY <2>2, ControlNumbers DEF ClockState
  <2>4. ghost.manual \in Nat /\ ghost.offered \in Nat
    BY <2>2 DEF GhostState
  <2>5. played \in Nat /\ Multiple(played, Quantum)
    <3>1. duration \in Nat /\ Quantum \in Int /\ Multiple(duration, Quantum)
      BY QuantumFacts, PageAssumption
    <3> DEFINE speed == controls.speed
    <3>2. speed \in Nat /\ played = duration * speed
      BY <2>3
    <3> HIDE DEF speed, played
    <3>3. speed * duration = played /\ played \in Nat
      BY <3>1, <3>2
    <3>4. Multiple(speed * duration, Quantum)
      BY <3>1, <3>2, MultipleTimes
    <3>5. QED
      BY <3>3, <3>4
  <2>6. Ran(clock.accumulator, played, error, n, rest)
    BY DEF Ran
  <2> HIDE DEF played, sum, n, rest, steps
  <2>7. n \in Nat /\ Kept(rest, steps + n, ghost.elapsed + played, ghost.frames + 1)
    BY <2>2, <2>5, <2>6, FrameKeepsTime
  <2>a. /\ ghost.work \in Seq(Nat) /\ clock.tick = Len(ghost.work) /\ Grows(ghost.work)
        /\ metrics.statements \in Nat
    BY RecordKept
  <2>8. Later(s, n) /\ Adds(s.statements, s.work, s.clock.tick)
    BY <2>1, <2>3, <2>4, <2>7, <2>a, NothingRun, FixedStepsLater
  <2>9. /\ s.clock \in ClockState /\ s.statements \in Nat /\ s.work \in Seq(Nat)
        /\ s.clock.tick = clock.tick + n /\ Len(s.work) = s.clock.tick
        /\ UpTo(s.work, s.clock.tick) * StepsPerSecond + s.clock.credit
             = ghost.offered + n * controls.qps
    BY <2>8 DEF Later
  <2> DEFINE elapsed == ghost.elapsed + played
             offered == ghost.offered + n * controls.qps
             frames == ghost.frames + 1
             work == s.work
  <2>10. /\ e.clock = [s.clock EXCEPT !.accumulator = rest]
         /\ e.ghost = [ghost EXCEPT !.elapsed = elapsed, !.offered = offered,
                                    !.frames = frames, !.work = work]
         /\ e.metrics = [statements |-> s.statements]
    BY <2>1 DEF played
  <2>11. Kept(rest, steps + n, elapsed, frames)
    BY <2>7
  <2>12. elapsed \in Nat /\ frames \in Nat /\ rest \in Nat
    <3> HIDE DEF elapsed, frames
    <3>1. QED
      BY <2>11 DEF Kept
  <2>13. offered \in Nat
    <3> DEFINE asked == n * controls.qps
    <3>1. asked \in Nat
      BY <2>3, <2>7, TimesNext
    <3> HIDE DEF asked
    <3>2. ghost.offered + asked \in Nat
      BY <2>4, <3>1
    <3>3. QED
      BY <3>2 DEF asked
  <2>14. work \in Seq(Nat) /\ UpTo(work, s.clock.tick) * StepsPerSecond + s.clock.credit = offered
    BY <2>9
  <2>15. work = s.work
    OBVIOUS
  <2> HIDE DEF elapsed, offered, frames, work
  <2>16. /\ e.clock \in ClockState /\ e.clock.accumulator = rest
         /\ e.clock.tick = s.clock.tick /\ e.clock.credit = s.clock.credit
    BY <2>9, <2>10, <2>12 DEF ClockState
  <2>17. /\ e.ghost \in GhostState /\ e.ghost.elapsed = elapsed /\ e.ghost.offered = offered
         /\ e.ghost.frames = frames /\ e.ghost.manual = ghost.manual /\ e.ghost.work = work
    BY <2>2, <2>10, <2>12, <2>13, <2>14 DEF GhostState
  <2>18. e.clock.tick - e.ghost.manual = steps + n
    <3> DEFINE tick == clock.tick
               manual == ghost.manual
    <3>1. tick \in Nat /\ manual \in Nat /\ n \in Nat
      BY <2>3, <2>4, <2>7
    <3>2. e.clock.tick = tick + n /\ e.ghost.manual = manual /\ steps = tick - manual
      BY <2>9, <2>16, <2>17 DEF steps
    <3> HIDE DEF tick, manual
    <3>3. (tick + n) - manual = (tick - manual) + n
      BY <3>1
    <3>4. QED
      BY <3>2, <3>3
  <2>b. Grows(work)
    BY <2>8, <2>15 DEF Adds
  <2>19. Timely(e.clock, e.ghost)
    BY <2>9, <2>11, <2>14, <2>15, <2>16, <2>17, <2>18, <2>b DEF Timely
  <2>c. e.ghost.since = ghost.since
    BY <2>2, <2>10 DEF GhostState
  <2>d. clock.tick <= e.clock.tick
    <3> DEFINE tick == clock.tick
    <3>1. tick \in Nat /\ n \in Nat /\ e.clock.tick = tick + n
      BY <2>3, <2>7, <2>9, <2>16
    <3> HIDE DEF tick
    <3>2. tick <= tick + n
      BY <3>1
    <3>3. QED
      BY <3>1, <3>2 DEF tick
  <2>e. Extends(e)
    BY <2>8, <2>10, <2>15, <2>16, <2>17, <2>c, <2>d DEF Extends
  <2>20. QED
    BY <2>9, <2>10, <2>19, <2>e
<1>3. QED
  BY <1>1, <1>2

LEMMA SingleStepTimely ==
  ASSUME Timely(clock, ghost), ControlsOK, metrics \in [statements : Nat], NEW e \in SingleStep
  PROVE  Timely(e.clock, e.ghost) /\ e.metrics \in [statements : Nat] /\ Extends(e)
<1>1. PICK s \in FixedSteps(1) :
        e = [clock |-> s.clock, metrics |-> [statements |-> s.statements],
             ghost |-> [ghost EXCEPT !.offered = ghost.offered + controls.qps,
                                     !.manual = ghost.manual + 1, !.work = s.work]]
  BY Zenon DEF SingleStep
<1>2. /\ clock \in ClockState /\ ghost \in GhostState
      /\ Kept(clock.accumulator, clock.tick - ghost.manual, ghost.elapsed, ghost.frames)
  BY DEF Timely
<1>3. /\ clock.tick \in Nat /\ ghost.manual \in Nat /\ ghost.offered \in Nat /\ controls.qps \in Nat
  <2>1. clock.tick \in Nat
    BY <1>2 DEF ClockState
  <2>2. ghost.manual \in Nat /\ ghost.offered \in Nat
    BY <1>2 DEF GhostState
  <2>3. QED
    BY <2>1, <2>2, ControlNumbers
<1>a. /\ ghost.work \in Seq(Nat) /\ clock.tick = Len(ghost.work) /\ Grows(ghost.work)
      /\ metrics.statements \in Nat
  BY RecordKept
<1>4. Later(s, 1) /\ Adds(s.statements, s.work, s.clock.tick)
  BY <1>1, <1>3, <1>a, NothingRun, FixedStepsLater
<1>5. 1 * controls.qps = controls.qps
  BY <1>3
<1>6. /\ s.clock \in ClockState /\ s.statements \in Nat /\ s.work \in Seq(Nat)
      /\ s.clock.accumulator = clock.accumulator
      /\ s.clock.tick = clock.tick + 1 /\ Len(s.work) = s.clock.tick
      /\ UpTo(s.work, s.clock.tick) * StepsPerSecond + s.clock.credit
           = ghost.offered + controls.qps
  BY <1>4, <1>5 DEF Later
<1>7. /\ e.clock = s.clock /\ e.metrics = [statements |-> s.statements]
      /\ e.ghost = [ghost EXCEPT !.offered = ghost.offered + controls.qps,
                                 !.manual = ghost.manual + 1, !.work = s.work]
  BY <1>1
<1>8. /\ e.ghost \in GhostState /\ e.ghost.elapsed = ghost.elapsed
      /\ e.ghost.offered = ghost.offered + controls.qps /\ e.ghost.frames = ghost.frames
      /\ e.ghost.manual = ghost.manual + 1 /\ e.ghost.work = s.work
  <2> DEFINE offered == ghost.offered + controls.qps
             manual == ghost.manual + 1
             work == s.work
  <2>1. offered \in Nat /\ manual \in Nat /\ work \in Seq(Nat)
    <3>1. offered \in Nat /\ manual \in Nat
      BY <1>3
    <3>2. work \in Seq(Nat)
      BY <1>6
    <3>3. QED
      BY <3>1, <3>2
  <2>2. e.ghost = [ghost EXCEPT !.offered = offered, !.manual = manual, !.work = work]
    BY <1>7
  <2> HIDE DEF offered, manual, work
  <2>3. /\ e.ghost \in GhostState /\ e.ghost.elapsed = ghost.elapsed
        /\ e.ghost.offered = offered /\ e.ghost.frames = ghost.frames
        /\ e.ghost.manual = manual /\ e.ghost.work = work
    BY <1>2, <2>1, <2>2 DEF GhostState
  <2>4. QED
    BY <2>3 DEF offered, manual, work
<1>9. e.clock.tick - e.ghost.manual = clock.tick - ghost.manual
  <2> DEFINE tick == clock.tick
             manual == ghost.manual
  <2>1. tick \in Nat /\ manual \in Nat
    BY <1>3
  <2>2. e.clock.tick = tick + 1 /\ e.ghost.manual = manual + 1
    BY <1>6, <1>7, <1>8
  <2> HIDE DEF tick, manual
  <2>3. (tick + 1) - (manual + 1) = tick - manual
    BY <2>1
  <2>4. QED
    BY <2>2, <2>3 DEF tick, manual
<1>b. Grows(e.ghost.work)
  BY <1>4, <1>8 DEF Adds
<1>10. Timely(e.clock, e.ghost)
  BY <1>2, <1>6, <1>7, <1>8, <1>9, <1>b DEF Timely
<1>c. e.ghost.since = ghost.since
  <2> DEFINE offered == ghost.offered + controls.qps
             manual == ghost.manual + 1
             work == s.work
  <2>1. e.ghost = [ghost EXCEPT !.offered = offered, !.manual = manual, !.work = work]
    BY <1>7
  <2> HIDE DEF offered, manual, work
  <2>2. QED
    BY <1>2, <2>1 DEF GhostState
<1>d. clock.tick <= e.clock.tick
  BY <1>3, <1>6, <1>7
<1>e. Extends(e)
  BY <1>4, <1>7, <1>8, <1>c, <1>d DEF Extends
<1>11. QED
  BY <1>6, <1>7, <1>10, <1>e

LEMMA DashboardWatches ==
  ASSUME NEW d, NEW e, Timely(e.clock, e.ghost), UpdateDashboard(d, e)
  PROVE  Timely(e.clock, ghost')
<1>1. e.clock.tick \in Nat
  BY DEF Timely, ClockState
<1>2. ghost' = e.ghost \/ ghost' = [e.ghost EXCEPT !.since = e.clock.tick]
  BY DEF UpdateDashboard
<1>3. QED
  BY <1>1, <1>2, TimelySince

-----------------------------------------------------------------------------
LEMMA ClampBetween ==
  ASSUME NEW value \in Int, NEW minimum \in Int, NEW maximum \in Int, minimum <= maximum
  PROVE  Clamp(value, minimum, maximum) \in minimum..maximum
<1> DEFINE lower == Min({maximum, value})
<1>1. lower \in Int /\ lower <= maximum
  BY MinOfTwo
<1> HIDE DEF lower
<1>2. Max({minimum, lower}) = IF minimum >= lower THEN minimum ELSE lower
  BY <1>1, MaxOfTwo
<1>3. Max({minimum, lower}) \in minimum..maximum
  BY <1>1, <1>2
<1>4. QED
  BY <1>3 DEF Clamp, lower

LEMMA FreshTimely == Timely(Zero, NoGhost)
<1>1. /\ FixedStep \in Nat \ {0} /\ Epsilon \in Nat /\ Rounding \in Nat
      /\ StepsPerSecond \in Nat /\ Quantum \in Nat
      /\ Epsilon < FixedStep
  BY QuantumFacts, PageAssumption
<1>2. Multiple(0, Quantum)
  BY <1>1 DEF Multiple
<1>3. Within(0 + 0 * FixedStep - 0, Rounding * 0)
  <2>1. 0 + 0 * FixedStep - 0 = 0 /\ Rounding * 0 = 0 /\ 0 * Epsilon = 0 /\ 0 * Quantum = 0
    BY <1>1
  <2>2. Early(0, 0, 0)
    BY <2>1 DEF Early
  <2>3. Within(0, 0)
    BY <2>2 DEF Within
  <2>4. QED
    BY <2>1, <2>3
<1>4. Kept(0, 0, 0, 0)
  BY <1>1, <1>2, <1>3 DEF Kept
<1>5. Zero \in ClockState /\ Zero.accumulator = 0 /\ Zero.tick = 0 /\ Zero.credit = 0
  BY <1>1 DEF Zero, ClockState
<1>6. /\ NoGhost \in GhostState /\ NoGhost.manual = 0 /\ NoGhost.elapsed = 0
      /\ NoGhost.frames = 0 /\ NoGhost.offered = 0 /\ NoGhost.work = <<>>
  BY DEF NoGhost, GhostState
<1>7. UpTo(<<>>, 0) * StepsPerSecond + 0 = 0
  BY <1>1 DEF UpTo
<1>8. Kept(Zero.accumulator, Zero.tick - NoGhost.manual, NoGhost.elapsed, NoGhost.frames)
  BY <1>4, <1>5, <1>6
<1>9. Len(NoGhost.work) = Zero.tick
  BY <1>5, <1>6
<1>10. UpTo(NoGhost.work, Zero.tick) * StepsPerSecond + Zero.credit = NoGhost.offered
  BY <1>5, <1>6, <1>7
<1>11. Grows(NoGhost.work)
  <2>1. Grows(<<>>)
    <3>1. ASSUME NEW later \in 0..Len(<<>>), NEW tick \in 0..later
          PROVE  UpTo(<<>>, tick) <= UpTo(<<>>, later)
      <4>1. tick = 0 /\ later = 0
        BY <3>1
      <4>2. QED
        BY <4>1 DEF UpTo
    <3>2. QED
      BY <3>1 DEF Grows
  <2>2. QED
    BY <1>6, <2>1
<1>12. QED
  BY <1>5, <1>6, <1>8, <1>9, <1>10, <1>11 DEF Timely

LEMMA DefaultsOK == Defaults \in ControlState
<1>1. DefaultLoad \in LoadRange /\ 10 \in SpeedRange
  BY PageAssumption DEF LoadRange, SpeedRange
<1>2. QED
  BY <1>1 DEF Defaults, ControlState, Playbacks

LEMMA InputCounts ==
  ASSUME inputs \in 0..MaxInputs, Input
  PROVE  inputs' \in 0..MaxInputs /\ inputs + 1 \in 0..MaxInputs /\ inputs' = inputs + 1
  BY PageAssumption DEF Input

\* The ways a receipt reaches the page.
LEMMA ReceiptShown ==
  ASSUME NEW receipt \in 0..MaxInputs \cup {None},
         traces' = [last |-> receipt, current |-> receipt, city |-> receipt]
  PROVE  TracesOK'
  BY DEF TracesOK, TraceState

-----------------------------------------------------------------------------
LEMMA PageInit == Init => PageInv
<1>1. SUFFICES ASSUME Init PROVE PageInv
  OBVIOUS
<1>2. clock = Zero /\ ghost = NoGhost /\ controls = Defaults
      /\ metrics = [statements |-> 1] /\ inputs = 0
      /\ traces = [last |-> 0, current |-> 0, city |-> 0]
  BY <1>1 DEF Init
<1>3. 0 \in 0..MaxInputs /\ 0 <= MaxTicks
  BY PageAssumption
<1>4. Timely(clock, ghost) /\ ControlsOK
  BY <1>2, FreshTimely, DefaultsOK DEF ControlsOK
<1>5. clock.tick <= MaxTicks
  BY <1>2, <1>3 DEF Zero
<1>6. TracesOK /\ metrics \in [statements : Nat] /\ inputs \in 0..MaxInputs
  BY <1>2, <1>3 DEF TracesOK, TraceState
<1>7. QED
  BY <1>4, <1>5, <1>6 DEF PageInv

LEMMA FrameKeeps ==
  ASSUME PageInv, NEW duration \in Durations, NEW error \in -Rounding..Rounding,
         NEW sampling \in BOOLEAN, Frame(duration, error, sampling)
  PROVE  PageInv'
<1>1. PICK e \in Updates(duration, error) :
        /\ e.clock.tick <= MaxTicks /\ Engine(e)
        /\ IF sampling THEN UpdateDashboard(dash, e) ELSE dash' = dash /\ ghost' = e.ghost
  BY DEF Frame
<1>2. /\ Timely(clock, ghost) /\ ControlsOK /\ metrics \in [statements : Nat]
      /\ TracesOK /\ inputs \in 0..MaxInputs
  BY DEF PageInv
<1>3. Timely(e.clock, e.ghost) /\ e.metrics \in [statements : Nat]
  BY <1>2, UpdatesTimely
<1>4. Timely(e.clock, ghost')
  BY <1>1, <1>3, DashboardWatches
<1>5. clock' = e.clock /\ metrics' = e.metrics /\ UNCHANGED <<controls, traces, inputs>>
  BY <1>1 DEF Frame, Engine
<1>6. Timely(clock, ghost)' /\ (clock.tick <= MaxTicks)'
  BY <1>1, <1>4, <1>5 DEF Timely
<1>7. ControlsOK' /\ TracesOK' /\ (inputs \in 0..MaxInputs)' /\ (metrics \in [statements : Nat])'
  <2>1. ControlsOK' /\ TracesOK' /\ (inputs \in 0..MaxInputs)'
    BY <1>2, <1>5 DEF ControlsOK, TracesOK
  <2>2. (metrics \in [statements : Nat])'
    BY <1>3, <1>5
  <2>3. QED
    BY <2>1, <2>2
<1>8. QED
  BY <1>6, <1>7 DEF PageInv

LEMMA ModelUpdateKeeps ==
  ASSUME PageInv, NEW duration \in Durations, NEW error \in -Rounding..Rounding,
         ModelUpdate(duration, error)
  PROVE  PageInv'
<1>1. PICK e \in Updates(duration, error) :
        e.clock.tick <= MaxTicks /\ Engine(e) /\ UpdateDashboard(dash, e)
  BY DEF ModelUpdate
<1>2. /\ Timely(clock, ghost) /\ ControlsOK /\ metrics \in [statements : Nat]
      /\ TracesOK /\ inputs \in 0..MaxInputs
  BY DEF PageInv
<1>3. Timely(e.clock, e.ghost) /\ e.metrics \in [statements : Nat]
  BY <1>2, UpdatesTimely
<1>4. Timely(e.clock, ghost')
  BY <1>1, <1>3, DashboardWatches
<1>5. clock' = e.clock /\ metrics' = e.metrics /\ UNCHANGED <<controls, traces>> /\ Input
  BY <1>1 DEF ModelUpdate, Engine
<1>6. Timely(clock, ghost)' /\ (clock.tick <= MaxTicks)'
  BY <1>1, <1>4, <1>5 DEF Timely
<1>7. ControlsOK' /\ TracesOK' /\ (metrics \in [statements : Nat])'
  BY <1>2, <1>3, <1>5 DEF ControlsOK, TracesOK
<1>8. (inputs \in 0..MaxInputs)'
  BY <1>2, <1>5, InputCounts
<1>9. QED
  BY <1>6, <1>7, <1>8 DEF PageInv

LEMMA SetControlKeeps ==
  ASSUME PageInv,
         NEW next \in ControlState, SetControl(next)
  PROVE  PageInv'
<1>1. /\ Timely(clock, ghost) /\ clock.tick <= MaxTicks /\ metrics \in [statements : Nat]
      /\ TracesOK /\ inputs \in 0..MaxInputs
  BY DEF PageInv
<1>2. /\ controls' = next /\ UNCHANGED <<clock, metrics, traces>> /\ Input
      /\ UpdateDashboard(Sample(dash, Now), Now)
  BY DEF SetControl
<1>3. Now.clock = clock /\ Now.ghost = ghost
  BY DEF Now
<1>4. Timely(clock, ghost')
  <2>1. Timely(Now.clock, Now.ghost)
    BY <1>1, <1>3
  <2> DEFINE d == Sample(dash, Now)
             e == Now
  <2>2. Timely(e.clock, e.ghost) /\ UpdateDashboard(d, e)
    BY <1>2, <2>1
  <2> HIDE DEF d, e
  <2>3. Timely(e.clock, ghost')
    BY <2>2, DashboardWatches
  <2>4. QED
    BY <1>3, <2>3 DEF e
<1>5. Timely(clock, ghost)' /\ (clock.tick <= MaxTicks)' /\ (metrics \in [statements : Nat])'
  BY <1>1, <1>2, <1>4
<1>6. ControlsOK' /\ TracesOK'
  BY <1>1, <1>2 DEF ControlsOK, TracesOK
<1>7. (inputs \in 0..MaxInputs)'
  BY <1>1, <1>2, InputCounts
<1>8. QED
  BY <1>5, <1>6, <1>7 DEF PageInv

LEMMA ControlsKeep ==
  ASSUME PageInv,
         \/ \E still \in BOOLEAN : SetPaused(still)
         \/ \E speed \in Speeds : SetSpeed(speed)
         \/ \E qps \in Loads : SetLoad(qps)
  PROVE  PageInv'
<1>1. ControlsOK
  BY DEF PageInv
<1>2. ASSUME NEW still \in BOOLEAN, SetPaused(still) PROVE PageInv'
  <2>1. [controls EXCEPT !.paused = still] \in ControlState
    BY <1>1 DEF ControlsOK, ControlState
  <2>2. QED
    BY <1>2, <2>1, SetControlKeeps DEF SetPaused
<1>3. ASSUME NEW speed \in Speeds, SetSpeed(speed) PROVE PageInv'
  <2> DEFINE clamped == Clamp(speed, 1, 200)
  <2>1. speed \in Int
    BY PageAssumption
  <2>2. clamped \in SpeedRange
    <3>1. 1 \in Int /\ 200 \in Int /\ 1 <= 200
      OBVIOUS
    <3>2. Clamp(speed, 1, 200) \in 1..200
      BY <2>1, <3>1, ClampBetween, Zenon
    <3>3. QED
      BY <3>2 DEF SpeedRange
  <2> HIDE DEF clamped
  <2>3. [controls EXCEPT !.speed = clamped] \in ControlState
    BY <1>1, <2>2 DEF ControlsOK, ControlState
  <2>4. SetControl([controls EXCEPT !.speed = clamped])
    BY <1>3 DEF SetSpeed, clamped
  <2>5. QED
    BY <2>3, <2>4, SetControlKeeps
<1>4. ASSUME NEW qps \in Loads, SetLoad(qps) PROVE PageInv'
  <2> DEFINE clamped == Clamp(qps, 0, 5000)
  <2>1. qps \in Int
    BY PageAssumption
  <2>2. clamped \in LoadRange
    <3> DEFINE minimum == 0
               maximum == 5000
    <3>1. minimum \in Int /\ maximum \in Int /\ minimum <= maximum
      OBVIOUS
    <3> HIDE DEF minimum, maximum
    <3>2. Clamp(qps, minimum, maximum) \in minimum..maximum
      BY <2>1, <3>1, ClampBetween
    <3>3. QED
      BY <3>2 DEF minimum, maximum, LoadRange
  <2> HIDE DEF clamped
  <2>3. [controls EXCEPT !.qps = clamped] \in ControlState
    BY <1>1, <2>2 DEF ControlsOK, ControlState
  <2>4. SetControl([controls EXCEPT !.qps = clamped])
    BY <1>4 DEF SetLoad, clamped
  <2>5. QED
    BY <2>3, <2>4, SetControlKeeps
<1>5. QED
  BY <1>2, <1>3, <1>4

LEMMA SetPlaybackKeeps ==
  ASSUME PageInv, NEW mode \in {"step", "slow", "live"}, SetPlayback(mode)
  PROVE  PageInv'
<1>1. /\ Timely(clock, ghost) /\ ControlsOK /\ metrics \in [statements : Nat]
      /\ TracesOK /\ inputs \in 0..MaxInputs
  BY DEF PageInv
<1>2. PICK e \in IF mode = "step" THEN SingleStep ELSE {Now} :
        /\ e.clock.tick <= MaxTicks /\ Engine(e) /\ UpdateDashboard(Sample(dash, Now), e)
  BY DEF SetPlayback
<1>3. Timely(e.clock, e.ghost) /\ e.metrics \in [statements : Nat]
  <2>1. CASE mode = "step"
    BY <1>1, <1>2, <2>1, SingleStepTimely
  <2>2. CASE mode # "step"
    BY <1>1, <1>2, <2>2 DEF Now
  <2>3. QED
    BY <2>1, <2>2
<1>4. Timely(e.clock, ghost')
  <2> DEFINE d == Sample(dash, Now)
  <2>1. UpdateDashboard(d, e)
    BY <1>2
  <2> HIDE DEF d
  <2>2. QED
    BY <1>3, <2>1, DashboardWatches
<1>5. /\ clock' = e.clock /\ metrics' = e.metrics /\ UNCHANGED traces /\ Input
      /\ controls' = [controls EXCEPT !.paused = (mode = "step"), !.playback = mode,
                                      !.speed = CASE mode = "slow" -> 10
                                                  [] mode = "live" -> 40
                                                  [] OTHER -> controls.speed]
  BY <1>2 DEF SetPlayback, Engine
<1>6. Timely(clock, ghost)' /\ (clock.tick <= MaxTicks)'
  BY <1>2, <1>4, <1>5
<1>7. TracesOK' /\ (metrics \in [statements : Nat])'
  BY <1>1, <1>3, <1>5 DEF TracesOK
<1>8. (inputs \in 0..MaxInputs)'
  BY <1>1, <1>5, InputCounts
<1>9. ControlsOK'
  <2> DEFINE speed == CASE mode = "slow" -> 10
                        [] mode = "live" -> 40
                        [] OTHER -> controls.speed
             still == (mode = "step")
  <2>1. speed \in SpeedRange
    <3>1. controls.speed \in SpeedRange
      BY <1>1 DEF ControlsOK, ControlState
    <3>2. 10 \in SpeedRange /\ 40 \in SpeedRange
      BY DEF SpeedRange
    <3>3. QED
      BY <3>1, <3>2
  <2>2. still \in BOOLEAN /\ mode \in Playbacks
    BY DEF Playbacks
  <2>3. controls' = [controls EXCEPT !.paused = still, !.playback = mode, !.speed = speed]
    BY <1>5
  <2> HIDE DEF speed, still
  <2>4. [controls EXCEPT !.paused = still, !.playback = mode, !.speed = speed] \in ControlState
    BY <1>1, <2>1, <2>2 DEF ControlsOK, ControlState
  <2>5. QED
    BY <2>3, <2>4 DEF ControlsOK
<1>10. QED
  BY <1>6, <1>7, <1>8, <1>9 DEF PageInv

LEMMA TraceKeeps ==
  ASSUME PageInv, NEW receipt \in {None, inputs + 1}, Trace(receipt)
  PROVE  PageInv'
<1>1. /\ Timely(clock, ghost) /\ clock.tick <= MaxTicks /\ ControlsOK
      /\ metrics \in [statements : Nat] /\ TracesOK /\ inputs \in 0..MaxInputs
  BY DEF PageInv
<1>2. /\ metrics' = [statements |-> metrics.statements + IF receipt = None THEN 0 ELSE 1]
      /\ traces' = IF receipt = None THEN traces
                   ELSE [last |-> receipt, current |-> receipt, city |-> receipt]
      /\ UpdateDashboard(Flushed, [Now EXCEPT !.metrics = metrics'])
      /\ UNCHANGED <<clock, controls>> /\ Input
  BY DEF Trace
<1>3. inputs' \in 0..MaxInputs /\ receipt \in 0..MaxInputs \cup {None}
  BY <1>1, <1>2, InputCounts
<1>4. Timely(clock, ghost')
  <2> DEFINE d == Flushed
             e == [Now EXCEPT !.metrics = metrics']
  <2>1. e.clock = clock /\ e.ghost = ghost /\ UpdateDashboard(d, e)
    BY <1>2 DEF Now
  <2> HIDE DEF d, e
  <2>2. Timely(e.clock, ghost')
    BY <1>1, <2>1, DashboardWatches
  <2>3. QED
    BY <2>1, <2>2
<1>5. TracesOK'
  <2>1. CASE receipt = None
    BY <1>1, <1>2, <2>1 DEF TracesOK
  <2>2. CASE receipt # None
    BY <1>2, <1>3, <2>2, ReceiptShown
  <2>3. QED
    BY <2>1, <2>2
<1>6. (metrics \in [statements : Nat])'
  <2> DEFINE more == metrics.statements + IF receipt = None THEN 0 ELSE 1
  <2>1. more \in Nat
    BY <1>1
  <2> HIDE DEF more
  <2>2. QED
    BY <1>2, <2>1 DEF more
<1>7. Timely(clock, ghost)' /\ (clock.tick <= MaxTicks)' /\ ControlsOK'
  BY <1>1, <1>2, <1>4 DEF ControlsOK
<1>8. QED
  BY <1>3, <1>5, <1>6, <1>7 DEF PageInv

\* A scenario and a reset: everything from the start, under a receipt or none.
LEMMA RestartKeeps ==
  ASSUME PageInv, Input, NEW statements \in Nat, NEW receipt \in 0..MaxInputs \cup {None},
         Engine([clock |-> Zero, metrics |-> [statements |-> statements]]), controls' = Defaults,
         traces' = [last |-> receipt, current |-> receipt, city |-> receipt],
         UpdateDashboard(Fresh, [clock |-> Zero, metrics |-> metrics', ghost |-> NoGhost])
  PROVE  PageInv'
<1>1. clock' = Zero /\ metrics' = [statements |-> statements]
  BY DEF Engine
<1>2. inputs' \in 0..MaxInputs
  BY InputCounts DEF PageInv
<1>3. Timely(Zero, ghost')
  <2> DEFINE e == [clock |-> Zero, metrics |-> metrics', ghost |-> NoGhost]
  <2>1. e.clock = Zero /\ e.ghost = NoGhost /\ UpdateDashboard(Fresh, e)
    OBVIOUS
  <2> HIDE DEF e
  <2>2. Timely(e.clock, ghost')
    BY <2>1, FreshTimely, DashboardWatches
  <2>3. QED
    BY <2>1, <2>2
<1>4. Zero.tick <= MaxTicks
  BY PageAssumption DEF Zero
<1>5. Timely(clock, ghost)' /\ (clock.tick <= MaxTicks)' /\ (metrics \in [statements : Nat])'
  BY <1>1, <1>3, <1>4
<1>6. ControlsOK' /\ TracesOK'
  BY DefaultsOK, ReceiptShown DEF ControlsOK
<1>7. QED
  BY <1>2, <1>5, <1>6 DEF PageInv

LEMMA PageUnchanged == PageInv /\ UNCHANGED vars => PageInv'
  BY DEF vars, PageInv, ControlsOK, TracesOK

LEMMA PageStep == PageInv /\ [Next]_vars => PageInv'
<1>1. SUFFICES ASSUME PageInv, [Next]_vars PROVE PageInv'
  OBVIOUS
<1>2. CASE \E duration \in Durations, error \in -Rounding..Rounding, sampling \in BOOLEAN :
             Frame(duration, error, sampling)
  BY <1>1, <1>2, FrameKeeps
<1>3. CASE \E duration \in Durations, error \in -Rounding..Rounding : ModelUpdate(duration, error)
  BY <1>1, <1>3, ModelUpdateKeeps
<1>4. CASE \/ \E still \in BOOLEAN : SetPaused(still)
           \/ \E speed \in Speeds : SetSpeed(speed)
           \/ \E qps \in Loads : SetLoad(qps)
  BY <1>1, <1>4, ControlsKeep
<1>5. CASE \E mode \in {"step", "slow", "live"} : SetPlayback(mode)
  BY <1>1, <1>5, SetPlaybackKeeps
<1>6. CASE \E receipt \in {None, inputs + 1} : Trace(receipt)
  BY <1>1, <1>6, TraceKeeps
<1>7. CASE RunScenario(inputs + 1)
  <2>1. Input /\ inputs + 1 \in 0..MaxInputs \cup {None}
    BY <1>1, <1>7, InputCounts DEF RunScenario, PageInv
  <2>2. QED
    BY <1>1, <1>7, <2>1, RestartKeeps DEF RunScenario
<1>8. CASE Reset
  <2>1. Input /\ None \in 0..MaxInputs \cup {None} /\ 0 \in Nat
    BY <1>8 DEF Reset
  <2>2. QED
    BY <1>1, <1>8, <2>1, RestartKeeps DEF Reset
<1>9. CASE UNCHANGED vars
  BY <1>1, <1>9, PageUnchanged
<1>10. QED
  BY <1>1, <1>2, <1>3, <1>4, <1>5, <1>6, <1>7, <1>8, <1>9 DEF Next

(* ClockKeepsTime, for every step length, frame duration, load, epsilon    *)
(* and rounding error that PageAssumption admits: PageInv holds, and what  *)
(* it says of the error in quanta bounds the error of the clock.           *)
THEOREM ClockKeepsTimeHolds == Spec => []ClockKeepsTime
  BY PageStep, PageInit, PageInvClockKeepsTime, PTL DEF Spec


-----------------------------------------------------------------------------
(* Array.filter keeps some entries in their order.                         *)
Picks(list, kept, at) ==
  /\ at \in [DOMAIN kept -> DOMAIN list]
  /\ \A i \in DOMAIN kept : kept[i] = list[at[i]]
  /\ \A i, j \in DOMAIN kept : i < j => at[i] < at[j]

\* The recursive function of Filtered, up to n.
Filters(list, places, n, f) ==
  f = [k \in 0..n |-> IF k = 0 THEN <<>>
                      ELSE IF k \in places THEN Append(f[k - 1], list[k]) ELSE f[k - 1]]

LEMMA FiltersExist ==
  ASSUME NEW list, NEW places
  PROVE  \A n \in Nat : \E f : Filters(list, places, n, f)
<1> DEFINE P == {n \in Nat : \E f : Filters(list, places, n, f)}
<1>1. 0 \in P
  <2> DEFINE f == [k \in 0..0 |-> <<>>]
  <2>1. f = [k \in 0..0 |-> IF k = 0 THEN <<>>
                            ELSE IF k \in places THEN Append(f[k - 1], list[k]) ELSE f[k - 1]]
    OBVIOUS
  <2>2. QED
    BY <2>1 DEF Filters
<1>2. ASSUME NEW n \in Nat, n \in P PROVE n + 1 \in P
  <2>1. PICK f : Filters(list, places, n, f)
    BY <1>2
  <2> DEFINE last == IF n + 1 \in places THEN Append(f[n], list[n + 1]) ELSE f[n]
             g == [k \in 0..(n + 1) |-> IF k <= n THEN f[k] ELSE last]
  <2>2. \A k \in 0..n : f[k] = IF k = 0 THEN <<>>
                               ELSE IF k \in places THEN Append(f[k - 1], list[k]) ELSE f[k - 1]
    BY <2>1 DEF Filters
  <2>3. ASSUME NEW k \in 0..(n + 1)
        PROVE  g[k] = IF k = 0 THEN <<>>
                      ELSE IF k \in places THEN Append(g[k - 1], list[k]) ELSE g[k - 1]
    <3>1. CASE k = 0
      <4>1. 0 \in 0..n /\ 0 \in 0..(n + 1) /\ 0 <= n
        OBVIOUS
      <4>2. g[0] = f[0] /\ f[0] = <<>>
        BY <2>2, <4>1
      <4>3. QED
        BY <3>1, <4>2
    <3>2. CASE k # 0
      <4>1. k - 1 \in 0..n /\ k - 1 <= n /\ k - 1 \in 0..(n + 1)
        BY <3>2
      <4>2. g[k - 1] = f[k - 1]
        BY <4>1
      <4>3. g[k] = IF k \in places THEN Append(f[k - 1], list[k]) ELSE f[k - 1]
        <5>1. CASE k <= n
          <6>1. k \in 0..n /\ g[k] = f[k]
            BY <5>1
          <6>2. QED
            BY <2>2, <3>2, <6>1
        <5>2. CASE ~(k <= n)
          <6>1. k - 1 = n /\ k = n + 1
            BY <5>2
          <6>2. g[k] = last
            BY <5>2
          <6> HIDE DEF g
          <6>3. QED
            BY <6>1, <6>2
        <5>3. QED
          BY <5>1, <5>2
      <4> HIDE DEF g
      <4>4. QED
        BY <3>2, <4>2, <4>3
    <3>3. QED
      BY <3>1, <3>2
  <2> HIDE DEF g
  <2>4. g = [k \in 0..(n + 1) |-> g[k]]
    BY DEF g
  <2>5. Filters(list, places, n + 1, g)
    BY <2>3, <2>4 DEF Filters
  <2>6. QED
    BY <2>5
<1> HIDE DEF P
<1>3. \A n \in Nat : n \in P
  BY <1>1, <1>2, CountsUp
<1>4. QED
  BY <1>3 DEF P

\* The places at, all of the n before k, and then k.
AndThen(at, n, k) == [i \in 1..(n + 1) |-> IF i <= n THEN at[i] ELSE k]

\* One more entry is picked.
LEMMA PicksOn ==
  ASSUME NEW Entry, NEW list \in Seq(Entry), NEW k \in DOMAIN list,
         NEW kept \in Seq(Entry), NEW at, Picks(list, kept, at),
         \A i \in DOMAIN kept : at[i] < k
  PROVE  Picks(list, Append(kept, list[k]), AndThen(at, Len(kept), k))
<1> DEFINE next == AndThen(at, Len(kept), k)
           more == Append(kept, list[k])
           n == Len(kept)
<1>1. n \in Nat /\ DOMAIN kept = 1..n /\ list[k] \in Entry /\ k \in 1..Len(list)
      /\ DOMAIN list = 1..Len(list) /\ Len(list) \in Nat
  OBVIOUS
<1>2. more \in Seq(Entry) /\ Len(more) = n + 1 /\ DOMAIN more = 1..(n + 1)
      /\ more[n + 1] = list[k] /\ \A i \in 1..n : more[i] = kept[i]
  BY <1>1
<1>3. next[n + 1] = k /\ \A i \in 1..n : next[i] = at[i]
  BY <1>1 DEF AndThen
<1>4. next = [i \in 1..(n + 1) |-> next[i]]
  BY DEF AndThen
<1> HIDE DEF next, more, n
<1>5. \A i \in 1..(n + 1) : i \in 1..n \/ i = n + 1
  BY <1>1
<1>6. /\ \A i \in 1..n : at[i] \in DOMAIN list /\ kept[i] = list[at[i]] /\ at[i] < k
      /\ \A i, j \in 1..n : i < j => at[i] < at[j]
  BY <1>1 DEF Picks
<1>7. \A i \in 1..(n + 1) : next[i] \in DOMAIN list /\ more[i] = list[next[i]]
  BY <1>2, <1>3, <1>5, <1>6
<1>8. \A i, j \in 1..(n + 1) : i < j => next[i] < next[j]
  <2>1. SUFFICES ASSUME NEW i \in 1..(n + 1), NEW j \in 1..(n + 1), i < j
                 PROVE  next[i] < next[j]
    OBVIOUS
  <2>2. i \in 1..n
    BY <1>1, <2>1
  <2>3. QED
    BY <1>3, <1>5, <1>6, <2>1, <2>2
<1>9. next \in [1..(n + 1) -> DOMAIN list]
  BY <1>4, <1>7
<1>10. Picks(list, more, next)
  BY <1>2, <1>7, <1>8, <1>9 DEF Picks
<1>11. QED
  BY <1>10 DEF next, more, n

LEMMA FilteredPicks ==
  ASSUME NEW Entry, NEW list \in Seq(Entry), NEW places
  PROVE  /\ Filtered(list, places) \in Seq(Entry)
         /\ \E at : /\ Picks(list, Filtered(list, places), at)
                    /\ \A i \in DOMAIN Filtered(list, places) : at[i] \in places
<1> DEFINE f == CHOOSE g : Filters(list, places, Len(list), g)
           n == Len(list)
<1>1. n \in Nat /\ DOMAIN list = 1..n
  OBVIOUS
<1>2. Filters(list, places, n, f)
  BY <1>1, FiltersExist
<1>3. Filtered(list, places) = f[n]
  BY Zenon DEF Filtered, Filters
<1> HIDE DEF f
<1> HIDE DEF n
<1>a. f = [k \in 0..n |-> IF k = 0 THEN <<>>
                         ELSE IF k \in places THEN Append(f[k - 1], list[k]) ELSE f[k - 1]]
  BY <1>2 DEF Filters, n
<1>4. /\ f[0] = <<>>
      /\ \A k \in 0..n : k # 0 => f[k] = IF k \in places THEN Append(f[k - 1], list[k])
                                         ELSE f[k - 1]
  <2> DEFINE now(k) == IF k = 0 THEN <<>>
                       ELSE IF k \in places THEN Append(f[k - 1], list[k]) ELSE f[k - 1]
  <2>1. \A k \in 0..n : f[k] = now(k)
    <3> HIDE DEF now
    <3>1. f = [k \in 0..n |-> now(k)]
      BY <1>a DEF now
    <3>2. QED
      BY <3>1
  <2>2. 0 \in 0..n
    BY <1>1
  <2>3. QED
    BY <2>1, <2>2
<1> DEFINE Fits(k) == \E at : /\ Picks(list, f[k], at)
                              /\ \A i \in DOMAIN f[k] : at[i] \in places /\ at[i] <= k
           P == {k \in Nat : k <= n => f[k] \in Seq(Entry) /\ Fits(k)}
<1>5. 0 \in P
  <2>1. Picks(list, <<>>, <<>>)
    BY DEF Picks
  <2> DEFINE none == <<>>
  <2>2. none \in Seq(Entry) /\ DOMAIN none = {} /\ Picks(list, none, none)
    BY <2>1
  <2> HIDE DEF none
  <2>3. f[0] = none
    BY <1>4 DEF none
  <2>4. f[0] \in Seq(Entry) /\ Fits(0)
    BY <2>2, <2>3
  <2>5. QED
    BY <2>4
<1>6. ASSUME NEW k \in Nat, k \in P PROVE k + 1 \in P
  <2>1. SUFFICES ASSUME k + 1 <= n PROVE f[k + 1] \in Seq(Entry) /\ Fits(k + 1)
    OBVIOUS
  <2>2. k <= n /\ k + 1 \in 0..n /\ k + 1 # 0 /\ (k + 1) - 1 = k /\ k + 1 \in DOMAIN list
    BY <1>1, <2>1
  <2>3. f[k] \in Seq(Entry) /\ Fits(k)
    BY <1>6, <2>2
  <2>4. PICK at : /\ Picks(list, f[k], at)
                  /\ \A i \in DOMAIN f[k] : at[i] \in places /\ at[i] <= k
    BY <2>3
  <2>a. \A i \in DOMAIN f[k] : at[i] \in 1..n
    BY <1>1, <2>4 DEF Picks
  <2>5. f[k + 1] = IF k + 1 \in places THEN Append(f[k], list[k + 1]) ELSE f[k]
    BY <1>4, <2>2
  <2> HIDE DEF P, Fits
  <2>6. CASE k + 1 \notin places
    <3>1. f[k + 1] = f[k]
      BY <2>5, <2>6
    <3>2. \A i \in DOMAIN f[k] : at[i] \in places /\ at[i] <= k + 1
      BY <1>1, <2>4, <2>a
    <3>3. QED
      BY <2>3, <2>4, <3>1, <3>2 DEF Fits
  <2>7. CASE k + 1 \in places
    <3> DEFINE kept == f[k]
               entry == list[k + 1]
               more == Append(kept, entry)
               next == AndThen(at, Len(kept), k + 1)
    <3>1. f[k + 1] = more /\ kept \in Seq(Entry) /\ entry \in Entry
      BY <2>2, <2>3, <2>5, <2>7
    <3>2. \A i \in DOMAIN kept : at[i] < k + 1
      BY <1>1, <2>4, <2>a
    <3>3. Picks(list, more, next)
      <4>1. Picks(list, kept, at) /\ k + 1 \in DOMAIN list
        BY <2>2, <2>4
      <4> HIDE DEF kept
      <4>2. QED
        BY <3>1, <3>2, <4>1, PicksOn
    <3>4. more \in Seq(Entry) /\ DOMAIN more = 1..(Len(kept) + 1) /\ Len(kept) \in Nat
          /\ DOMAIN kept = 1..Len(kept)
      <4> HIDE DEF kept, entry
      <4>1. QED
        BY <3>1
    <3>5. \A i \in DOMAIN more : next[i] \in places /\ next[i] <= k + 1
      <4> HIDE DEF more
      <4>1. \A i \in 1..Len(kept) : at[i] \in places /\ at[i] <= k + 1
        BY <1>1, <2>4, <2>a, <3>4
      <4> HIDE DEF kept
      <4>2. QED
        BY <2>7, <3>4, <4>1 DEF AndThen
    <3> HIDE DEF more, next
    <3>6. QED
      BY <3>1, <3>3, <3>4, <3>5 DEF Fits
  <2>8. QED
    BY <2>6, <2>7
<1> HIDE DEF P, Fits
<1>7. \A k \in Nat : k \in P
  BY <1>5, <1>6, CountsUp
<1>8. f[n] \in Seq(Entry) /\ Fits(n)
  BY <1>1, <1>7 DEF P
<1>9. QED
  BY <1>3, <1>8 DEF Fits

-----------------------------------------------------------------------------
(* Lists of observations: at most one of each second, in their order.      *)
Ordered(list) == \A i, j \in DOMAIN list : i < j => Second(list[i].tick) < Second(list[j].tick)

NotAfter(list, tick) == \A i \in DOMAIN list : list[i].tick \in 0..tick

LEMMA SecondGrows ==
  ASSUME NEW b \in Nat, NEW a \in 0..b
  PROVE  Second(a) \in Int /\ Second(b) \in Int /\ Second(a) <= Second(b)
<1> DEFINE p == Second(a)
           q == Second(b)
           s == StepsPerSecond
<1>1. s \in Nat /\ s > 0 /\ a \in Nat /\ a <= b
  BY PageAssumption
<1>2. /\ p \in Int /\ a % s \in 0..(s - 1) /\ a = s * p + (a % s)
      /\ q \in Int /\ b % s \in 0..(s - 1) /\ b = s * q + (b % s)
  BY <1>1, DivMod DEF Second
<1> HIDE DEF p, q, s
<1>3. p <= q
  <2>1. SUFFICES ASSUME q + 1 <= p PROVE FALSE
    BY <1>2
  <2>2. s * (p - q - 1) >= 0
    BY <1>1, <1>2, <2>1
  <2>3. s * (p - q - 1) = s * p - s * q - s /\ s * p \in Int /\ s * q \in Int
    BY <1>1, <1>2
  <2>4. QED
    BY <1>1, <1>2, <2>2, <2>3
<1>4. QED
  BY <1>2, <1>3 DEF p, q

LEMMA PicksOrdered ==
  ASSUME NEW list, NEW kept, NEW at, Picks(list, kept, at), Ordered(list)
  PROVE  Ordered(kept)
<1>1. SUFFICES ASSUME NEW i \in DOMAIN kept, NEW j \in DOMAIN kept, i < j
               PROVE  Second(kept[i].tick) < Second(kept[j].tick)
  BY DEF Ordered
<1>2. /\ at[i] \in DOMAIN list /\ at[j] \in DOMAIN list /\ at[i] < at[j]
      /\ kept[i] = list[at[i]] /\ kept[j] = list[at[j]]
  BY <1>1 DEF Picks
<1>3. QED
  BY <1>2 DEF Ordered

LEMMA WithFirstAdds ==
  ASSUME NEW Entry, NEW list \in Seq(Entry), NEW entry \in Entry, entry.tick \in Nat,
         NotAfter(list, entry.tick), Ordered(list)
  PROVE  /\ WithFirst(list, entry) \in Seq(Entry) /\ WithFirst(list, entry) # <<>>
         /\ Ordered(WithFirst(list, entry))
         /\ \A i \in DOMAIN WithFirst(list, entry) :
              \/ WithFirst(list, entry)[i] = entry
              \/ \E j \in DOMAIN list : WithFirst(list, entry)[i] = list[j]
<1> DEFINE n == Len(list)
           next == WithFirst(list, entry)
<1>1. n \in Nat /\ DOMAIN list = 1..n /\ (list # <<>> => n >= 1 /\ Last(list) = list[n])
  BY DEF Last
<1>2. CASE list # <<>> /\ Second(Last(list).tick) = Second(entry.tick)
  <2>1. next = list
    BY <1>2 DEF WithFirst
  <2>2. QED
    BY <1>2, <2>1
<1>3. CASE ~(list # <<>> /\ Second(Last(list).tick) = Second(entry.tick))
  <2>1. next = Append(list, entry)
    BY <1>3, Zenon DEF WithFirst
  <2>2. next \in Seq(Entry) /\ DOMAIN next = 1..(n + 1) /\ next[n + 1] = entry
        /\ \A i \in 1..n : next[i] = list[i]
    BY <2>1
  <2>3. ASSUME NEW i \in 1..n PROVE Second(list[i].tick) < Second(entry.tick)
    <3>1. list # <<>> /\ n >= 1 /\ n \in DOMAIN list /\ i \in DOMAIN list /\ Last(list) = list[n]
      BY <1>1, <2>3
    <3>2. list[i].tick \in 0..entry.tick /\ list[n].tick \in 0..entry.tick
      BY <3>1 DEF NotAfter
    <3>3. /\ Second(list[i].tick) \in Int /\ Second(list[n].tick) \in Int
          /\ Second(entry.tick) \in Int /\ Second(list[n].tick) <= Second(entry.tick)
      BY <3>2, SecondGrows
    <3>4. Second(list[n].tick) < Second(entry.tick)
      BY <1>3, <3>1, <3>3
    <3>5. CASE i = n
      BY <3>4, <3>5
    <3>6. CASE i # n
      <4>1. i < n
        <5>1. i \in 1..n /\ n \in Nat /\ i # n
          BY <1>1, <2>3, <3>6
        <5> HIDE DEF n
        <5>2. QED
          BY <5>1
      <4>2. Second(list[i].tick) < Second(list[n].tick)
        BY <3>1, <4>1 DEF Ordered
      <4>3. QED
        BY <3>3, <3>4, <4>2
    <3>7. QED
      BY <3>5, <3>6
  <2> HIDE DEF n, next
  <2>4. \A i \in 1..(n + 1) : i \in 1..n \/ i = n + 1
    BY <1>1
  <2>5. Ordered(next)
    <3>1. SUFFICES ASSUME NEW i \in 1..(n + 1), NEW j \in 1..(n + 1), i < j
                   PROVE  Second(next[i].tick) < Second(next[j].tick)
      BY <2>2 DEF Ordered
    <3>2. i \in 1..n
      BY <1>1, <3>1
    <3>3. CASE j \in 1..n
      BY <1>1, <2>2, <3>1, <3>2, <3>3 DEF Ordered
    <3>4. CASE j = n + 1
      BY <2>2, <2>3, <3>2, <3>4
    <3>5. QED
      BY <2>4, <3>3, <3>4
  <2>6. next # <<>>
    <3>1. n + 1 \in DOMAIN next
      BY <1>1, <2>2
    <3>2. QED
      BY <3>1
  <2>7. QED
    BY <1>1, <2>2, <2>4, <2>5, <2>6 DEF next
<1>4. QED
  BY <1>2, <1>3

\* A list that holds seconds between two others is no longer than their distance.
LEMMA OrderedIsShort ==
  ASSUME NEW list, NEW n \in Nat, DOMAIN list = 1..n, Ordered(list), NEW after \in Int, NEW upto \in Int,
         after <= upto,
         \A i \in DOMAIN list : Second(list[i].tick) \in Int /\ after < Second(list[i].tick)
                                /\ Second(list[i].tick) <= upto
  PROVE  n <= upto - after
<1> DEFINE P == {k \in Nat : k \in 1..n => after + k <= Second(list[k].tick)}
<1>1. 0 \in P
  OBVIOUS
<1>2. ASSUME NEW k \in Nat, k \in P PROVE k + 1 \in P
  <2>1. SUFFICES ASSUME k + 1 \in 1..n PROVE after + (k + 1) <= Second(list[k + 1].tick)
    OBVIOUS
  <2>2. Second(list[k + 1].tick) \in Int /\ after < Second(list[k + 1].tick)
    BY <2>1
  <2>3. CASE k = 0
    BY <2>2, <2>3
  <2>4. CASE k # 0
    <3>1. k \in 1..n /\ k < k + 1
      BY <2>1, <2>4
    <3>2. after + k <= Second(list[k].tick) /\ Second(list[k].tick) \in Int
      BY <1>2, <3>1
    <3>3. Second(list[k].tick) < Second(list[k + 1].tick)
      BY <2>1, <3>1 DEF Ordered
    <3>4. QED
      BY <2>2, <3>2, <3>3
  <2>5. QED
    BY <2>3, <2>4
<1> HIDE DEF P
<1>3. \A k \in Nat : k \in P
  BY <1>1, <1>2, CountsUp
<1>4. CASE n = 0
  BY <1>4
<1>5. CASE n # 0
  <2>1. n \in 1..n
    BY <1>5
  <2>2. after + n <= Second(list[n].tick)
    BY <1>3, <2>1 DEF P
  <2>3. QED
    BY <2>1, <2>2
<1>6. QED
  BY <1>4, <1>5

-----------------------------------------------------------------------------
Anchor == [tick : Nat, observed : Int]
Point == [tick : Nat, rate : {None} \cup (Int \X Int)]

\* The statements of the ticks from one tick to another.
Gain(work, from, to) == UpTo(work, to) - UpTo(work, from)

\* The time that a rate may look back.
Window == WindowSeconds * StepsPerSecond

(* Anchors and history as the last sample left them.  A rate of the history*)
(* is what ran in the ticks it spans.                                      *)
Anchored(anchors, tick, g) ==
  /\ anchors \in Seq(Anchor) /\ anchors # <<>> /\ Ordered(anchors)
  /\ \A i \in DOMAIN anchors :
       /\ anchors[i].tick \in g.since..tick /\ tick - Window <= anchors[i].tick
       /\ anchors[i].observed = Gain(g.work, g.since, anchors[i].tick)

Measured(p, work) ==
  p.rate # None => /\ p.rate[2] \in 0..p.tick /\ p.rate[2] <= Window
                   /\ p.rate[1] = Gain(work, p.tick - p.rate[2], p.tick)

Charted(history, tick, work) ==
  /\ history \in Seq(Point) /\ history # <<>> /\ Ordered(history)
  /\ \A i \in DOMAIN history :
       /\ history[i].tick <= tick /\ Second(history[i].tick) > Second(tick) - HistorySeconds
       /\ Measured(history[i], work)

(* A dashboard whose last sample lies at or before this tick.              *)
Seen(d, tick, g) ==
  /\ d.previous \in [tick : Nat, statements : Nat] /\ g.since \in 0..d.previous.tick
  /\ d.previous.tick <= tick
  /\ d.observed = Gain(g.work, g.since, d.previous.tick)
  /\ Anchored(d.anchors, d.previous.tick, g)
  /\ Charted(d.history, d.previous.tick, g.work)

\* The counter gained what the background load ran since that sample.
Matches(d, c, m, g) ==
  m.statements - d.previous.statements = Gain(g.work, d.previous.tick, c.tick)

LEMMA WindowIsNat == Window \in Nat /\ HistorySeconds \in Nat \ {0} /\ StepsPerSecond \in Nat \ {0}
<1>1. WindowSeconds \in Nat /\ StepsPerSecond \in Nat \ {0} /\ HistorySeconds \in Nat \ {0}
  BY PageAssumption
<1>2. QED
  BY <1>1 DEF Window

-----------------------------------------------------------------------------
(* What an engine that goes on leaves of what the dashboard saw.           *)
LEMMA GainKept ==
  ASSUME NEW e, Extends(e), NEW from \in 0..clock.tick, NEW to \in 0..clock.tick
  PROVE  Gain(e.ghost.work, from, to) = Gain(ghost.work, from, to)
  BY DEF Extends, Adds, Gain

LEMMA SeenLater ==
  ASSUME NEW d, NEW e, Timely(clock, ghost), Timely(e.clock, e.ghost), Extends(e),
         Seen(d, clock.tick, ghost)
  PROVE  Seen(d, e.clock.tick, e.ghost)
<1> DEFINE last == d.previous.tick
           since == ghost.since
<1>1. /\ clock.tick \in Nat /\ e.clock.tick \in Nat /\ clock.tick <= e.clock.tick
      /\ e.ghost.since = since
  BY RecordKept DEF Extends
<1>2. /\ d.previous \in [tick : Nat, statements : Nat] /\ since \in 0..last /\ last <= clock.tick
      /\ d.observed = Gain(ghost.work, since, last)
      /\ Anchored(d.anchors, last, ghost) /\ Charted(d.history, last, ghost.work)
  BY DEF Seen
<1>3. last \in Nat
  BY <1>2
<1> HIDE DEF last, since
<1>4. last \in 0..clock.tick /\ since \in 0..clock.tick /\ last <= e.clock.tick /\ since \in Nat
  BY <1>1, <1>2, <1>3
<1>5. d.observed = Gain(e.ghost.work, since, last)
  BY <1>2, <1>4, GainKept
<1>6. Anchored(d.anchors, last, e.ghost)
  <2>1. ASSUME NEW i \in DOMAIN d.anchors
        PROVE  d.anchors[i].observed = Gain(e.ghost.work, since, d.anchors[i].tick)
    <3> DEFINE tick == d.anchors[i].tick
    <3>1. tick \in since..last /\ d.anchors[i].observed = Gain(ghost.work, since, tick)
      BY <1>2 DEF Anchored, since
    <3> HIDE DEF tick
    <3>2. tick \in 0..clock.tick
      <4> DEFINE now == clock.tick
      <4>1. now \in Nat /\ last \in 0..now /\ since \in Nat
        BY <1>1, <1>4
      <4> HIDE DEF now
      <4>2. tick \in 0..now
        BY <3>1, <4>1
      <4>3. QED
        BY <4>2 DEF now
    <3>3. QED
      BY <1>4, <3>1, <3>2, GainKept DEF tick
  <2>2. QED
    BY <1>1, <1>2, <2>1 DEF Anchored, since
<1>7. Charted(d.history, last, e.ghost.work)
  <2>1. ASSUME NEW i \in DOMAIN d.history PROVE Measured(d.history[i], e.ghost.work)
    <3> DEFINE p == d.history[i]
               tick == p.tick
               back == p.rate[2]
    <3>1. p \in Point /\ tick <= last /\ Measured(p, ghost.work)
      BY <1>2 DEF Charted
    <3>2. tick \in Nat
      BY <3>1 DEF Point
    <3> SUFFICES ASSUME p.rate # None
                 PROVE  back \in 0..tick /\ back <= Window /\ p.rate[1] = Gain(e.ghost.work, tick - back, tick)
      BY DEF Measured
    <3>3. back \in 0..tick /\ back <= Window /\ p.rate[1] = Gain(ghost.work, tick - back, tick)
      BY <3>1 DEF Measured
    <3> HIDE DEF p, tick, back
    <3>4. tick \in 0..clock.tick /\ tick - back \in 0..clock.tick
      <4> DEFINE now == clock.tick
      <4>1. now \in Nat /\ last \in 0..now
        BY <1>1, <1>4
      <4> HIDE DEF now
      <4>2. tick \in 0..now /\ tick - back \in 0..now
        BY <3>1, <3>2, <3>3, <4>1
      <4>3. QED
        BY <4>2 DEF now
    <3>5. QED
      BY <3>3, <3>4, GainKept
  <2>2. QED
    BY <1>2, <2>1 DEF Charted
<1>8. QED
  BY <1>1, <1>2, <1>4, <1>5, <1>6, <1>7 DEF Seen, last, since

LEMMA MatchesLater ==
  ASSUME NEW d, NEW e, Timely(clock, ghost), Timely(e.clock, e.ghost), Extends(e),
         metrics.statements \in Nat, e.metrics.statements \in Nat,
         Seen(d, clock.tick, ghost), Matches(d, clock, metrics, ghost)
  PROVE  Matches(d, e.clock, e.metrics, e.ghost)
<1> DEFINE last == d.previous.tick
           was == d.previous.statements
           counted == metrics.statements
           counts == e.metrics.statements
           atLast == UpTo(ghost.work, last)
           atClock == UpTo(ghost.work, clock.tick)
           atNext == UpTo(e.ghost.work, e.clock.tick)
<1>1. last \in Nat /\ was \in Nat /\ last <= clock.tick
  BY DEF Seen
<1>2. /\ clock.tick \in Nat /\ e.clock.tick \in Nat /\ last \in 0..clock.tick
      /\ \A tick \in 0..clock.tick : UpTo(ghost.work, tick) \in Nat
      /\ \A tick \in 0..e.clock.tick : UpTo(e.ghost.work, tick) \in Nat
  BY <1>1, RecordKept
<1>3. atLast \in Nat /\ atClock \in Nat /\ atNext \in Nat /\ counted \in Nat /\ counts \in Nat
  <2>1. clock.tick \in 0..clock.tick /\ e.clock.tick \in 0..e.clock.tick
    BY <1>2
  <2>2. QED
    BY <1>2, <2>1
<1>4. counted - was = atClock - atLast
  BY DEF Matches, Gain
<1>5. counts - counted = atNext - atClock /\ UpTo(e.ghost.work, last) = atLast
  BY <1>2 DEF Extends, Adds
<1> HIDE DEF last, was, counted, counts, atLast, atClock, atNext
<1>6. counts - was = atNext - atLast
  BY <1>1, <1>3, <1>4, <1>5
<1>7. QED
  BY <1>5, <1>6 DEF Matches, Gain, counts, was, atNext, last

-----------------------------------------------------------------------------
(* sample, for a dashboard that was sampled before.  Statements that were  *)
(* counted while model time stood still are not the load's.                *)
Counts(d, e, g) ==
  \/ Matches(d, e.clock, e.metrics, g)
  \/ d.previous.tick = e.clock.tick /\ d.previous.statements <= e.metrics.statements

LEMMA NoRollback ==
  ASSUME NEW d, NEW e, NEW g, Timely(e.clock, g), e.metrics.statements \in Nat,
         Seen(d, e.clock.tick, g), Counts(d, e, g)
  PROVE  d.previous # None /\ ~HasRollback(d.previous, e)
<1> DEFINE last == d.previous.tick
           was == d.previous.statements
           tick == e.clock.tick
           counts == e.metrics.statements
<1>1. /\ d.previous \in [tick : Nat, statements : Nat] /\ last \in Nat /\ was \in Nat /\ last <= tick
  BY DEF Seen
<1>2. d.previous # None
  BY <1>1, PageAssumption
<1>3. tick \in Nat /\ counts \in Nat
  BY RecordKept
<1>4. was <= counts
  <2>1. CASE Matches(d, e.clock, e.metrics, g)
    <3>1. last \in 0..tick /\ tick \in 0..Len(g.work) /\ tick \in 0..tick
      BY <1>1, <1>3, RecordKept
    <3>2. UpTo(g.work, last) <= UpTo(g.work, tick)
      BY <3>1, RecordKept DEF Grows
    <3>3. UpTo(g.work, last) \in Nat /\ UpTo(g.work, tick) \in Nat
      BY <3>1, RecordKept
    <3>4. counts - was = UpTo(g.work, tick) - UpTo(g.work, last)
      BY <2>1 DEF Matches, Gain
    <3> DEFINE a == UpTo(g.work, last)
               b == UpTo(g.work, tick)
    <3>5. a \in Nat /\ b \in Nat /\ a <= b /\ counts - was = b - a
      BY <3>2, <3>3, <3>4
    <3> HIDE DEF a, b, counts, was
    <3>6. QED
      BY <1>1, <1>3, <3>5
  <2>2. CASE d.previous.statements <= e.metrics.statements
    BY <2>2
  <2>3. QED
    BY <2>1, <2>2 DEF Counts
<1> HIDE DEF last, was, tick, counts
<1>5. ~(tick < last) /\ ~(counts < was)
  BY <1>1, <1>3, <1>4
<1>6. QED
  BY <1>2, <1>5 DEF HasRollback, last, was, tick, counts

LEMMA CountedGains ==
  ASSUME NEW d, NEW e, NEW g, Timely(e.clock, g), e.metrics.statements \in Nat,
         Seen(d, e.clock.tick, g), Counts(d, e, g)
  PROVE  Counted(d, e) = Gain(g.work, g.since, e.clock.tick)
<1> DEFINE last == d.previous.tick
           was == d.previous.statements
           tick == e.clock.tick
           counts == e.metrics.statements
           since == g.since
           atSince == UpTo(g.work, since)
           atLast == UpTo(g.work, last)
           atTick == UpTo(g.work, tick)
<1>1. /\ last \in Nat /\ was \in Nat /\ last <= tick /\ since \in 0..last
      /\ d.observed = Gain(g.work, since, last)
  BY DEF Seen
<1>2. tick \in Nat /\ counts \in Nat /\ \A t \in 0..tick : UpTo(g.work, t) \in Nat
  BY RecordKept
<1>3. d.previous # None
  BY NoRollback
<1>4. Counted(d, e) = IF tick > last THEN d.observed + counts - was ELSE d.observed
  BY <1>3 DEF Counted
<1>5. d.observed = atLast - atSince /\ Gain(g.work, since, tick) = atTick - atSince
  BY <1>1 DEF Gain
<1>6. tick > last => counts - was = atTick - atLast
  <2>1. SUFFICES ASSUME tick > last PROVE counts - was = atTick - atLast
    OBVIOUS
  <2>2. last # tick
    BY <1>1, <1>2, <2>1
  <2>3. Matches(d, e.clock, e.metrics, g)
    BY <2>2 DEF Counts
  <2>4. QED
    BY <2>3 DEF Matches, Gain
<1> HIDE DEF last, was, tick, counts, since
<1>7. last \in 0..tick /\ since \in 0..tick /\ tick \in 0..tick
  BY <1>1, <1>2
<1>8. atSince \in Nat /\ atLast \in Nat /\ atTick \in Nat
  BY <1>2, <1>7
<1>9. tick = last => atTick = atLast
  OBVIOUS
<1> HIDE DEF atSince, atLast, atTick
<1>10. Counted(d, e) = atTick - atSince
  BY <1>1, <1>2, <1>4, <1>5, <1>6, <1>8, <1>9
<1>11. QED
  BY <1>5, <1>10 DEF since, tick

\* The anchors that are recent enough, and a new one for a new second.
LEMMA AnchoredOn ==
  ASSUME NEW anchors, NEW last, NEW tick \in Nat, last \in 0..tick, NEW g, g.since \in 0..last,
         Anchored(anchors, last, g), NEW observed \in Int, observed = Gain(g.work, g.since, tick)
  PROVE  Anchored(WithFirst(Filtered(anchors, RecentAnchors(anchors, tick)),
                            [tick |-> tick, observed |-> observed]), tick, g)
<1> DEFINE kept == Filtered(anchors, RecentAnchors(anchors, tick))
           entry == [tick |-> tick, observed |-> observed]
           next == WithFirst(kept, entry)
           since == g.since
<1>1. /\ anchors \in Seq(Anchor) /\ Ordered(anchors)
      /\ \A i \in DOMAIN anchors :
           /\ anchors[i].tick \in since..last
           /\ anchors[i].observed = Gain(g.work, since, anchors[i].tick)
  BY DEF Anchored
<1>2. kept \in Seq(Anchor)
  BY <1>1, FilteredPicks
<1>3. PICK at : Picks(anchors, kept, at) /\ \A i \in DOMAIN kept : at[i] \in RecentAnchors(anchors, tick)
  BY <1>1, FilteredPicks
<1> HIDE DEF kept
<1>4. ASSUME NEW i \in DOMAIN kept
      PROVE  /\ kept[i].tick \in since..last /\ tick - Window <= kept[i].tick
             /\ kept[i].observed = Gain(g.work, since, kept[i].tick)
  <2> DEFINE a == anchors[at[i]]
  <2>1. kept[i] = a /\ at[i] \in DOMAIN anchors /\ at[i] \in RecentAnchors(anchors, tick)
    BY <1>3 DEF Picks
  <2>2. a.tick \in since..last /\ a.observed = Gain(g.work, since, a.tick)
    BY <1>1, <2>1
  <2>3. a.tick >= tick - Window
    BY <2>1 DEF RecentAnchors, Window
  <2> HIDE DEF a
  <2> DEFINE t == a.tick
  <2>4. t \in Int /\ t >= tick - Window
    BY <2>2, <2>3
  <2> HIDE DEF t
  <2>5. tick - Window <= t
    BY <2>4, WindowIsNat
  <2>6. QED
    BY <2>1, <2>2, <2>5 DEF t
<1>5. since \in Nat /\ since \in 0..tick /\ last \in Nat
  BY DEF since
<1> HIDE DEF since
<1>6. Ordered(kept)
  BY <1>1, <1>3, PicksOrdered
<1>7. NotAfter(kept, tick)
  <2>1. ASSUME NEW i \in DOMAIN kept PROVE kept[i].tick \in 0..tick
    <3> DEFINE t == kept[i].tick
    <3>1. t \in since..last
      BY <1>4, <2>1
    <3> HIDE DEF t
    <3>2. t \in 0..tick
      BY <1>5, <3>1
    <3>3. QED
      BY <3>2 DEF t
  <2>2. QED
    BY <2>1 DEF NotAfter
<1>8. entry \in Anchor /\ entry.tick = tick /\ entry.observed = observed
  BY DEF Anchor
<1> HIDE DEF entry
<1>9. /\ next \in Seq(Anchor) /\ next # <<>> /\ Ordered(next)
      /\ \A i \in DOMAIN next : next[i] = entry \/ \E j \in DOMAIN kept : next[i] = kept[j]
  BY <1>2, <1>6, <1>7, <1>8, WithFirstAdds
<1> HIDE DEF next
<1>10. ASSUME NEW i \in DOMAIN next
       PROVE  /\ next[i].tick \in since..tick /\ tick - Window <= next[i].tick
              /\ next[i].observed = Gain(g.work, since, next[i].tick)
  <2>1. CASE next[i] = entry
    <3>1. tick \in since..tick /\ tick - Window <= tick
      BY <1>5, WindowIsNat
    <3>2. observed = Gain(g.work, since, tick)
      BY DEF since
    <3>3. QED
      BY <1>8, <2>1, <3>1, <3>2
  <2>2. CASE next[i] # entry
    <3>1. PICK j \in DOMAIN kept : next[i] = kept[j]
      BY <1>9, <1>10, <2>2
    <3> DEFINE t == kept[j].tick
    <3>2. t \in since..last
      BY <1>4
    <3> HIDE DEF t
    <3>3. t \in since..tick
      BY <1>5, <3>2
    <3>4. QED
      BY <1>4, <3>1, <3>3 DEF t
  <2>3. QED
    BY <2>1, <2>2
<1>11. Anchored(next, tick, g)
  BY <1>9, <1>10 DEF Anchored, since
<1>12. QED
  BY <1>11 DEF next, kept, entry

\* A rate is measured from the oldest anchor.
LEMMA RateMeasures ==
  ASSUME NEW tick \in Nat, NEW g, g.since \in 0..tick, NEW anchors, Anchored(anchors, tick, g),
         NEW observed \in Int, observed = Gain(g.work, g.since, tick),
         \A t \in 0..tick : UpTo(g.work, t) \in Nat
  PROVE  LET p == [tick |-> tick, rate |-> Rate(observed, tick, Head(anchors))]
         IN  p \in Point /\ Measured(p, g.work)
<1> DEFINE a == anchors[1]
           from == a.tick
           had == a.observed
           since == g.since
<1>1. 1 \in DOMAIN anchors /\ Head(anchors) = a /\ anchors \in Seq(Anchor)
  BY DEF Anchored
<1>2. /\ from \in since..tick /\ tick - Window <= from /\ had = Gain(g.work, since, from)
  BY <1>1 DEF Anchored
<1>3. Rate(observed, tick, Head(anchors)) = IF tick = from THEN None ELSE <<observed - had, tick - from>>
  BY <1>1 DEF Rate
<1>4. since \in Nat /\ since <= tick
  OBVIOUS
<1>5. observed = Gain(g.work, since, tick)
  OBVIOUS
<1> HIDE DEF a, from, had, since
<1>6. from \in 0..tick /\ since \in 0..tick /\ tick \in 0..tick
  BY <1>2, <1>4
<1>7. observed - had = Gain(g.work, from, tick) /\ had \in Int
  <2> DEFINE x == UpTo(g.work, since)
             y == UpTo(g.work, from)
             z == UpTo(g.work, tick)
  <2>1. x \in Nat /\ y \in Nat /\ z \in Nat
    BY <1>6
  <2>2. observed = z - x /\ had = y - x /\ Gain(g.work, from, tick) = z - y
    BY <1>2, <1>5 DEF Gain
  <2> HIDE DEF x, y, z
  <2>3. QED
    BY <2>1, <2>2
<1> DEFINE count == observed - had
           back == tick - from
           shown == Rate(observed, tick, Head(anchors))
           p == [tick |-> tick, rate |-> shown]
<1>8. count \in Int /\ back \in Int /\ back \in 0..tick /\ tick - back = from /\ back <= Window
  BY <1>2, <1>6, <1>7, WindowIsNat
<1>9. count = Gain(g.work, tick - back, tick)
  BY <1>7, <1>8
<1>10. shown = None \/ shown = <<count, back>>
  BY <1>3
<1> HIDE DEF count, back, shown
<1>11. p \in Point
  BY <1>8, <1>10 DEF Point
<1>12. p.tick = tick /\ p.rate = shown
  OBVIOUS
<1> HIDE DEF p
<1>13. Measured(p, g.work)
  BY <1>8, <1>9, <1>10, <1>12 DEF Measured
<1>14. QED
  BY <1>11, <1>13 DEF p, shown

\* The points that are recent enough, and a new one for a new second.
LEMMA ChartedOn ==
  ASSUME NEW history, NEW last, NEW tick \in Nat, last \in 0..tick, NEW work,
         Charted(history, last, work), NEW p \in Point, p.tick = tick, Measured(p, work)
  PROVE  Charted(WithFirst(Filtered(history, RecentPoints(history, tick)), p), tick, work)
<1> DEFINE kept == Filtered(history, RecentPoints(history, tick))
           next == WithFirst(kept, p)
<1>1. /\ history \in Seq(Point) /\ Ordered(history)
      /\ \A i \in DOMAIN history : history[i].tick <= last /\ Measured(history[i], work)
  BY DEF Charted
<1>2. kept \in Seq(Point)
  BY <1>1, FilteredPicks
<1>3. PICK at : Picks(history, kept, at) /\ \A i \in DOMAIN kept : at[i] \in RecentPoints(history, tick)
  BY <1>1, FilteredPicks
<1> HIDE DEF kept
<1>4. ASSUME NEW i \in DOMAIN kept
      PROVE  /\ kept[i].tick \in 0..tick /\ Second(kept[i].tick) > Second(tick) - HistorySeconds
             /\ Measured(kept[i], work)
  <2> DEFINE q == history[at[i]]
             t == q.tick
  <2>1. kept[i] = q /\ at[i] \in DOMAIN history /\ at[i] \in RecentPoints(history, tick)
    BY <1>3 DEF Picks
  <2>2. t <= last /\ Measured(q, work) /\ Second(t) > Second(tick) - HistorySeconds
    BY <1>1, <2>1 DEF RecentPoints
  <2>a. q \in Point
    BY <1>1, <2>1
  <2> HIDE DEF q
  <2>3. t \in Nat
    BY <2>a DEF Point
  <2> HIDE DEF t
  <2>4. t \in 0..tick
    BY <2>2, <2>3
  <2>5. QED
    BY <2>1, <2>2, <2>4 DEF t
<1>5. Ordered(kept)
  BY <1>1, <1>3, PicksOrdered
<1>6. NotAfter(kept, tick)
  BY <1>4 DEF NotAfter
<1>7. /\ next \in Seq(Point) /\ next # <<>> /\ Ordered(next)
      /\ \A i \in DOMAIN next : next[i] = p \/ \E j \in DOMAIN kept : next[i] = kept[j]
  BY <1>2, <1>5, <1>6, WithFirstAdds
<1> HIDE DEF next
<1>8. ASSUME NEW i \in DOMAIN next
      PROVE  /\ next[i].tick <= tick /\ Second(next[i].tick) > Second(tick) - HistorySeconds
             /\ Measured(next[i], work)
  <2>1. CASE next[i] = p
    <3>1. Second(tick) \in Int
      BY SecondGrows
    <3>2. Second(tick) > Second(tick) - HistorySeconds
      BY <3>1, WindowIsNat
    <3>3. QED
      BY <2>1, <3>2
  <2>2. CASE next[i] # p
    <3>1. PICK j \in DOMAIN kept : next[i] = kept[j]
      BY <1>7, <1>8, <2>2
    <3>2. QED
      BY <1>4, <3>1
  <2>3. QED
    BY <2>1, <2>2
<1>9. QED
  BY <1>7, <1>8 DEF Charted, next, kept

(* sample.                                                                 *)
LEMMA SampleSees ==
  ASSUME NEW d, NEW e, NEW g, Timely(e.clock, g), e.metrics.statements \in Nat,
         Seen(d, e.clock.tick, g), Counts(d, e, g)
  PROVE  /\ Seen(Sample(d, e), e.clock.tick, g) /\ Matches(Sample(d, e), e.clock, e.metrics, g)
         /\ Sample(d, e).previous = [tick |-> e.clock.tick, statements |-> e.metrics.statements]
<1> DEFINE last == d.previous.tick
           tick == e.clock.tick
           counts == e.metrics.statements
           since == g.since
           observed == Counted(d, e)
           anchors == WithFirst(Filtered(d.anchors, RecentAnchors(d.anchors, tick)),
                                [tick |-> tick, observed |-> observed])
           point == [tick |-> tick, rate |-> Rate(observed, tick, Head(anchors))]
           history == WithFirst(Filtered(d.history, RecentPoints(d.history, tick)), point)
           next == Sample(d, e)
<1>1. /\ last \in Nat /\ last <= tick /\ since \in 0..last
      /\ Anchored(d.anchors, last, g) /\ Charted(d.history, last, g.work)
  BY DEF Seen
<1>2. tick \in Nat /\ \A t \in 0..tick : UpTo(g.work, t) \in Nat
  BY RecordKept
<1>3. next = [previous |-> [tick |-> tick, statements |-> counts], observed |-> observed,
              anchors |-> anchors, history |-> history]
  <2>1. ~(d.previous # None /\ HasRollback(d.previous, e))
    BY NoRollback
  <2>2. QED
    BY <2>1 DEF Sample
<1>4. observed = Gain(g.work, since, tick)
  BY CountedGains
<1>5. next.previous = [tick |-> tick, statements |-> counts] /\ next.observed = observed
      /\ next.anchors = anchors /\ next.history = history
  BY <1>3
<1>6. tick \in 0..tick /\ last \in 0..tick /\ since \in 0..tick /\ since \in Nat
  <2> HIDE DEF last, tick, since
  <2>1. QED
    BY <1>1, <1>2
<1>7. observed \in Int
  <2>1. UpTo(g.work, since) \in Nat /\ UpTo(g.work, tick) \in Nat
    BY <1>2, <1>6
  <2>2. QED
    BY <1>4, <2>1 DEF Gain
<1> HIDE DEF last, tick, observed, next, history
<1>8. Anchored(anchors, tick, g)
  BY <1>1, <1>2, <1>4, <1>6, <1>7, AnchoredOn
<1> HIDE DEF anchors
<1>9. point \in Point /\ Measured(point, g.work) /\ point.tick = tick
  BY <1>2, <1>4, <1>6, <1>7, <1>8, RateMeasures
<1> HIDE DEF point
<1>10. Charted(history, tick, g.work)
  BY <1>1, <1>2, <1>6, <1>9, ChartedOn DEF history
<1>11. counts \in Nat
  OBVIOUS
<1> HIDE DEF counts
<1>12. /\ next.previous \in [tick : Nat, statements : Nat]
       /\ next.previous.tick = tick /\ next.previous.statements = counts
  BY <1>2, <1>5, <1>11
<1>13. Seen(next, tick, g)
  <2>1. tick <= tick
    BY <1>2
  <2>2. QED
    BY <1>4, <1>5, <1>6, <1>8, <1>10, <1>12, <2>1 DEF Seen, since
<1>14. counts - counts = Gain(g.work, tick, tick)
  <2>1. UpTo(g.work, tick) \in Nat
    BY <1>2, <1>6
  <2>2. QED
    BY <1>11, <2>1 DEF Gain
<1>15. Matches(next, e.clock, e.metrics, g)
  BY <1>12, <1>14 DEF Matches, counts, tick
<1>16. QED
  BY <1>5, <1>13, <1>15 DEF next, tick, counts

\* A dashboard that begins where nothing has run yet.
LEMMA FreshSees ==
  ASSUME NEW e, e.clock.tick = 0, e.metrics.statements \in Nat,
         NEW g, g.since = 0, g.work = <<>>
  PROVE  Seen(Sample(Fresh, e), 0, g) /\ Matches(Sample(Fresh, e), e.clock, e.metrics, g)
<1> DEFINE counts == e.metrics.statements
           anchor == [tick |-> 0, observed |-> 0]
           point == [tick |-> 0, rate |-> None]
           next == Sample(Fresh, e)
           none == <<>>
<1>1. Filtered(<<>>, RecentAnchors(<<>>, 0)) = <<>> /\ Filtered(<<>>, RecentPoints(<<>>, 0)) = <<>>
  <2>1. ASSUME NEW places PROVE Filtered(<<>>, places) = <<>>
    <3>1. none \in Seq({})
      OBVIOUS
    <3> HIDE DEF none
    <3>2. Filtered(none, places) \in Seq({})
      BY <3>1, FilteredPicks
    <3> DEFINE kept == Filtered(none, places)
    <3>3. kept \in Seq({})
      BY <3>2
    <3> HIDE DEF kept
    <3>4. kept = <<>>
      BY <3>3
    <3>5. QED
      BY <3>4 DEF kept, none
  <2>2. QED
    BY <2>1
<1>2. \A entry : WithFirst(<<>>, entry) = <<entry>>
  BY DEF WithFirst
<1>3. /\ Fresh.previous = None /\ Fresh.observed = 0 /\ Fresh.anchors = <<>> /\ Fresh.history = <<>>
  BY DEF Fresh
<1>4. Counted(Fresh, e) = 0
  BY <1>3 DEF Counted
<1>5. Rate(0, 0, Head(<<anchor>>)) = None
  BY DEF Rate
<1>6. next = [previous |-> [tick |-> 0, statements |-> counts], observed |-> 0,
              anchors |-> <<anchor>>, history |-> <<point>>]
  <2>1. ~(Fresh.previous # None /\ HasRollback(Fresh.previous, e))
    BY <1>3
  <2>2. QED
    BY <1>1, <1>2, <1>3, <1>4, <1>5, <2>1 DEF Sample
<1>7. next.previous = [tick |-> 0, statements |-> counts] /\ next.observed = 0
      /\ next.anchors = <<anchor>> /\ next.history = <<point>>
  BY <1>6
<1>8. Gain(g.work, 0, 0) = 0 /\ counts \in Nat
  BY DEF Gain, UpTo
<1> HIDE DEF next
<1>9. Anchored(<<anchor>>, 0, g)
  <2> DEFINE list == <<anchor>>
  <2>1. anchor \in Anchor
    BY DEF Anchor
  <2>2. list \in Seq(Anchor) /\ list # <<>> /\ DOMAIN list = {1} /\ list[1] = anchor
    BY <2>1
  <2>3. anchor.tick = 0 /\ anchor.observed = 0
    OBVIOUS
  <2> HIDE DEF list, anchor
  <2>4. Ordered(list)
    BY <2>2 DEF Ordered
  <2>5. 0 \in 0..0 /\ 0 - Window <= 0
    BY WindowIsNat
  <2>6. Anchored(list, 0, g)
    BY <1>8, <2>2, <2>3, <2>4, <2>5 DEF Anchored
  <2>7. QED
    BY <2>6 DEF list
<1>10. Charted(<<point>>, 0, g.work)
  <2> DEFINE list == <<point>>
  <2>1. point \in Point
    BY DEF Point
  <2>2. list \in Seq(Point) /\ list # <<>> /\ DOMAIN list = {1} /\ list[1] = point
    BY <2>1
  <2>3. point.tick = 0 /\ point.rate = None
    OBVIOUS
  <2> HIDE DEF list, point
  <2>4. Ordered(list)
    BY <2>2 DEF Ordered
  <2>5. 0 <= 0 /\ Second(0) > Second(0) - HistorySeconds
    <3>1. Second(0) \in Int
      BY SecondGrows
    <3>2. QED
      BY <3>1, WindowIsNat
  <2>6. Charted(list, 0, g.work)
    BY <2>2, <2>3, <2>4, <2>5 DEF Charted, Measured
  <2>7. QED
    BY <2>6 DEF list
<1>11. /\ next.previous \in [tick : Nat, statements : Nat]
       /\ next.previous.tick = 0 /\ next.previous.statements = counts
  BY <1>7, <1>8
<1>12. Seen(next, 0, g)
  <2>1. 0 <= 0 /\ 0 \in 0..0
    OBVIOUS
  <2>2. QED
    BY <1>7, <1>8, <1>9, <1>10, <1>11, <2>1 DEF Seen
<1>13. Matches(next, e.clock, e.metrics, g)
  BY <1>8, <1>11 DEF Matches
<1>14. QED
  BY <1>12, <1>13 DEF next

-----------------------------------------------------------------------------
(* What the dashboard shows is what ran, and it knows of all that ran.     *)
Watching == Seen(dash, clock.tick, ghost) /\ Matches(dash, clock, metrics, ghost)

OneTrace == traces.current = traces.last /\ traces.city = traces.last

LEMMA WatchingIsHonest == ASSUME PageInv, Watching, OneTrace PROVE DashboardIsHonest
<1> DEFINE last == dash.previous.tick
           since == ghost.since
           anchors == dash.anchors
           history == dash.history
<1>1. /\ last \in Nat /\ last <= clock.tick /\ since \in 0..last
      /\ dash.observed = Gain(ghost.work, since, last)
      /\ Anchored(anchors, last, ghost) /\ Charted(history, last, ghost.work)
  BY DEF Watching, Seen
<1> HIDE DEF last, anchors, history
<1>2. since <= last /\ dash.observed = Background(since, last)
  BY <1>1 DEF Gain, Background
<1>3. ASSUME NEW i \in DOMAIN anchors
      PROVE  /\ anchors[i].observed = Background(since, anchors[i].tick)
             /\ anchors[i].tick \in (last - WindowSeconds * StepsPerSecond)..last
             /\ i > 1 => Second(anchors[i - 1].tick) < Second(anchors[i].tick)
  <2> DEFINE tick == anchors[i].tick
  <2>1. /\ anchors \in Seq(Anchor) /\ Ordered(anchors) /\ tick \in since..last
        /\ last - Window <= tick /\ anchors[i].observed = Gain(ghost.work, since, tick)
    BY <1>1 DEF Anchored
  <2>2. i > 1 => i - 1 \in DOMAIN anchors /\ i - 1 < i
    BY <2>1
  <2>3. i > 1 => Second(anchors[i - 1].tick) < Second(tick)
    BY <2>1, <2>2 DEF Ordered
  <2> HIDE DEF tick, since
  <2>4. since \in Nat
    BY <1>1
  <2>5. tick \in (last - Window)..last
    BY <1>1, <2>1, <2>4, WindowIsNat
  <2>6. QED
    BY <2>1, <2>3, <2>5 DEF Gain, Background, Window, tick, since
<1>4. Len(history) \in 1..HistorySeconds
  <2> DEFINE n == Len(history)
             upto == Second(last)
             after == upto - HistorySeconds
  <2>1. /\ history \in Seq(Point) /\ history # <<>> /\ Ordered(history)
        /\ \A i \in DOMAIN history : history[i].tick <= last /\ Second(history[i].tick) > after
    BY <1>1 DEF Charted
  <2>2. n \in Nat /\ n # 0 /\ DOMAIN history = 1..n
    BY <2>1
  <2>3. upto \in Int /\ after \in Int /\ after <= upto /\ HistorySeconds \in Nat
        /\ upto - after = HistorySeconds
    <3>1. last \in 0..last
      BY <1>1
    <3>2. upto \in Int
      BY <1>1, <3>1, SecondGrows
    <3> HIDE DEF upto
    <3>3. QED
      BY <3>2, WindowIsNat
  <2> HIDE DEF n, after
  <2>4. ASSUME NEW i \in DOMAIN history
        PROVE  /\ Second(history[i].tick) \in Int /\ after < Second(history[i].tick)
               /\ Second(history[i].tick) <= upto
    <3> DEFINE p == history[i]
               tick == p.tick
    <3>1. p \in Point /\ tick <= last
      BY <2>1
    <3> HIDE DEF p
    <3>2. tick \in Nat
      BY <3>1 DEF Point
    <3>3. tick \in 0..last
      <4> HIDE DEF tick
      <4>1. QED
        BY <1>1, <3>1, <3>2
    <3>4. Second(tick) \in Int /\ Second(tick) <= upto
      BY <1>1, <3>3, SecondGrows
    <3>5. Second(tick) > after
      BY <2>1 DEF p
    <3>6. QED
      BY <2>3, <3>4, <3>5 DEF p
  <2> HIDE DEF upto
  <2>5. n <= upto - after
    BY <2>1, <2>2, <2>3, <2>4, OrderedIsShort
  <2>6. n \in 1..HistorySeconds
    BY <2>2, <2>3, <2>5
  <2>7. QED
    BY <2>6 DEF n
<1>5. ASSUME NEW i \in DOMAIN history
      PROVE  /\ history[i].tick <= last
             /\ i > 1 => Second(history[i - 1].tick) < Second(history[i].tick)
             /\ history[i].rate # None =>
                  /\ history[i].rate[1]
                       = Background(history[i].tick - history[i].rate[2], history[i].tick)
                  /\ history[i].rate[2] <= WindowSeconds * StepsPerSecond
  <2>1. /\ history \in Seq(Point) /\ Ordered(history) /\ history[i].tick <= last
        /\ Measured(history[i], ghost.work)
    BY <1>1 DEF Charted
  <2>2. i > 1 => i - 1 \in DOMAIN history /\ i - 1 < i
    BY <2>1
  <2>3. i > 1 => Second(history[i - 1].tick) < Second(history[i].tick)
    BY <2>1, <2>2 DEF Ordered
  <2>4. QED
    BY <2>1, <2>3 DEF Measured, Gain, Background, Window
<1>6. QED
  BY <1>1, <1>2, <1>3, <1>4, <1>5 DEF DashboardIsHonest, OneTrace, last, since, anchors, history

-----------------------------------------------------------------------------
(* A sample of the state that the engine comes to.                         *)
LEMMA UpdateSees ==
  ASSUME NEW d, NEW e, Timely(e.clock, e.ghost), e.metrics.statements \in Nat,
         Seen(d, e.clock.tick, e.ghost), Counts(d, e, e.ghost), UpdateDashboard(d, e), Engine(e)
  PROVE  Watching'
<1>1. dash' = Sample(d, e) /\ ghost' = e.ghost
  BY NoRollback DEF UpdateDashboard
<1>2. clock' = e.clock /\ metrics' = e.metrics
  BY DEF Engine
<1>3. Seen(Sample(d, e), e.clock.tick, e.ghost) /\ Matches(Sample(d, e), e.clock, e.metrics, e.ghost)
  BY SampleSees
<1>4. QED
  BY <1>1, <1>2, <1>3 DEF Watching

\* The engine went on to e: the dashboard that watched it still may.
LEMMA WatchingOn ==
  ASSUME PageInv, NEW d, Seen(d, clock.tick, ghost), Matches(d, clock, metrics, ghost),
         NEW e, Timely(e.clock, e.ghost), e.metrics \in [statements : Nat], Extends(e)
  PROVE  /\ Seen(d, e.clock.tick, e.ghost) /\ Matches(d, e.clock, e.metrics, e.ghost)
         /\ Counts(d, e, e.ghost) /\ e.metrics.statements \in Nat
<1>1. Timely(clock, ghost) /\ metrics.statements \in Nat /\ e.metrics.statements \in Nat
  BY DEF PageInv
<1>2. Seen(d, e.clock.tick, e.ghost)
  BY <1>1, SeenLater
<1>3. Matches(d, e.clock, e.metrics, e.ghost)
  BY <1>1, MatchesLater
<1>4. QED
  BY <1>1, <1>2, <1>3 DEF Counts

\* The page samples the dashboard first, and then changes something.
LEMMA FlushedWatches ==
  ASSUME PageInv, Watching
  PROVE  /\ Seen(Sample(dash, Now), clock.tick, ghost)
         /\ Matches(Sample(dash, Now), clock, metrics, ghost)
         /\ Sample(dash, Now).previous = [tick |-> clock.tick, statements |-> metrics.statements]
<1> DEFINE e == Now
<1>1. e.clock = clock /\ e.metrics = metrics /\ e.ghost = ghost
  BY DEF Now
<1>2. Timely(clock, ghost) /\ metrics.statements \in Nat
  BY DEF PageInv
<1> HIDE DEF e
<1>3. Timely(e.clock, ghost) /\ e.metrics.statements \in Nat /\ Seen(dash, e.clock.tick, ghost)
      /\ Counts(dash, e, ghost)
  BY <1>1, <1>2 DEF Watching, Counts
<1>4. /\ Seen(Sample(dash, e), e.clock.tick, ghost) /\ Matches(Sample(dash, e), e.clock, e.metrics, ghost)
      /\ Sample(dash, e).previous = [tick |-> e.clock.tick, statements |-> e.metrics.statements]
  BY <1>3, SampleSees
<1>5. QED
  BY <1>1, <1>4 DEF e

LEMMA FrameWatches ==
  ASSUME PageInv, Watching, NEW duration \in Durations, NEW error \in -Rounding..Rounding,
         \/ \E sampling \in BOOLEAN : Frame(duration, error, sampling)
         \/ ModelUpdate(duration, error)
  PROVE  Watching' /\ UNCHANGED traces
<1>1. PICK e \in Updates(duration, error) :
        /\ Engine(e) /\ UNCHANGED traces
        /\ UpdateDashboard(dash, e) \/ (dash' = dash /\ ghost' = e.ghost)
  BY DEF Frame, ModelUpdate
<1>2. Timely(clock, ghost) /\ ControlsOK /\ metrics \in [statements : Nat]
  BY DEF PageInv
<1>3. Timely(e.clock, e.ghost) /\ e.metrics \in [statements : Nat] /\ Extends(e)
  BY <1>1, <1>2, UpdatesTimely
<1>4. /\ Seen(dash, e.clock.tick, e.ghost) /\ Matches(dash, e.clock, e.metrics, e.ghost)
      /\ Counts(dash, e, e.ghost) /\ e.metrics.statements \in Nat
  BY <1>3, WatchingOn DEF Watching
<1>5. CASE UpdateDashboard(dash, e)
  BY <1>1, <1>3, <1>4, <1>5, UpdateSees
<1>6. CASE dash' = dash /\ ghost' = e.ghost
  BY <1>1, <1>4, <1>6 DEF Watching, Engine
<1>7. QED
  BY <1>1, <1>5, <1>6

LEMMA SetControlWatches ==
  ASSUME PageInv, Watching, NEW next, SetControl(next)
  PROVE  Watching' /\ UNCHANGED traces
<1> DEFINE d == Sample(dash, Now)
           e == Now
<1>1. UpdateDashboard(d, e) /\ clock' = clock /\ metrics' = metrics /\ UNCHANGED traces
  BY DEF SetControl
<1>2. e.clock = clock /\ e.metrics = metrics /\ e.ghost = ghost
  BY DEF Now
<1>3. Seen(d, clock.tick, ghost) /\ Matches(d, clock, metrics, ghost)
  BY FlushedWatches
<1>4. Timely(clock, ghost) /\ metrics.statements \in Nat
  BY DEF PageInv
<1> HIDE DEF d, e
<1>5. Engine(e) /\ Counts(d, e, e.ghost)
  BY <1>1, <1>2, <1>3 DEF Engine, Counts
<1>6. Watching'
  BY <1>1, <1>2, <1>3, <1>4, <1>5, UpdateSees
<1>7. QED
  BY <1>1, <1>6

LEMMA SetPlaybackWatches ==
  ASSUME PageInv, Watching, NEW mode \in {"step", "slow", "live"}, SetPlayback(mode)
  PROVE  Watching' /\ UNCHANGED traces
<1>1. PICK e \in IF mode = "step" THEN SingleStep ELSE {Now} :
        Engine(e) /\ UpdateDashboard(Sample(dash, Now), e)
  BY DEF SetPlayback
<1>2. Timely(clock, ghost) /\ ControlsOK /\ metrics \in [statements : Nat]
  BY DEF PageInv
<1>3. Timely(e.clock, e.ghost) /\ e.metrics \in [statements : Nat] /\ Extends(e)
  <2>1. CASE mode = "step"
    BY <1>1, <1>2, <2>1, SingleStepTimely
  <2>2. CASE mode # "step"
    <3>1. e.clock = clock /\ e.metrics = metrics /\ e.ghost = ghost
      BY <1>1, <2>2 DEF Now
    <3>2. Extends(e)
      BY <1>2, <3>1, StandingExtends
    <3>3. QED
      BY <1>2, <3>1, <3>2
  <2>3. QED
    BY <2>1, <2>2
<1> DEFINE d == Sample(dash, Now)
<1>4. Seen(d, clock.tick, ghost) /\ Matches(d, clock, metrics, ghost) /\ UpdateDashboard(d, e)
  BY <1>1, FlushedWatches
<1> HIDE DEF d
<1>5. /\ Seen(d, e.clock.tick, e.ghost) /\ Counts(d, e, e.ghost) /\ e.metrics.statements \in Nat
  BY <1>3, <1>4, WatchingOn
<1>6. Watching'
  BY <1>1, <1>3, <1>4, <1>5, UpdateSees
<1>7. QED
  BY <1>6 DEF SetPlayback

LEMMA TraceWatches ==
  ASSUME PageInv, Watching, NEW receipt, Trace(receipt)
  PROVE  Watching' /\ (OneTrace => OneTrace')
<1> DEFINE d == Flushed
           e == [Now EXCEPT !.metrics = metrics']
           counts == metrics.statements
           more == counts + IF receipt = None THEN 0 ELSE 1
<1>1. /\ metrics' = [statements |-> more] /\ UpdateDashboard(d, e) /\ clock' = clock
      /\ traces' = IF receipt = None THEN traces
                   ELSE [last |-> receipt, current |-> receipt, city |-> receipt]
  BY DEF Trace
<1>2. e.clock = clock /\ e.metrics = metrics' /\ e.ghost = ghost
  BY DEF Now
<1>3. /\ Seen(d, clock.tick, ghost)
      /\ d.previous = [tick |-> clock.tick, statements |-> metrics.statements]
  BY FlushedWatches DEF Flushed
<1>4. Timely(clock, ghost) /\ counts \in Nat
  BY DEF PageInv
<1>5. more \in Nat /\ counts <= more
  BY <1>4
<1>6. d.previous.tick = clock.tick /\ d.previous.statements = counts
  BY <1>3
<1> HIDE DEF d, e, counts, more
<1>7. Engine(e) /\ e.metrics.statements = more
  BY <1>1, <1>2 DEF Engine
<1>8. Counts(d, e, e.ghost)
  BY <1>2, <1>5, <1>6, <1>7 DEF Counts
<1>9. Watching'
  BY <1>1, <1>2, <1>3, <1>4, <1>5, <1>7, <1>8, UpdateSees
<1>10. OneTrace => OneTrace'
  BY <1>1 DEF OneTrace
<1>11. QED
  BY <1>9, <1>10

\* A scenario and a reset begin a new dashboard.
LEMMA RestartWatches ==
  ASSUME NEW statements \in Nat, NEW receipt,
         Engine([clock |-> Zero, metrics |-> [statements |-> statements]]),
         traces' = [last |-> receipt, current |-> receipt, city |-> receipt],
         UpdateDashboard(Fresh, [clock |-> Zero, metrics |-> metrics', ghost |-> NoGhost])
  PROVE  Watching' /\ OneTrace'
<1> DEFINE e == [clock |-> Zero, metrics |-> metrics', ghost |-> NoGhost]
<1>1. clock' = Zero /\ metrics' = [statements |-> statements]
  BY DEF Engine
<1>2. e.clock = Zero /\ e.metrics = metrics' /\ e.ghost = NoGhost /\ UpdateDashboard(Fresh, e)
  OBVIOUS
<1> HIDE DEF e
<1>3. Zero.tick = 0 /\ Fresh.previous = None
  BY DEF Zero, Fresh
<1>4. dash' = Sample(Fresh, e) /\ ghost' = [NoGhost EXCEPT !.since = 0]
  BY <1>2, <1>3 DEF UpdateDashboard
<1>5. ghost'.since = 0 /\ ghost'.work = <<>>
  BY <1>4 DEF NoGhost
<1>6. e.clock.tick = 0 /\ e.metrics.statements = statements
  BY <1>1, <1>2, <1>3
<1>7. Seen(Sample(Fresh, e), 0, ghost') /\ Matches(Sample(Fresh, e), e.clock, e.metrics, ghost')
  BY <1>5, <1>6, FreshSees
<1>8. Watching'
  BY <1>1, <1>2, <1>3, <1>4, <1>7 DEF Watching
<1>9. OneTrace'
  BY DEF OneTrace
<1>10. QED
  BY <1>8, <1>9

LEMMA InitWatches == Init => Watching /\ OneTrace
<1>1. SUFFICES ASSUME Init PROVE Watching /\ OneTrace
  OBVIOUS
<1> DEFINE e == [clock |-> Zero, metrics |-> [statements |-> 1]]
<1>2. /\ clock = Zero /\ metrics = [statements |-> 1] /\ ghost = NoGhost /\ dash = Sample(Fresh, e)
      /\ traces = [last |-> 0, current |-> 0, city |-> 0]
  BY <1>1 DEF Init
<1>3. e.clock = clock /\ e.metrics = metrics /\ e.metrics.statements = 1
  BY <1>2
<1> HIDE DEF e
<1>4. clock.tick = 0 /\ ghost.since = 0 /\ ghost.work = <<>>
  BY <1>2 DEF Zero, NoGhost
<1>5. Seen(Sample(Fresh, e), 0, ghost) /\ Matches(Sample(Fresh, e), e.clock, e.metrics, ghost)
  BY <1>3, <1>4, FreshSees
<1>6. Watching
  BY <1>2, <1>3, <1>4, <1>5 DEF Watching
<1>7. QED
  BY <1>2, <1>6 DEF OneTrace

(* DashboardIsHonest, for every window, history, load and step length.     *)
(* What the dashboard shows is no invariant by itself: it also knows the   *)
(* counter of its last sample, and as long as the counter gained since     *)
(* then what the load ran, the next sample adds what was the load's.  A    *)
(* trace counts a statement that was not; it is sampled before and after.  *)
THEOREM DashboardIsHonestHolds == Spec => []DashboardIsHonest
<1>1. PageInv /\ Watching /\ OneTrace /\ [Next]_vars => Watching' /\ OneTrace'
  <2>1. SUFFICES ASSUME PageInv, Watching, OneTrace, [Next]_vars PROVE Watching' /\ OneTrace'
    OBVIOUS
  <2>2. CASE \E duration \in Durations, error \in -Rounding..Rounding :
               \/ \E sampling \in BOOLEAN : Frame(duration, error, sampling)
               \/ ModelUpdate(duration, error)
    <3>1. Watching' /\ UNCHANGED traces
      BY <2>1, <2>2, FrameWatches
    <3>2. QED
      BY <2>1, <3>1 DEF OneTrace
  <2>3. CASE \/ \E still \in BOOLEAN : SetPaused(still)
             \/ \E speed \in Speeds : SetSpeed(speed)
             \/ \E qps \in Loads : SetLoad(qps)
    <3>1. \E next : SetControl(next)
      <4>1. CASE \E still \in BOOLEAN : SetPaused(still)
        BY <4>1 DEF SetPaused
      <4>2. CASE \E speed \in Speeds : SetSpeed(speed)
        BY <4>2 DEF SetSpeed
      <4>3. CASE \E qps \in Loads : SetLoad(qps)
        BY <4>3 DEF SetLoad
      <4>4. QED
        BY <2>3, <4>1, <4>2, <4>3
    <3>2. Watching' /\ UNCHANGED traces
      BY <2>1, <3>1, SetControlWatches
    <3>3. QED
      BY <2>1, <3>2 DEF OneTrace
  <2>4. CASE \E mode \in {"step", "slow", "live"} : SetPlayback(mode)
    <3>1. Watching' /\ UNCHANGED traces
      BY <2>1, <2>4, SetPlaybackWatches
    <3>2. QED
      BY <2>1, <3>1 DEF OneTrace
  <2>5. CASE \E receipt \in {None, inputs + 1} : Trace(receipt)
    BY <2>1, <2>5, TraceWatches
  <2>6. CASE RunScenario(inputs + 1)
    BY <2>6, RestartWatches DEF RunScenario
  <2>7. CASE Reset
    BY <2>7, RestartWatches DEF Reset
  <2>8. CASE UNCHANGED vars
    BY <2>1, <2>8 DEF vars, Watching, OneTrace
  <2>9. QED
    BY <2>1, <2>2, <2>3, <2>4, <2>5, <2>6, <2>7, <2>8 DEF Next
<1>2. QED
  BY <1>1, PageInit, PageStep, InitWatches, WatchingIsHonest, PTL DEF Spec

-----------------------------------------------------------------------------
\* Where position i starts, or the key space ends.
Bound(i) == IF i <= Len(starts) THEN starts[i] ELSE KeyspaceEnd

Enclosed == searching => Bound(low) <= key /\ key < Bound(high + 1)

LookupInv ==
  /\ LookupTypeOK
  /\ Enclosed
  /\ region # 0 => Covers(region)

-----------------------------------------------------------------------------
LEMMA KeyspaceIsNat == KeyspaceEnd \in Nat \ {0}
  BY RegionLookupAssumption DEF KeyspaceEnd

LEMMA BoundsGrow ==
  ASSUME Sorted
  PROVE  /\ \A i \in 1..(Len(starts) + 1) : Bound(i) \in 0..KeyspaceEnd
         /\ \A i, j \in 1..(Len(starts) + 1) : i < j => Bound(i) < Bound(j)
         /\ \A i \in 1..Len(starts) : StartKey(i) = Bound(i) /\ EndKey(i) = Bound(i + 1)
  BY KeyspaceIsNat DEF Sorted, Bound, StartKey, EndKey, Keys

LEMMA InvImpliesExact == LookupInv => LookupIsExact
<1>1. SUFFICES ASSUME LookupInv, searching PROVE low <= high
  BY DEF LookupIsExact, LookupInv
<1>2. Sorted /\ low \in 1..(Len(starts) + 1) /\ high \in 0..Len(starts) /\ key \in Keys
  BY <1>1 DEF LookupInv, LookupTypeOK
<1>3. Bound(low) < Bound(high + 1)
  BY <1>1, <1>2, BoundsGrow, KeyspaceIsNat DEF LookupInv, Enclosed, Keys
<1>4. Len(starts) \in Nat
  BY <1>2 DEF Sorted
<1>5. ~(high + 1 < low) /\ high + 1 # low
  BY <1>2, <1>3, <1>4, BoundsGrow, KeyspaceIsNat
<1>6. QED
  BY <1>2, <1>4, <1>5

-----------------------------------------------------------------------------
LEMMA GridIsSorted == LookupInit => Sorted
<1>1. SUFFICES ASSUME LookupInit PROVE Sorted
  OBVIOUS
<1>2. /\ InitialRegions \in Nat \ {0} /\ RegionWidth \in Nat \ {0}
      /\ starts = [i \in 1..InitialRegions |-> (i - 1) * RegionWidth]
  BY <1>1, RegionLookupAssumption DEF LookupInit
<1>3. \A i \in 1..InitialRegions : (i - 1) * RegionWidth \in Keys
  <2>1. TAKE i \in 1..InitialRegions
  <2> DEFINE before == (i - 1) * RegionWidth
             after == (InitialRegions - i) * RegionWidth
  <2>2. before >= 0 /\ after >= 0 /\ before \in Int /\ after \in Int
    BY <1>2
  <2>3. KeyspaceEnd = before + after + RegionWidth
    BY <1>2 DEF KeyspaceEnd
  <2> HIDE DEF before, after
  <2>4. before \in Keys
    BY <1>2, <2>2, <2>3 DEF Keys
  <2>5. QED
    BY <2>4 DEF before
<1>4. \A i, j \in 1..InitialRegions : i < j => (i - 1) * RegionWidth < (j - 1) * RegionWidth
  <2>1. SUFFICES ASSUME NEW i \in 1..InitialRegions, NEW j \in 1..InitialRegions, i < j
                 PROVE  (i - 1) * RegionWidth < (j - 1) * RegionWidth
    OBVIOUS
  <2>2. (j - i) * RegionWidth > 0
    BY <1>2, <2>1
  <2>3. (j - 1) * RegionWidth = (i - 1) * RegionWidth + (j - i) * RegionWidth
    BY <1>2
  <2>4. QED
    BY <1>2, <2>2, <2>3
<1>5. starts \in Seq(Keys) /\ Len(starts) = InitialRegions
  BY <1>2, <1>3
<1>6. starts[1] = 0
  BY <1>2
<1>7. QED
  BY <1>2, <1>4, <1>5, <1>6 DEF Sorted

LEMMA InitInv == LookupInit => LookupInv
<1>1. SUFFICES ASSUME LookupInit PROVE LookupInv
  OBVIOUS
<1>2. Sorted
  BY <1>1, GridIsSorted
<1>3. KeyspaceEnd \in Nat \ {0} /\ Len(starts) \in Nat \ {0}
  BY <1>1, <1>2, KeyspaceIsNat, RegionLookupAssumption DEF Sorted
<1>a. key = 0 /\ low = 1 /\ high = 0 /\ region = 0 /\ searching = FALSE
  BY <1>1 DEF LookupInit
<1>b. /\ key \in Keys /\ low \in 1..(Len(starts) + 1)
      /\ high \in 0..Len(starts) /\ region \in 0..Len(starts)
  BY <1>3, <1>a DEF Keys
<1>4. LookupTypeOK
  BY <1>2, <1>a, <1>b DEF LookupTypeOK
<1>5. QED
  BY <1>1, <1>4 DEF LookupInv, LookupInit, Enclosed

-----------------------------------------------------------------------------
LEMMA SplitKeeps == LookupInv /\ Split => LookupInv'
<1>1. SUFFICES ASSUME LookupInv, Split PROVE LookupInv'
  OBVIOUS
<1> DEFINE L == Len(starts)
           h == HotPosition
           m == Midpoint(h)
<1>2. Sorted /\ L \in Nat \ {0} /\ InitialRegions \in Nat \ {0} /\ HotRegion \in 0..(InitialRegions - 1)
  BY <1>1, RegionLookupAssumption DEF LookupInv, LookupTypeOK, Sorted
<1>3. h \in 1..L
  BY <1>2 DEF HotPosition, Sorted
<1>4. /\ m \in Int /\ StartKey(h) < m /\ m < EndKey(h)
      /\ StartKey(h) \in Nat /\ EndKey(h) \in Nat
  <2>1. StartKey(h) \in Nat /\ EndKey(h) \in Nat /\ StartKey(h) < EndKey(h)
    BY <1>2, <1>3, BoundsGrow, KeyspaceIsNat
  <2>2. m = (StartKey(h) + EndKey(h)) \div 2
    BY DEF Midpoint
  <2>3. m > StartKey(h)
    BY <1>1 DEF Split
  <2> HIDE DEF h, m
  <2>4. QED
    BY <2>1, <2>2, <2>3
<1>5. /\ starts' = [i \in 1..(L + 1) |->
                      IF i <= h THEN starts[i] ELSE IF i = h + 1 THEN m ELSE starts[i - 1]]
      /\ ~searching /\ ~searching' /\ region' = 0 /\ UNCHANGED <<key, low, high>>
  BY <1>1 DEF Split, Spliced
<1>6. starts \in Seq(Keys) /\ starts[1] = 0 /\ \A i, j \in 1..L : i < j => starts[i] < starts[j]
  BY <1>2 DEF Sorted
<1>v. \A n \in 1..L : starts[n] \in Keys /\ starts[n] \in Int
  BY <1>6, KeyspaceIsNat DEF Keys
<1>7. m \in Keys /\ starts[h] < m /\ (h < L => m < starts[h + 1])
  <2>1. StartKey(h) = starts[h] /\ (h < L => EndKey(h) = starts[h + 1])
    BY DEF StartKey, EndKey
  <2>2. EndKey(h) <= KeyspaceEnd
    BY <1>2, <1>3, BoundsGrow, KeyspaceIsNat
  <2> HIDE DEF h, m, L
  <2>3. m \in Keys
    BY <1>4, <2>2, KeyspaceIsNat DEF Keys
  <2>4. QED
    BY <1>4, <2>1, <2>3
<1> HIDE DEF h, m, L
<1>8. starts' \in Seq(Keys) /\ Len(starts') = L + 1
  <2>1. \A i \in 1..(L + 1) : starts'[i] \in Keys
    BY <1>2, <1>3, <1>5, <1>6, <1>7 DEF L
  <2>2. QED
    BY <1>2, <1>5, <2>1
<1>9. \A i, j \in 1..(L + 1) : i < j => starts'[i] < starts'[j]
  <2>1. SUFFICES ASSUME NEW i \in 1..(L + 1), NEW j \in 1..(L + 1), i < j
                 PROVE  starts'[i] < starts'[j]
    OBVIOUS
  <2>2. \A n \in 1..L : starts[n] \in Int
    BY <1>v
  <2>3. CASE j <= h
    BY <1>2, <1>3, <1>5, <1>6, <2>1, <2>3
  <2>4. CASE j = h + 1
    <3>1. starts'[j] = m /\ starts'[i] = starts[i] /\ i <= h
      BY <1>2, <1>3, <1>5, <2>1, <2>4
    <3>2. starts[i] <= starts[h]
      BY <1>2, <1>3, <1>6, <2>1, <2>2, <3>1
    <3>3. i \in 1..L
      BY <1>3, <2>1, <3>1, <1>2
    <3>4. QED
      BY <1>3, <1>4, <1>7, <2>2, <3>1, <3>2, <3>3
  <2>5. CASE j > h + 1
    <3>1. starts'[j] = starts[j - 1] /\ j - 1 \in 1..L
      BY <1>2, <1>3, <1>5, <2>1, <2>5
    <3>2. CASE i <= h
      BY <1>2, <1>3, <1>5, <1>6, <2>1, <2>5, <3>1, <3>2
    <3>3. CASE i = h + 1
      <4>1. h < L /\ starts'[i] = m
        BY <1>2, <1>3, <1>5, <2>1, <2>5, <3>3
      <4>2. starts[h + 1] <= starts[j - 1]
        BY <1>2, <1>3, <1>6, <2>1, <2>2, <2>5, <3>1, <4>1
      <4>3. QED
        BY <1>2, <1>3, <1>4, <1>7, <2>2, <3>1, <4>1, <4>2
    <3>4. CASE i > h + 1
      BY <1>2, <1>3, <1>5, <1>6, <2>1, <2>5, <3>1, <3>4
    <3>5. QED
      BY <1>2, <1>3, <2>1, <3>2, <3>3, <3>4
  <2>6. QED
    BY <1>2, <1>3, <2>1, <2>3, <2>4, <2>5
<1>10. starts'[1] = 0
  BY <1>2, <1>3, <1>5, <1>6
<1>11. Sorted'
  BY <1>2, <1>8, <1>9, <1>10 DEF Sorted, L
<1>a. key \in Keys /\ low \in 1..(Len(starts) + 1) /\ high \in 0..Len(starts)
  BY <1>1 DEF LookupInv, LookupTypeOK
<1>b. low' \in 1..(Len(starts') + 1) /\ high' \in 0..Len(starts') /\ region' \in 0..Len(starts')
  BY <1>2, <1>5, <1>8, <1>a DEF L
<1>c. key' \in Keys /\ searching' = FALSE
  BY <1>5, <1>a
<1>12. LookupTypeOK'
  BY <1>11, <1>b, <1>c DEF LookupTypeOK, Keys
<1>13. QED
  BY <1>5, <1>12 DEF LookupInv, Enclosed

LEMMA LookUpKeeps == ASSUME LookupInv, NEW k \in Keys, LookUp(k) PROVE LookupInv'
<1>1. Sorted /\ Len(starts) \in Nat \ {0} /\ starts' = starts /\ starts[1] = 0
  BY RegionLookupAssumption DEF LookupInv, LookupTypeOK, Sorted, LookUp
<1>2. LookupTypeOK'
  BY <1>1 DEF LookupTypeOK, Sorted, LookUp, Keys
<1>3. Enclosed'
  BY <1>1, KeyspaceIsNat DEF Enclosed, Bound, LookUp, Keys
<1>4. QED
  BY <1>2, <1>3 DEF LookupInv, LookUp

(* The middle of what is in question is in question.                       *)
LEMMA MiddleIsBetween ==
  ASSUME NEW lo \in Int, NEW hi \in Int, lo <= hi
  PROVE  (lo + hi) \div 2 \in lo..hi
  OBVIOUS

LEMMA ProbeKeeps == LookupInv /\ (GoLeft \/ GoRight) => LookupInv'
<1>1. SUFFICES ASSUME LookupInv, GoLeft \/ GoRight PROVE LookupInv'
  OBVIOUS
<1>2. /\ Sorted /\ Len(starts) \in Nat \ {0} /\ starts' = starts /\ key' = key /\ key \in Keys
      /\ low \in 1..(Len(starts) + 1) /\ high \in 0..Len(starts) /\ low <= high
      /\ searching /\ searching' = searching /\ region' = region /\ region \in 0..Len(starts)
  BY <1>1, RegionLookupAssumption DEF LookupInv, LookupTypeOK, Sorted, GoLeft, GoRight
<1>3. Middle \in low..high
  BY <1>2, MiddleIsBetween DEF Middle
<1>4. StartKey(Middle) = Bound(Middle) /\ EndKey(Middle) = Bound(Middle + 1)
  BY <1>2, <1>3, BoundsGrow
<1>5. Bound(low) <= key /\ key < Bound(high + 1)
  BY <1>1, <1>2 DEF LookupInv, Enclosed
<1>6. region # 0 => Covers(region)'
  BY <1>1, <1>2 DEF LookupInv, Covers, StartKey, EndKey
<1>7. CASE GoLeft
  <2>1. high' = Middle - 1 /\ low' = low /\ key < Bound(Middle)
    BY <1>4, <1>7 DEF GoLeft, Below
  <2>2. high' + 1 = Middle
    BY <1>2, <1>3, <2>1
  <2>3. LookupTypeOK'
    BY <1>2, <1>3, <2>1 DEF LookupTypeOK, Sorted
  <2>4. Enclosed'
    BY <1>2, <1>5, <2>1, <2>2 DEF Enclosed, Bound
  <2>5. QED
    BY <1>2, <1>6, <2>3, <2>4 DEF LookupInv
<1>8. CASE GoRight
  <2>1. low' = Middle + 1 /\ high' = high /\ Bound(Middle + 1) <= key
    BY <1>2, <1>3, <1>4, <1>8, BoundsGrow, KeyspaceIsNat DEF GoRight, Above, Keys
  <2>2. LookupTypeOK'
    BY <1>2, <1>3, <2>1 DEF LookupTypeOK, Sorted
  <2>3. Enclosed'
    BY <1>2, <1>5, <2>1 DEF Enclosed, Bound
  <2>4. QED
    BY <1>2, <1>6, <2>2, <2>3 DEF LookupInv
<1>9. QED
  BY <1>1, <1>7, <1>8

LEMMA ReturnKeeps == LookupInv /\ Return => LookupInv'
<1>1. SUFFICES ASSUME LookupInv, Return PROVE LookupInv'
  OBVIOUS
<1>2. low <= high /\ searching
  BY <1>1, InvImpliesExact DEF LookupIsExact, Return
<1>3. /\ LookupTypeOK /\ starts' = starts /\ key' = key /\ low' = low /\ high' = high
      /\ searching' = FALSE /\ Len(starts) \in Nat
  BY <1>1 DEF LookupInv, LookupTypeOK, Sorted, Return
<1>4. low \in 1..(Len(starts) + 1) /\ high \in 0..Len(starts)
  BY <1>3 DEF LookupTypeOK
<1>5. Middle \in 1..Len(starts)
  BY <1>2, <1>3, <1>4, MiddleIsBetween DEF Middle
<1>6. region' = Middle /\ Covers(Middle)
  <2>1. Sorted /\ key \in Keys
    BY <1>3 DEF LookupTypeOK
  <2>2. StartKey(Middle) \in Int /\ EndKey(Middle) \in Int /\ key \in Int
    BY <1>3, <1>5, <2>1, BoundsGrow, KeyspaceIsNat DEF Keys
  <2>3. region' = Middle /\ ~Below(Middle) /\ ~Above(Middle)
    BY <1>1, <1>2, <1>4 DEF Return
  <2>4. QED
    BY <2>2, <2>3 DEF Covers, Below, Above
<1>a. Sorted' /\ key' \in Keys /\ low' \in 1..(Len(starts') + 1) /\ high' \in 0..Len(starts')
  BY <1>3 DEF LookupTypeOK, Sorted
<1>b. region' \in 0..Len(starts')
  BY <1>3, <1>5, <1>6
<1>7. LookupTypeOK'
  BY <1>3, <1>a, <1>b DEF LookupTypeOK, Keys
<1>8. Covers(region)'
  BY <1>3, <1>6 DEF Covers, StartKey, EndKey
<1>9. QED
  BY <1>3, <1>7, <1>8 DEF LookupInv, Enclosed

LEMMA StutterKeeps == LookupInv /\ UNCHANGED lookup => LookupInv'
  BY DEF lookup, LookupInv, LookupTypeOK, Sorted, Enclosed, Bound, Covers, StartKey, EndKey

-----------------------------------------------------------------------------
(* The array stays sorted and the loop keeps the key enclosed, however     *)
(* many Regions there are and however often the hot one splits.            *)
THEOREM LookupInductive == LookupSpec => []LookupInv
<1>1. LookupInv /\ [LookupNext]_lookup => LookupInv'
  <2>1. SUFFICES ASSUME LookupInv, [LookupNext]_lookup PROVE LookupInv'
    OBVIOUS
  <2>2. CASE Split
    BY <2>1, <2>2, SplitKeeps
  <2>3. ASSUME NEW k \in Keys, LookUp(k) PROVE LookupInv'
    BY <2>1, <2>3, LookUpKeeps
  <2>4. CASE GoLeft \/ GoRight
    BY <2>1, <2>4, ProbeKeeps
  <2>5. CASE Return
    BY <2>1, <2>5, ReturnKeeps
  <2>6. CASE UNCHANGED lookup
    BY <2>1, <2>6, StutterKeeps
  <2>7. QED
    BY <2>1, <2>2, <2>3, <2>4, <2>5, <2>6 DEF LookupNext
<1>2. QED
  BY <1>1, InitInv, PTL DEF LookupSpec

(* regionForKey returns the Region that holds the key and never reaches    *)
(* its fallback.                                                           *)
THEOREM LookupFindsTheRegion == LookupSpec => []LookupIsExact
  BY LookupInductive, InvImpliesExact, PTL

-----------------------------------------------------------------------------
(* The deadlock detector: a call has fewer neighbours left than the one    *)
(* that made it, or fewer transactions that nobody visited.                *)
Size(c) == Cardinality(Waiters \ c.visited) * (Cardinality(Waiters) + 1) + Cardinality(c.todo)

LEMMA CountIsNat ==
  /\ Cardinality(Waiters) \in Nat
  /\ \A S \in SUBSET Waiters : /\ IsFiniteSet(S) /\ Cardinality(S) \in Nat
                               /\ Cardinality(S) <= Cardinality(Waiters)
<1>1. IsFiniteSet(Waiters)
  BY DetectorAssumption
<1>2. QED
  BY <1>1, FS_CardinalityType, FS_Subset

LEMMA OneLess ==
  ASSUME NEW S \in SUBSET Waiters, NEW t \in S
  PROVE  Cardinality(S \ {t}) = Cardinality(S) - 1
<1>1. IsFiniteSet(S)
  BY CountIsNat
<1>2. QED
  BY <1>1, FS_RemoveElement

LEMMA CallIs ==
  /\ \A c \in Calls : c.todo \in SUBSET Waiters /\ c.visited \in SUBSET Waiters
  /\ \A T, V \in SUBSET Waiters : /\ Call(T, V) \in Calls
                                  /\ Call(T, V).todo = T /\ Call(T, V).visited = V
BY DEF Calls, Call

LEMMA SizeIsNat ==
  ASSUME NEW c \in Calls
  PROVE  Size(c) \in Nat /\ Size(c) <= Cardinality(Waiters) * (Cardinality(Waiters) + 1) + Cardinality(Waiters)
<1> DEFINE N == Cardinality(Waiters)
           a == Cardinality(Waiters \ c.visited)
           b == Cardinality(c.todo)
<1>1. c.todo \in SUBSET Waiters /\ Waiters \ c.visited \in SUBSET Waiters
  BY CallIs
<1>2. N \in Nat /\ a \in Nat /\ b \in Nat /\ a <= N /\ b <= N
  BY <1>1, CountIsNat
<1> HIDE DEF N, a, b
<1>3. a * (N + 1) \in Nat /\ a * (N + 1) <= N * (N + 1)
  BY <1>2, SMTT(30)
<1> DEFINE x == a * (N + 1)
           y == N * (N + 1)
<1>4. x \in Nat /\ x <= y /\ y \in Int
  BY <1>2, <1>3, SMTT(30)
<1> HIDE DEF x, y
<1>5. x + b \in Nat /\ x + b <= y + N
  BY <1>2, <1>4
<1>6. QED
  BY <1>5 DEF x, y, N, a, b, Size

\* A neighbour less, and no less was visited.
LEMMA SizeFewer ==
  ASSUME NEW c \in Calls, NEW t \in c.todo, NEW V \in SUBSET Waiters, c.visited \subseteq V
  PROVE  Call(c.todo \ {t}, V) \in Calls /\ Size(Call(c.todo \ {t}, V)) < Size(c)
<1> DEFINE d == Call(c.todo \ {t}, V)
           N == Cardinality(Waiters)
           a == Cardinality(Waiters \ c.visited)
           b == Cardinality(c.todo)
           e == Cardinality(Waiters \ V)
           f == Cardinality(c.todo \ {t})
<1>1. c.todo \in SUBSET Waiters /\ Waiters \ c.visited \in SUBSET Waiters /\ Waiters \ V \in SUBSET Waiters
  BY CallIs
<1>2. c.todo \ {t} \in SUBSET Waiters
  BY <1>1
<1>3. d \in Calls /\ d.todo = c.todo \ {t} /\ d.visited = V
  BY <1>2, CallIs
<1>4. f = b - 1
  BY <1>1, OneLess
<1>5. e <= a
  <2>1. IsFiniteSet(Waiters \ c.visited) /\ Waiters \ V \subseteq Waiters \ c.visited
    BY <1>1, CountIsNat
  <2>2. QED
    BY <2>1, FS_Subset
<1>6. N \in Nat /\ a \in Nat /\ b \in Nat /\ e \in Nat
  BY <1>1, CountIsNat
<1>7. Size(d) = e * (N + 1) + f /\ Size(c) = a * (N + 1) + b
  BY <1>3 DEF Size
<1> HIDE DEF d, N, a, b, e, f
<1>8. e * (N + 1) <= a * (N + 1) /\ e * (N + 1) \in Nat /\ a * (N + 1) \in Nat
  BY <1>5, <1>6, SMTT(30)
<1>9. Size(d) < Size(c)
  <2> DEFINE x == e * (N + 1)
             y == a * (N + 1)
  <2>1. x \in Nat /\ y \in Nat /\ x <= y /\ Size(d) = x + f /\ Size(c) = y + b
    BY <1>7, <1>8
  <2> HIDE DEF x, y
  <2>2. QED
    BY <1>4, <1>6, <2>1
<1>10. QED
  BY <1>3, <1>9 DEF d

\* One more visited, whatever neighbours that one has.
LEMMA SizeDeeper ==
  ASSUME NEW c \in Calls, NEW t \in Waiters \ c.visited, NEW T \in SUBSET Waiters
  PROVE  Call(T, c.visited \cup {t}) \in Calls /\ Size(Call(T, c.visited \cup {t})) < Size(c)
<1> DEFINE V == c.visited \cup {t}
           d == Call(T, V)
           N == Cardinality(Waiters)
           a == Cardinality(Waiters \ c.visited)
           b == Cardinality(c.todo)
           e == Cardinality(Waiters \ V)
           f == Cardinality(T)
<1>1. /\ c.todo \in SUBSET Waiters /\ Waiters \ c.visited \in SUBSET Waiters
      /\ Waiters \ V \in SUBSET Waiters /\ V \in SUBSET Waiters
  BY CallIs
<1>2. d \in Calls /\ d.todo = T /\ d.visited = V
  BY <1>1, CallIs
<1>3. e = a - 1
  <2>1. Waiters \ V = (Waiters \ c.visited) \ {t}
    OBVIOUS
  <2>2. QED
    BY <1>1, <2>1, OneLess
<1>4. N \in Nat /\ a \in Nat /\ b \in Nat /\ e \in Nat /\ f \in Nat /\ f <= N
  BY <1>1, CountIsNat
<1>5. Size(d) = e * (N + 1) + f /\ Size(c) = a * (N + 1) + b
  BY <1>2 DEF Size
<1> HIDE DEF d, N, a, b, e, f, V
<1>6. a * (N + 1) = e * (N + 1) + N + 1 /\ e * (N + 1) \in Nat
  BY <1>3, <1>4, SMTT(30)
<1>7. Size(d) < Size(c)
  <2> DEFINE x == e * (N + 1)
             y == a * (N + 1)
  <2>1. x \in Nat /\ y = x + N + 1 /\ Size(d) = x + f /\ Size(c) = y + b
    BY <1>5, <1>6
  <2> HIDE DEF x, y
  <2>2. QED
    BY <1>4, <2>1
<1>8. QED
  BY <1>2, <1>7 DEF d, V

LEMMA LeastIn ==
  ASSUME NEW T \in SUBSET Waiters, T # {}
  PROVE  Min(T) \in T
<1> DEFINE P == {n \in Nat : \A S \in SUBSET Waiters :
                   Cardinality(S) = n /\ S # {} => \E x \in S : \A y \in S : x <= y}
<1>1. 0 \in P
  <2>1. ASSUME NEW S \in SUBSET Waiters, Cardinality(S) = 0 PROVE S = {}
    <3>1. IsFiniteSet(S)
      BY CountIsNat
    <3>2. QED
      BY <2>1, <3>1, FS_EmptySet
  <2>2. QED
    BY <2>1
<1>2. ASSUME NEW n \in Nat, n \in P PROVE n + 1 \in P
  <2>1. SUFFICES ASSUME NEW S \in SUBSET Waiters, Cardinality(S) = n + 1, S # {}
                 PROVE  \E x \in S : \A y \in S : x <= y
    OBVIOUS
  <2>2. \A x \in S : x \in Int
    BY DetectorAssumption
  <2>3. PICK x \in S : TRUE
    BY <2>1
  <2> DEFINE rest == S \ {x}
  <2>4. rest \in SUBSET Waiters /\ Cardinality(rest) = n
    <3>1. Cardinality(rest) = Cardinality(S) - 1
      BY OneLess
    <3>2. QED
      BY <2>1, <3>1
  <2>5. CASE rest = {}
    <3>1. \A y \in S : y = x
      BY <2>5
    <3>2. QED
      BY <2>2, <3>1
  <2>6. CASE rest # {}
    <3>1. PICK z \in rest : \A y \in rest : z <= y
      BY <1>2, <2>4, <2>6
    <3>2. x \in Int /\ z \in Int /\ \A y \in S : y \in Int
      BY <2>2
    <3>3. CASE x <= z
      <4>1. \A y \in S : x <= y
        BY <3>1, <3>2, <3>3
      <4>2. QED
        BY <4>1
    <3>4. CASE z <= x
      <4>1. \A y \in S : z <= y
        BY <3>1, <3>2, <3>4
      <4>2. QED
        BY <4>1
    <3>5. QED
      BY <3>2, <3>3, <3>4
  <2>7. QED
    BY <2>5, <2>6
<1> HIDE DEF P
<1>3. \A n \in Nat : n \in P
  BY <1>1, <1>2, CountsUp
<1>4. Cardinality(T) \in P
  BY <1>3, CountIsNat
<1>5. QED
  BY <1>4 DEF P, Min

-----------------------------------------------------------------------------
(* What a call does: a path leads from one of its neighbours to the target *)
(* through transactions nobody visited before; without one, whatever it    *)
(* visited leads nowhere else.                                             *)
Leads(g, target, T, V, p) ==
  /\ p \in Seq(Waiters) /\ Len(p) >= 1
  /\ p[1] \in T /\ p[Len(p)] = target
  /\ \A k \in 1..(Len(p) - 1) : <<p[k], p[k + 1]>> \in g /\ p[k] \notin V /\ p[k] # target
  /\ \A j, k \in 1..(Len(p) - 1) : p[j] = p[k] => j = k

Explored(g, target, T, V, W) ==
  /\ T \subseteq W /\ (target \in W => target \in V)
  /\ \A x \in W \ V : Neighbours(g, x) \subseteq W

Outcomes == [path : Seq(Waiters), visited : SUBSET Waiters]

Answers(g, target, c, r) ==
  /\ r \in Outcomes /\ c.visited \subseteq r.visited
  /\ r.path # NoCycle => Leads(g, target, c.todo, c.visited, r.path)
  /\ r.path = NoCycle => Explored(g, target, c.todo, c.visited, r.visited)

LEMMA LeadsMore ==
  ASSUME NEW g, NEW target, NEW T, NEW V, NEW S, NEW U, NEW p,
         Leads(g, target, T, V, p), T \subseteq S, U \subseteq V
  PROVE  Leads(g, target, S, U, p)
BY DEF Leads

LEMMA LeadsFurther ==
  ASSUME NEW g, NEW target, NEW T \in SUBSET Waiters, NEW V, NEW p, NEW t \in T, t # target, t \notin V,
         Leads(g, target, Neighbours(g, t), V \cup {t}, p)
  PROVE  Leads(g, target, T, V, <<t>> \o p)
<1> DEFINE q == <<t>> \o p
           n == Len(p)
<1>1. p \in Seq(Waiters) /\ n \in Nat /\ n >= 1 /\ t \in Waiters
  BY DEF Leads
<1>2. /\ q \in Seq(Waiters) /\ Len(q) = n + 1 /\ q[1] = t
      /\ \A k \in 2..(n + 1) : q[k] = p[k - 1]
  BY <1>1
<1>3. <<t, p[1]>> \in g /\ p[n] = target
  BY DEF Leads, Neighbours
<1>4. \A k \in 1..(n - 1) : <<p[k], p[k + 1]>> \in g /\ p[k] \notin V /\ p[k] # t /\ p[k] # target
  BY DEF Leads
<1>5. \A j, k \in 1..(n - 1) : p[j] = p[k] => j = k
  BY DEF Leads
<1> HIDE DEF q, n
<1>6. q[n + 1] = target
  BY <1>1, <1>2, <1>3
<1>7. ASSUME NEW k \in 1..n
      PROVE  <<q[k], q[k + 1]>> \in g /\ q[k] \notin V /\ q[k] # target
  <2>1. CASE k = 1
    <3>1. 2 \in 2..(n + 1) /\ 2 - 1 = 1
      BY <1>1
    <3>2. q[2] = p[1]
      BY <1>2, <3>1
    <3>3. q[1] = t /\ q[k] = t /\ q[k + 1] = p[1]
      BY <1>2, <2>1, <3>2
    <3>4. QED
      BY <1>3, <3>3
  <2>2. CASE k # 1
    <3>1. k - 1 \in 1..(n - 1) /\ k \in 2..(n + 1) /\ k + 1 \in 2..(n + 1) /\ (k - 1) + 1 = k /\ (k + 1) - 1 = k
      BY <1>1, <1>7, <2>2
    <3>2. q[k] = p[k - 1] /\ q[k + 1] = p[k]
      BY <1>2, <3>1
    <3>3. QED
      BY <1>4, <3>1, <3>2
  <2>3. QED
    BY <2>1, <2>2
<1>8. ASSUME NEW j \in 1..n, NEW k \in 1..n, q[j] = q[k], j # k PROVE FALSE
  <2>1. \A i \in 1..n : i # 1 => i - 1 \in 1..(n - 1) /\ q[i] = p[i - 1]
    BY <1>1, <1>2
  <2>2. CASE j = 1
    BY <1>2, <1>4, <1>8, <2>1, <2>2
  <2>3. CASE k = 1
    BY <1>2, <1>4, <1>8, <2>1, <2>3
  <2>4. CASE j # 1 /\ k # 1
    <3>1. j - 1 = k - 1
      BY <1>5, <1>8, <2>1, <2>4
    <3>2. QED
      BY <1>8, <3>1
  <2>5. QED
    BY <2>2, <2>3, <2>4
<1>9. Len(q) >= 1 /\ Len(q) - 1 = n /\ q[Len(q)] = target
  BY <1>1, <1>2, <1>6
<1>10. QED
  BY <1>2, <1>7, <1>8, <1>9 DEF Leads, q

LEMMA ExploredMore ==
  ASSUME NEW g, NEW target, NEW T, NEW t \in T, NEW V, NEW U, NEW W,
         Explored(g, target, T \ {t}, U, W), V \subseteq U, U \subseteq W,
         \/ U = V /\ t \in V
         \/ t # target /\ Explored(g, target, Neighbours(g, t), V \cup {t}, U) /\ t \in U
  PROVE  Explored(g, target, T, V, W)
BY DEF Explored

\* What the first neighbour of a call comes to, when all smaller calls do.
LEMMA FirstRight ==
  ASSUME NEW g, NEW target \in Waiters, NEW try, NEW c \in Calls, NEW t \in c.todo,
         \A d \in Calls : Size(d) < Size(c) => Answers(g, target, d, try[d])
  PROVE  LET first == Visit(g, target, try, t, c.visited)
         IN  /\ first \in Outcomes /\ c.visited \subseteq first.visited
             /\ first.path # NoCycle => Leads(g, target, c.todo, c.visited, first.path)
             /\ first.path = NoCycle =>
                  \/ first.visited = c.visited /\ t \in c.visited
                  \/ /\ t # target /\ t \in first.visited
                     /\ Explored(g, target, Neighbours(g, t), c.visited \cup {t}, first.visited)
<1> DEFINE first == Visit(g, target, try, t, c.visited)
           V == c.visited
<1>1. t \in Waiters /\ V \in SUBSET Waiters /\ c.todo \in SUBSET Waiters
  BY CallIs
<1>2. CASE t = target
  <2>1. first = [path |-> <<t>>, visited |-> V]
    BY <1>2 DEF Visit
  <2>2. <<t>> \in Seq(Waiters) /\ <<t>> # NoCycle
    BY <1>1 DEF NoCycle
  <2>3. first \in Outcomes /\ first.path = <<t>> /\ first.visited = V
    BY <1>1, <2>1, <2>2 DEF Outcomes
  <2> HIDE DEF first, V
  <2>4. Leads(g, target, c.todo, V, <<t>>)
    BY <1>1, <1>2 DEF Leads
  <2>5. QED
    BY <2>2, <2>3, <2>4 DEF first, V
<1>3. CASE t # target /\ t \in V
  <2>1. first = NoPath(V)
    BY <1>3 DEF Visit
  <2>2. first \in Outcomes /\ first.path = NoCycle /\ first.visited = V
    BY <1>1, <2>1 DEF NoPath, Outcomes, NoCycle
  <2> HIDE DEF first
  <2>3. QED
    BY <1>3, <2>2 DEF first
<1>4. CASE t # target /\ t \notin V
  <2> DEFINE N == Neighbours(g, t)
             d == Call(N, V \cup {t})
             rest == try[d]
  <2>1. N \in SUBSET Waiters /\ V \cup {t} \in SUBSET Waiters
    BY <1>1 DEF Neighbours
  <2>2. d \in Calls /\ d.todo = N /\ d.visited = V \cup {t} /\ Size(d) < Size(c)
    BY <1>1, <1>4, <2>1, CallIs, SizeDeeper
  <2>3. Answers(g, target, d, rest)
    BY <2>2
  <2>4. /\ rest \in Outcomes /\ V \cup {t} \subseteq rest.visited
        /\ rest.path # NoCycle => Leads(g, target, N, V \cup {t}, rest.path)
        /\ rest.path = NoCycle => Explored(g, target, N, V \cup {t}, rest.visited)
    BY <2>2, <2>3 DEF Answers
  <2>5. first = IF rest.path = NoCycle THEN rest ELSE [rest EXCEPT !.path = <<t>> \o @]
    BY <1>4 DEF Visit
  <2> HIDE DEF first, N, d, rest
  <2>6. CASE rest.path = NoCycle
    <3>1. first = rest
      BY <2>5, <2>6
    <3> HIDE DEF V
    <3>2. QED
      BY <1>4, <2>4, <2>6, <3>1 DEF first, N, V
  <2>7. CASE rest.path # NoCycle
    <3>1. rest.path \in Seq(Waiters) /\ rest.visited \in SUBSET Waiters
      BY <2>4 DEF Outcomes
    <3>2. <<t>> \o rest.path \in Seq(Waiters) /\ <<t>> \o rest.path # NoCycle
      BY <1>1, <3>1 DEF NoCycle
    <3>3. first = [path |-> <<t>> \o rest.path, visited |-> rest.visited]
      BY <2>4, <2>5, <2>7 DEF Outcomes
    <3>4. first \in Outcomes /\ first.path = <<t>> \o rest.path /\ first.visited = rest.visited
      BY <3>1, <3>2, <3>3 DEF Outcomes
    <3>5. Leads(g, target, c.todo, V, <<t>> \o rest.path)
      BY <1>1, <1>4, <2>4, <2>7, LeadsFurther DEF N
    <3> HIDE DEF V
    <3>6. QED
      BY <2>4, <3>2, <3>4, <3>5 DEF first, V
  <2>8. QED
    BY <2>6, <2>7
<1>5. QED
  BY <1>2, <1>3, <1>4

LEMMA CallRight ==
  ASSUME NEW g, NEW target \in Waiters, NEW try, NEW c \in Calls,
         \A d \in Calls : Size(d) < Size(c) => Answers(g, target, d, try[d])
  PROVE  Answers(g, target, c, VisitAny(g, target, try, c))
<1> DEFINE T == c.todo
           V == c.visited
           r == VisitAny(g, target, try, c)
<1>1. T \in SUBSET Waiters /\ V \in SUBSET Waiters
  BY CallIs
<1>2. CASE T = {}
  <2>1. r = NoPath(V)
    BY <1>2 DEF VisitAny
  <2>2. r \in Outcomes /\ r.path = NoCycle /\ r.visited = V
    BY <1>1, <2>1 DEF NoPath, Outcomes, NoCycle
  <2> HIDE DEF r
  <2>3. QED
    BY <1>2, <2>2 DEF Answers, Explored, r
<1>3. CASE T # {}
  <2> DEFINE t == Min(T)
             first == Visit(g, target, try, t, V)
             d == Call(T \ {t}, first.visited)
  <2>1. t \in T
    BY <1>1, <1>3, LeastIn
  <2>2. r = IF first.path # NoCycle THEN first ELSE try[d]
    BY <1>3 DEF VisitAny
  <2> HIDE DEF t
  <2>3. /\ first \in Outcomes /\ V \subseteq first.visited
        /\ first.path # NoCycle => Leads(g, target, T, V, first.path)
        /\ first.path = NoCycle =>
             \/ first.visited = V /\ t \in V
             \/ /\ t # target /\ t \in first.visited
                /\ Explored(g, target, Neighbours(g, t), V \cup {t}, first.visited)
    BY <2>1, FirstRight
  <2> HIDE DEF first, r
  <2>4. CASE first.path # NoCycle
    BY <2>2, <2>3, <2>4 DEF Answers, r
  <2>5. CASE first.path = NoCycle
    <3> DEFINE U == first.visited
               W == r.visited
    <3>1. U \in SUBSET Waiters /\ T \ {t} \in SUBSET Waiters
      BY <1>1, <2>3 DEF Outcomes
    <3>2. d \in Calls /\ d.todo = T \ {t} /\ d.visited = U /\ Size(d) < Size(c)
      BY <2>1, <2>3, <3>1, CallIs, SizeFewer
    <3>3. Answers(g, target, d, r)
      BY <2>2, <2>5, <3>2
    <3>4. /\ r \in Outcomes /\ U \subseteq W
          /\ r.path # NoCycle => Leads(g, target, T \ {t}, U, r.path)
          /\ r.path = NoCycle => Explored(g, target, T \ {t}, U, W)
      BY <3>2, <3>3 DEF Answers
    <3>5. V \subseteq U
      BY <2>3
    <3> HIDE DEF U, W, d, T, V
    <3>6. r.path # NoCycle => Leads(g, target, T, V, r.path)
      BY <3>4, <3>5, LeadsMore
    <3>7. r.path = NoCycle => Explored(g, target, T, V, W)
      BY <2>1, <2>3, <2>5, <3>4, <3>5, ExploredMore DEF U
    <3>8. QED
      BY <3>4, <3>5, <3>6, <3>7 DEF Answers, T, V, W, r
  <2>6. QED
    BY <2>4, <2>5
<1>4. QED
  BY <1>2, <1>3

\* A call only depends on what smaller calls come to.
LEMMA CallAgrees ==
  ASSUME NEW g, NEW target \in Waiters, NEW try, NEW again, NEW c \in Calls,
         \A d \in Calls : Size(d) < Size(c) => Answers(g, target, d, try[d]),
         \A d \in Calls : Size(d) < Size(c) => again[d] = try[d]
  PROVE  VisitAny(g, target, again, c) = VisitAny(g, target, try, c)
<1> DEFINE T == c.todo
           V == c.visited
<1>1. T \in SUBSET Waiters /\ V \in SUBSET Waiters
  BY CallIs
<1>2. CASE T = {}
  BY <1>2 DEF VisitAny
<1>3. CASE T # {}
  <2> DEFINE t == Min(T)
             first == Visit(g, target, try, t, V)
             d == Call(T \ {t}, first.visited)
  <2>1. t \in T
    BY <1>1, <1>3, LeastIn
  <2>2. first \in Outcomes /\ V \subseteq first.visited
    BY <2>1, FirstRight
  <2>3. Visit(g, target, again, t, V) = first
    <3>1. CASE t = target \/ t \in V
      BY <3>1 DEF Visit
    <3>2. CASE t # target /\ t \notin V
      <4>1. Neighbours(g, t) \in SUBSET Waiters /\ t \in Waiters \ V
        BY <1>1, <2>1, <3>2 DEF Neighbours
      <4>2. /\ Call(Neighbours(g, t), V \cup {t}) \in Calls
            /\ Size(Call(Neighbours(g, t), V \cup {t})) < Size(c)
        BY <4>1, SizeDeeper
      <4>3. again[Call(Neighbours(g, t), V \cup {t})] = try[Call(Neighbours(g, t), V \cup {t})]
        BY <4>2
      <4>4. QED
        BY <4>3 DEF Visit
    <3>3. QED
      BY <3>1, <3>2
  <2>4. again[d] = try[d]
    <3>1. first.visited \in SUBSET Waiters
      BY <2>2 DEF Outcomes
    <3>2. d \in Calls /\ Size(d) < Size(c)
      BY <2>1, <2>2, <3>1, SizeFewer
    <3>3. QED
      BY <3>2
  <2>5. VisitAny(g, target, try, c) = IF first.path # NoCycle THEN first ELSE try[d]
    BY <1>3 DEF VisitAny
  <2>6. VisitAny(g, target, again, c) = IF first.path # NoCycle THEN first ELSE again[d]
    <3> HIDE DEF t
    <3>1. VisitAny(g, target, again, c) =
            LET one == Visit(g, target, again, t, V)
            IN  IF one.path # NoCycle THEN one ELSE again[Call(T \ {t}, one.visited)]
      BY <1>3 DEF VisitAny, t
    <3> HIDE DEF first
    <3>2. QED
      BY <2>3, <3>1
  <2>7. QED
    BY <2>4, <2>5, <2>6
<1>4. QED
  BY <1>2, <1>3

\* So the search is well defined: a function that solves its equation can be
\* built for one size of calls after another.
LEMMA SearchExists ==
  ASSUME NEW g, NEW target \in Waiters
  PROVE  \E try : try = [c \in Calls |-> VisitAny(g, target, try, c)]
<1> DEFINE Solves(f, n) == \A c \in Calls : Size(c) < n =>
                             f[c] = VisitAny(g, target, f, c) /\ Answers(g, target, c, f[c])
           P == {n \in Nat : \E f : f = [c \in Calls |-> f[c]] /\ Solves(f, n)}
<1>1. 0 \in P
  <2>1. \A c \in Calls : Size(c) \in Nat
    BY SizeIsNat
  <2> DEFINE f == [c \in Calls |-> 0]
  <2>2. f = [c \in Calls |-> f[c]] /\ Solves(f, 0)
    BY <2>1
  <2>3. QED
    BY <2>2
<1>2. ASSUME NEW n \in Nat, n \in P PROVE n + 1 \in P
  <2>1. PICK f : f = [c \in Calls |-> f[c]] /\ Solves(f, n)
    BY <1>2
  <2> DEFINE e == [c \in Calls |-> VisitAny(g, target, f, c)]
  <2>2. \A c \in Calls : e[c] = VisitAny(g, target, f, c)
    OBVIOUS
  <2>3. e = [c \in Calls |-> e[c]]
    OBVIOUS
  <2> HIDE DEF e
  <2>4. ASSUME NEW c \in Calls, Size(c) < n + 1
        PROVE  e[c] = VisitAny(g, target, e, c) /\ Answers(g, target, c, e[c])
    <3>1. \A d \in Calls : Size(d) < Size(c) => Size(d) < n
      BY <2>4, SizeIsNat
    <3>2. \A d \in Calls : Size(d) < Size(c) => Answers(g, target, d, f[d])
      BY <2>1, <3>1
    <3>3. \A d \in Calls : Size(d) < Size(c) => e[d] = f[d]
      BY <2>1, <2>2, <3>1
    <3>4. VisitAny(g, target, e, c) = VisitAny(g, target, f, c)
      BY <3>2, <3>3, CallAgrees
    <3>5. Answers(g, target, c, VisitAny(g, target, f, c))
      BY <3>2, CallRight
    <3>6. QED
      BY <2>2, <3>4, <3>5
  <2>5. Solves(e, n + 1)
    BY <2>4
  <2>6. QED
    BY <2>3, <2>5
<1> DEFINE most == Cardinality(Waiters) * (Cardinality(Waiters) + 1) + Cardinality(Waiters)
<1>3. most \in Nat
  BY CountIsNat, SMTT(30)
<1>4. \A c \in Calls : Size(c) \in Nat /\ Size(c) <= most
  BY SizeIsNat
<1> HIDE DEF most, P
<1>5. most + 1 \in P
  <2>1. \A n \in Nat : n \in P
    BY <1>1, <1>2, CountsUp
  <2>2. QED
    BY <1>3, <2>1
<1>6. PICK f : f = [c \in Calls |-> f[c]] /\ Solves(f, most + 1)
  BY <1>5 DEF P
<1>7. \A c \in Calls : Size(c) < most + 1
  BY <1>3, <1>4
<1>8. \A c \in Calls : f[c] = VisitAny(g, target, f, c)
  BY <1>6, <1>7
<1>9. f = [c \in Calls |-> VisitAny(g, target, f, c)]
  BY <1>6, <1>8
<1>10. QED
  BY <1>9

LEMMA SearchIs ==
  ASSUME NEW g, NEW target \in Waiters
  PROVE  Search(g, target) = [c \in Calls |-> VisitAny(g, target, Search(g, target), c)]
<1>1. \E try : try = [c \in Calls |-> VisitAny(g, target, try, c)]
  BY SearchExists
<1>2. QED
  BY <1>1, Zenon DEF Search

LEMMA SearchRight ==
  ASSUME NEW g, NEW target \in Waiters, NEW c \in Calls
  PROVE  Answers(g, target, c, Search(g, target)[c])
<1> DEFINE try == Search(g, target)
           P == {n \in Nat : \A d \in Calls : Size(d) < n => Answers(g, target, d, try[d])}
<1>1. \A d \in Calls : try[d] = VisitAny(g, target, try, d)
  <2>1. try = [d \in Calls |-> VisitAny(g, target, try, d)]
    BY SearchIs
  <2> HIDE DEF try
  <2>2. QED
    BY <2>1
<1> HIDE DEF try
<1>2. 0 \in P
  BY SizeIsNat
<1>3. ASSUME NEW n \in Nat, n \in P PROVE n + 1 \in P
  <2>1. ASSUME NEW d \in Calls, Size(d) < n + 1 PROVE Answers(g, target, d, try[d])
    <3>1. \A b \in Calls : Size(b) < Size(d) => Size(b) < n
      BY <2>1, SizeIsNat
    <3>2. \A b \in Calls : Size(b) < Size(d) => Answers(g, target, b, try[b])
      BY <1>3, <3>1
    <3>3. Answers(g, target, d, VisitAny(g, target, try, d))
      BY <3>2, CallRight
    <3>4. QED
      BY <1>1, <3>3
  <2>2. QED
    BY <2>1
<1> HIDE DEF P
<1>4. Size(c) + 1 \in P
  <2>1. \A n \in Nat : n \in P
    BY <1>2, <1>3, CountsUp
  <2>2. QED
    BY <2>1, SizeIsNat
<1>5. Size(c) < Size(c) + 1
  BY SizeIsNat
<1>6. QED
  BY <1>4, <1>5 DEF P, try

-----------------------------------------------------------------------------
RealCycle(g, p) ==
  /\ Len(p) >= 3
  /\ p[1] = p[Len(p)]
  /\ \A k \in 1..(Len(p) - 1) : <<p[k], p[k + 1]>> \in g
  /\ \A j, k \in 1..(Len(p) - 1) : p[j] = p[k] => j = k

\* A set that no edge leaves, with the holder in it and the waiter not.
Closed(g, W) == \A x \in W : Neighbours(g, x) \subseteq W

LEMMA WaiterFirst ==
  ASSUME NEW g, NEW w \in Waiters, NEW h \in Waiters, w # h, <<w, h>> \in g,
         NEW p, Leads(g, w, {h}, {}, p)
  PROVE  RealCycle(g, <<w>> \o p)
<1> DEFINE q == <<w>> \o p
           n == Len(p)
<1>1. p \in Seq(Waiters) /\ n \in Nat /\ n >= 1 /\ p[1] = h /\ p[n] = w
  BY DEF Leads
<1>2. \A k \in 1..(n - 1) : <<p[k], p[k + 1]>> \in g /\ p[k] # w
  BY DEF Leads
<1>3. \A j, k \in 1..(n - 1) : p[j] = p[k] => j = k
  BY DEF Leads
<1>4. Len(q) = n + 1 /\ q[1] = w /\ \A k \in 2..(n + 1) : q[k] = p[k - 1]
  BY <1>1
<1> HIDE DEF q, n
<1>5. n >= 2
  <2>1. n # 1
    BY <1>1
  <2>2. QED
    BY <1>1, <2>1
<1>6. \A k \in 2..(n + 1) : k - 1 \in 1..n
  BY <1>1
<1>7. n + 1 \in 2..(n + 1) /\ (n + 1) - 1 = n /\ 2 \in 2..(n + 1) /\ 2 - 1 = 1
  BY <1>1
<1>8. q[n + 1] = w /\ q[2] = h
  BY <1>1, <1>4, <1>7
<1>9. ASSUME NEW k \in 1..n PROVE <<q[k], q[k + 1]>> \in g
  <2>1. CASE k = 1
    <3>1. q[k] = w /\ q[k + 1] = h
      BY <1>4, <1>8, <2>1
    <3>2. QED
      BY <3>1
  <2>2. CASE k # 1
    <3>1. k - 1 \in 1..(n - 1) /\ k \in 2..(n + 1) /\ k + 1 \in 2..(n + 1) /\ (k - 1) + 1 = k /\ (k + 1) - 1 = k
      BY <1>1, <1>9, <2>2
    <3>2. q[k] = p[k - 1] /\ q[k + 1] = p[k]
      BY <1>4, <3>1
    <3>3. QED
      BY <1>2, <3>1, <3>2
  <2>3. QED
    BY <2>1, <2>2
<1>10. ASSUME NEW j \in 1..n, NEW k \in 1..n, q[j] = q[k], j # k PROVE FALSE
  <2>1. \A i \in 1..n : i # 1 => i - 1 \in 1..(n - 1) /\ q[i] = p[i - 1]
    BY <1>1, <1>4
  <2>2. CASE j = 1
    BY <1>2, <1>4, <1>10, <2>1, <2>2
  <2>3. CASE k = 1
    BY <1>2, <1>4, <1>10, <2>1, <2>3
  <2>4. CASE j # 1 /\ k # 1
    <3>1. j - 1 = k - 1
      BY <1>3, <1>10, <2>1, <2>4
    <3>2. QED
      BY <1>10, <3>1
  <2>5. QED
    BY <2>2, <2>3, <2>4
<1>11. Len(q) >= 3 /\ Len(q) - 1 = n /\ q[1] = q[Len(q)]
  BY <1>1, <1>4, <1>5, <1>8
<1>12. QED
  BY <1>9, <1>10, <1>11 DEF RealCycle, q

\* What detectWaitForCycle returns for an edge of the graph.
LEMMA DetectRight ==
  ASSUME NEW g, NEW w \in Waiters, NEW h \in Waiters, w # h, <<w, h>> \in g
  PROVE  LET cycle == DetectWaitForCycle(g, <<w, h>>)
         IN  /\ cycle # NoCycle => RealCycle(g, cycle)
             /\ cycle = NoCycle =>
                  \E W \in SUBSET Waiters : h \in W /\ w \notin W /\ Closed(g, W)
<1> DEFINE c == Call({h}, {})
           try == Search(g, w)
           first == Visit(g, w, try, h, {})
           cycle == DetectWaitForCycle(g, <<w, h>>)
<1>1. c \in Calls /\ c.todo = {h} /\ c.visited = {}
  BY CallIs
<1>2. \A d \in Calls : Size(d) < Size(c) => Answers(g, w, d, try[d])
  BY SearchRight
<1>3. cycle = IF first.path = NoCycle THEN NoCycle ELSE <<w>> \o first.path
  BY DEF DetectWaitForCycle
<1> HIDE DEF try, c
<1>4. LET one == Visit(g, w, try, h, c.visited)
      IN  /\ one \in Outcomes
          /\ one.path # NoCycle => Leads(g, w, c.todo, c.visited, one.path)
          /\ one.path = NoCycle =>
               \/ one.visited = c.visited /\ h \in c.visited
               \/ /\ h # w /\ h \in one.visited
                  /\ Explored(g, w, Neighbours(g, h), c.visited \cup {h}, one.visited)
  <2>1. h \in c.todo
    BY <1>1
  <2>2. QED
    BY <1>1, <1>2, <2>1, FirstRight
<1>5. /\ first \in Outcomes
      /\ first.path # NoCycle => Leads(g, w, {h}, {}, first.path)
      /\ first.path = NoCycle =>
           h \in first.visited /\ Explored(g, w, Neighbours(g, h), {h}, first.visited)
  BY <1>1, <1>4
<1> HIDE DEF first, cycle
<1>6. CASE first.path # NoCycle
  <2>1. cycle = <<w>> \o first.path /\ first.path \in Seq(Waiters)
    BY <1>3, <1>5, <1>6 DEF Outcomes
  <2>2. RealCycle(g, cycle)
    BY <1>5, <1>6, <2>1, WaiterFirst
  <2>3. cycle # NoCycle
    BY <2>1 DEF NoCycle
  <2>4. QED
    BY <2>2, <2>3 DEF cycle
<1>7. CASE first.path = NoCycle
  <2> DEFINE W == first.visited
  <2>1. W \in SUBSET Waiters /\ h \in W /\ w \notin W /\ Closed(g, W)
    BY <1>5, <1>7 DEF Outcomes, Explored, Closed
  <2>2. cycle = NoCycle
    BY <1>3, <1>7
  <2>3. QED
    BY <2>1, <2>2 DEF cycle
<1>8. QED
  BY <1>6, <1>7

\* An edge out of a closed set's outside brings no cycle.
LEMMA StaysAcyclic ==
  ASSUME NEW g, NEW w \in Waiters, NEW h \in Waiters, Acyclic(g), NEW W \in SUBSET Waiters,
         h \in W, w \notin W, Closed(g \cup {<<w, h>>}, W)
  PROVE  Acyclic(g \cup {<<w, h>>})
<1> DEFINE more == g \cup {<<w, h>>}
<1>1. SUFFICES ASSUME NEW S \in SUBSET Waiters, S # {}
               PROVE  \E t \in S : \A k \in S : <<t, k>> \notin more
  BY DEF Acyclic
<1>2. CASE S \cap W = {}
  <2>1. PICK t \in S : \A k \in S : <<t, k>> \notin g
    BY <1>1 DEF Acyclic
  <2>2. \A k \in S : <<t, k>> \notin more
    BY <1>2, <2>1
  <2>3. QED
    BY <2>2
<1>3. CASE S \cap W # {}
  <2>1. S \cap W \in (SUBSET Waiters) \ {{}}
    BY <1>3
  <2>2. PICK t \in S \cap W : \A k \in S \cap W : <<t, k>> \notin g
    BY <2>1 DEF Acyclic
  <2>3. ASSUME NEW k \in S, <<t, k>> \in more PROVE FALSE
    <3>1. k \in W
      BY <2>2, <2>3 DEF Closed, Neighbours
    <3>2. t # w
      BY <2>2
    <3>3. QED
      BY <2>2, <2>3, <3>1, <3>2
  <2>4. QED
    BY <2>2, <2>3
<1>4. QED
  BY <1>2, <1>3

LEMMA FewerAcyclic ==
  ASSUME NEW g, NEW less, less \subseteq g, Acyclic(g)
  PROVE  Acyclic(less)
BY DEF Acyclic

DetectorInv == edges \subseteq Edges /\ reported \in BOOLEAN /\ DetectorIsExact

LEMMA DetectorStarts == DetectorInit => DetectorInv
<1>1. ASSUME DetectorInit PROVE Acyclic(edges)
  BY <1>1 DEF DetectorInit, Acyclic
<1>2. QED
  BY <1>1 DEF DetectorInit, DetectorInv, DetectorIsExact, CycleIsReal, NoDeadlockUnseen

LEMMA DetectorKept ==
  ASSUME DetectorInv, DetectorNext \/ UNCHANGED detector
  PROVE  DetectorInv'
<1>1. ASSUME NEW e \in Edges, Register(e) PROVE DetectorInv'
  <2> DEFINE w == e[1]
             h == e[2]
  <2>1. w \in Waiters /\ h \in Waiters /\ w # h /\ e = <<w, h>>
    BY DEF Edges
  <2>2. edges' = edges \cup {e} /\ found' = DetectWaitForCycle(edges', <<w, h>>)
        /\ reported' = (reported \/ found' # NoCycle)
    BY <1>1, <2>1 DEF Register
  <2> HIDE DEF w, h
  <2>3. <<w, h>> \in edges'
    BY <2>1, <2>2
  <2>4. /\ found' # NoCycle => RealCycle(edges', found')
        /\ found' = NoCycle => \E W \in SUBSET Waiters : h \in W /\ w \notin W /\ Closed(edges', W)
    BY <2>1, <2>2, <2>3, DetectRight
  <2>5. CycleIsReal'
    BY <2>4 DEF CycleIsReal, RealCycle, NoCycle
  <2>6. Acyclic(edges') \/ reported'
    <3>1. CASE reported \/ found' # NoCycle
      BY <2>2, <3>1
    <3>2. CASE ~reported /\ found' = NoCycle
      <4>1. Acyclic(edges)
        BY <3>2 DEF DetectorInv, DetectorIsExact, NoDeadlockUnseen
      <4>2. PICK W \in SUBSET Waiters : h \in W /\ w \notin W /\ Closed(edges', W)
        BY <2>4, <3>2
      <4>3. edges' = edges \cup {<<w, h>>}
        BY <2>1, <2>2
      <4>4. QED
        BY <2>1, <4>1, <4>2, <4>3, StaysAcyclic
    <3>3. QED
      BY <3>1, <3>2
  <2>7. NoDeadlockUnseen'
    BY <2>6 DEF NoDeadlockUnseen, Acyclic
  <2>8. (edges \subseteq Edges)' /\ (reported \in BOOLEAN)'
    BY <2>2 DEF DetectorInv, Edges
  <2>9. QED
    BY <2>5, <2>7, <2>8 DEF DetectorInv, DetectorIsExact
<1>2. ASSUME NEW e \in edges, Unregister(e) PROVE DetectorInv'
  <2>1. /\ edges' = edges \ {e} /\ found' = NoCycle
        /\ reported' = (reported /\ ~Acyclic(edges'))
    BY <1>2 DEF Unregister
  <2>2. Acyclic(edges') \/ reported'
    <3>1. CASE reported
      BY <2>1, <3>1
    <3>2. CASE ~reported
      <4>1. Acyclic(edges) /\ edges' \subseteq edges
        BY <2>1, <3>2 DEF DetectorInv, DetectorIsExact, NoDeadlockUnseen
      <4>2. QED
        BY <4>1, FewerAcyclic
    <3>3. QED
      BY <3>1, <3>2
  <2>3. NoDeadlockUnseen'
    BY <2>2 DEF NoDeadlockUnseen, Acyclic
  <2>4. CycleIsReal'
    BY <2>1 DEF CycleIsReal, NoCycle
  <2>5. (edges \subseteq Edges)' /\ (reported \in BOOLEAN)'
    BY <2>1 DEF DetectorInv, Edges
  <2>6. QED
    BY <2>3, <2>4, <2>5 DEF DetectorInv, DetectorIsExact
<1>3. CASE UNCHANGED detector
  BY <1>3 DEF detector, DetectorInv, DetectorIsExact, CycleIsReal, NoDeadlockUnseen, Acyclic, Edges, NoCycle
<1>4. QED
  BY <1>1, <1>2, <1>3 DEF DetectorNext
-----------------------------------------------------------------------------
(* Every cycle detectWaitForCycle reports is one of registered waits, and  *)
(* no deadlock goes unreported, for any finite number of transactions.     *)
THEOREM DetectorIsExactHolds == DetectorSpec => []DetectorIsExact
<1>1. DetectorInv /\ [DetectorNext]_detector => DetectorInv'
  BY DetectorKept
<1>2. DetectorInv => DetectorIsExact
  BY DEF DetectorInv
<1>3. QED
  BY <1>1, <1>2, DetectorStarts, PTL DEF DetectorSpec

-----------------------------------------------------------------------------
(* Playback: numbers and sets                                              *)

LEMMA LeastIs ==
  ASSUME NEW S, NEW x \in S, x \in Int, \A y \in S : y \in Int /\ x <= y
  PROVE  Min(S) = x
<1>1. \A z \in S : (\A y \in S : z <= y) => z = x
  OBVIOUS
<1>2. QED
  BY <1>1 DEF Min

LEMMA GreatestIs ==
  ASSUME NEW S, NEW x \in S, x \in Int, \A y \in S : y \in Int /\ y <= x
  PROVE  Max(S) = x
<1>1. \A z \in S : (\A y \in S : z >= y) => z = x
  OBVIOUS
<1>2. QED
  BY <1>1 DEF Max

LEMMA GreaterOfTwo ==
  ASSUME NEW a \in Int, NEW b \in Int
  PROVE  Max({a, b}) = IF a >= b THEN a ELSE b
BY DEF Max

LEMMA LesserOfTwo ==
  ASSUME NEW a \in Int, NEW b \in Int
  PROVE  Min({a, b}) = IF a <= b THEN a ELSE b
BY DEF Min

(* Of some places, the last one in the order of their values.              *)
LastIn(f, J, i) == \A j \in J \ {i} : f[j] < f[i] \/ (f[j] = f[i] /\ j < i)
FirstIn(f, J, i) == \A j \in J \ {i} : f[i] < f[j] \/ (f[i] = f[j] /\ i < j)

LEMMA LastExists ==
  ASSUME NEW n \in Nat, NEW J \in SUBSET (1..n), J # {},
         NEW f, \A i \in J : f[i] \in Int
  PROVE  \E i \in J : LastIn(f, J, i)
<1> DEFINE Upto(m) == {j \in J : j <= m}
           P == {m \in Nat : Upto(m) = {} \/ \E i \in Upto(m) : LastIn(f, Upto(m), i)}
<1>0. \A j \in J : j \in Nat /\ 1 <= j /\ j <= n
  OBVIOUS
<1>1. 0 \in P
  <2>1. Upto(0) = {}
    <3>1. \A j \in J : ~ (j <= 0)
      BY <1>0
    <3>2. QED
      BY <3>1
  <2>2. QED
    BY <2>1
<1>2. ASSUME NEW m \in Nat, m \in P PROVE m + 1 \in P
  <2>0. \A j \in J : j <= m + 1 <=> j <= m \/ j = m + 1
    BY <1>0
  <2>1. CASE m + 1 \notin J
    <3>1. Upto(m + 1) = Upto(m)
      BY <2>0, <2>1
    <3>2. QED
      BY <1>2, <3>1
  <2>2. CASE m + 1 \in J
    <3>1. Upto(m + 1) = Upto(m) \cup {m + 1}
      BY <2>0, <2>2
    <3>2. CASE Upto(m) = {}
      <4>1. Upto(m + 1) = {m + 1}
        BY <3>1, <3>2
      <4>2. LastIn(f, Upto(m + 1), m + 1)
        BY <4>1 DEF LastIn
      <4>3. QED
        BY <4>1, <4>2
    <3>3. CASE Upto(m) # {}
      <4>1. PICK i \in Upto(m) : LastIn(f, Upto(m), i)
        BY <1>2, <3>3
      <4>2. \A j \in Upto(m) : j \in Int /\ f[j] \in Int /\ j < m + 1
        OBVIOUS
      <4>3. f[m + 1] \in Int
        BY <2>2
      <4>4. CASE f[m + 1] >= f[i]
        <5>1. ASSUME NEW j \in Upto(m) PROVE f[j] <= f[m + 1]
          BY <4>1, <4>2, <4>3, <4>4, <5>1 DEF LastIn
        <5>2. LastIn(f, Upto(m + 1), m + 1)
          BY <3>1, <4>2, <4>3, <5>1 DEF LastIn
        <5>3. m + 1 \in Upto(m + 1)
          BY <3>1
        <5> HIDE DEF Upto
        <5>4. QED
          BY <5>2, <5>3
      <4>5. CASE f[m + 1] < f[i]
        <5>1. LastIn(f, Upto(m + 1), i)
          BY <3>1, <4>1, <4>5 DEF LastIn
        <5>2. i \in Upto(m + 1)
          BY <3>1
        <5> HIDE DEF Upto
        <5>3. QED
          BY <5>1, <5>2
      <4>6. QED
        BY <4>2, <4>3, <4>4, <4>5
    <3>4. QED
      BY <3>2, <3>3
  <2>3. QED
    BY <2>1, <2>2
<1> HIDE DEF P
<1>3. \A m \in Nat : m \in P
  BY <1>1, <1>2, CountsUp
<1>4. Upto(n) = J
  BY <1>0
<1>5. QED
  BY <1>3, <1>4 DEF P

LEMMA FirstExists ==
  ASSUME NEW n \in Nat, NEW J \in SUBSET (1..n), J # {},
         NEW f, \A i \in J : f[i] \in Int
  PROVE  \E i \in J : FirstIn(f, J, i)
<1> DEFINE Upto(m) == {j \in J : j <= m}
           P == {m \in Nat : Upto(m) = {} \/ \E i \in Upto(m) : FirstIn(f, Upto(m), i)}
<1>0. \A j \in J : j \in Nat /\ 1 <= j /\ j <= n
  OBVIOUS
<1>1. 0 \in P
  <2>1. Upto(0) = {}
    <3>1. \A j \in J : ~ (j <= 0)
      BY <1>0
    <3>2. QED
      BY <3>1
  <2>2. QED
    BY <2>1
<1>2. ASSUME NEW m \in Nat, m \in P PROVE m + 1 \in P
  <2>0. \A j \in J : j <= m + 1 <=> j <= m \/ j = m + 1
    BY <1>0
  <2>1. CASE m + 1 \notin J
    <3>1. Upto(m + 1) = Upto(m)
      BY <2>0, <2>1
    <3>2. QED
      BY <1>2, <3>1
  <2>2. CASE m + 1 \in J
    <3>1. Upto(m + 1) = Upto(m) \cup {m + 1}
      BY <2>0, <2>2
    <3>2. CASE Upto(m) = {}
      <4>1. Upto(m + 1) = {m + 1}
        BY <3>1, <3>2
      <4>2. FirstIn(f, Upto(m + 1), m + 1)
        BY <4>1 DEF FirstIn
      <4>3. QED
        BY <4>1, <4>2
    <3>3. CASE Upto(m) # {}
      <4>1. PICK i \in Upto(m) : FirstIn(f, Upto(m), i)
        BY <1>2, <3>3
      <4>2. \A j \in Upto(m) : j \in Int /\ f[j] \in Int /\ j < m + 1
        OBVIOUS
      <4>3. f[m + 1] \in Int
        BY <2>2
      <4>4. CASE f[m + 1] < f[i]
        <5>1. ASSUME NEW j \in Upto(m) PROVE f[m + 1] < f[j]
          BY <4>1, <4>2, <4>3, <4>4, <5>1 DEF FirstIn
        <5>2. FirstIn(f, Upto(m + 1), m + 1)
          BY <3>1, <4>2, <4>3, <5>1 DEF FirstIn
        <5>3. m + 1 \in Upto(m + 1)
          BY <3>1
        <5> HIDE DEF Upto
        <5>4. QED
          BY <5>2, <5>3
      <4>5. CASE f[m + 1] >= f[i]
        <5>1. FirstIn(f, Upto(m + 1), i)
          BY <3>1, <4>1, <4>2, <4>3, <4>5 DEF FirstIn
        <5>2. i \in Upto(m + 1)
          BY <3>1
        <5> HIDE DEF Upto
        <5>3. QED
          BY <5>1, <5>2
      <4>6. QED
        BY <4>2, <4>3, <4>4, <4>5
    <3>4. QED
      BY <3>2, <3>3
  <2>3. QED
    BY <2>1, <2>2
<1> HIDE DEF P
<1>3. \A m \in Nat : m \in P
  BY <1>1, <1>2, CountsUp
<1>4. Upto(n) = J
  BY <1>0
<1>5. QED
  BY <1>3, <1>4 DEF P

(* The greatest and the least of finitely many values.                     *)
LEMMA GreatestOf ==
  ASSUME NEW n \in Nat, NEW J \in SUBSET (1..n), J # {},
         NEW f, \A i \in J : f[i] \in Int
  PROVE  \E i \in J : Max({f[j] : j \in J}) = f[i] /\ \A j \in J : f[j] <= f[i]
<1>1. PICK i \in J : LastIn(f, J, i)
  BY LastExists
<1>2. \A j \in J : f[j] <= f[i]
  BY <1>1 DEF LastIn
<1>3. Max({f[j] : j \in J}) = f[i]
  BY <1>2, GreatestIs
<1>4. QED
  BY <1>2, <1>3

LEMMA LeastOf ==
  ASSUME NEW n \in Nat, NEW J \in SUBSET (1..n), J # {},
         NEW f, \A i \in J : f[i] \in Int
  PROVE  \E i \in J : Min({f[j] : j \in J}) = f[i] /\ \A j \in J : f[i] <= f[j]
<1>1. PICK i \in J : FirstIn(f, J, i)
  BY FirstExists
<1>2. \A j \in J : f[i] <= f[j]
  BY <1>1 DEF FirstIn
<1>3. Min({f[j] : j \in J}) = f[i]
  BY <1>2, LeastIs
<1>4. QED
  BY <1>2, <1>3

(* A recursion of n steps: step k maps the values allowed at k - 1 to      *)
(* values allowed at k.                                                    *)
Iterates(f, n, base, G) == f = [k \in 0..n |-> IF k = 0 THEN base ELSE G[k][f[k - 1]]]

LEMMA IterationExists ==
  ASSUME NEW n \in Nat, NEW A, NEW base \in A[0], NEW G,
         \A k \in 1..n : \A x \in A[k - 1] : G[k][x] \in A[k]
  PROVE  \E f : Iterates(f, n, base, G) /\ \A k \in 0..n : f[k] \in A[k]
<1> DEFINE Right(m, f) == Iterates(f, m, base, G) /\ \A k \in 0..m : f[k] \in A[k]
           P == {m \in Nat : m <= n => \E f : Right(m, f)}
<1>1. 0 \in P
  <2> DEFINE f == [k \in 0..0 |-> base]
  <2>1. Right(0, f)
    BY DEF Iterates
  <2>2. QED
    BY <2>1
<1>2. ASSUME NEW m \in Nat, m \in P PROVE m + 1 \in P
  <2>1. SUFFICES ASSUME m + 1 <= n PROVE \E f : Right(m + 1, f)
    OBVIOUS
  <2>2. PICK f : Right(m, f)
    BY <1>2, <2>1
  <2> DEFINE g == [k \in 0..(m + 1) |-> IF k <= m THEN f[k] ELSE G[m + 1][f[m]]]
  <2>3. \A k \in 0..m : f[k] = IF k = 0 THEN base ELSE G[k][f[k - 1]]
    BY <2>2 DEF Iterates
  <2>4. ASSUME NEW k \in 0..(m + 1)
        PROVE  g[k] = IF k = 0 THEN base ELSE G[k][g[k - 1]]
    <3>1. CASE k = 0
      <4>1. 0 \in 0..m /\ 0 \in 0..(m + 1) /\ 0 <= m
        OBVIOUS
      <4>2. g[0] = f[0] /\ f[0] = base
        BY <2>3, <4>1
      <4>3. QED
        BY <3>1, <4>2
    <3>2. CASE k # 0
      <4>1. k - 1 \in 0..m /\ k - 1 <= m /\ k - 1 \in 0..(m + 1)
        BY <3>2
      <4>2. g[k - 1] = f[k - 1]
        BY <4>1
      <4>3. g[k] = G[k][f[k - 1]]
        <5>1. CASE k <= m
          <6>1. k \in 0..m /\ g[k] = f[k]
            BY <5>1
          <6>2. QED
            BY <2>3, <3>2, <6>1
        <5>2. CASE ~(k <= m)
          <6>1. k - 1 = m /\ k = m + 1
            BY <5>2
          <6>2. g[k] = G[m + 1][f[m]]
            BY <5>2
          <6> HIDE DEF g
          <6>3. QED
            BY <6>1, <6>2
        <5>3. QED
          BY <5>1, <5>2
      <4> HIDE DEF g
      <4>4. QED
        BY <3>2, <4>2, <4>3
    <3>3. QED
      BY <3>1, <3>2
  <2>5. ASSUME NEW k \in 0..(m + 1) PROVE g[k] \in A[k]
    <3>1. CASE k <= m
      BY <2>2, <3>1
    <3>2. CASE ~(k <= m)
      <4>1. k = m + 1 /\ m + 1 \in 1..n /\ (m + 1) - 1 = m /\ m \in 0..m
        BY <2>1, <3>2
      <4>2. f[m] \in A[m]
        BY <2>2, <4>1
      <4>3. G[m + 1][f[m]] \in A[m + 1]
        BY <4>1, <4>2
      <4>4. QED
        BY <3>2, <4>1, <4>3
    <3>3. QED
      BY <3>1, <3>2
  <2> HIDE DEF g
  <2>6. g = [k \in 0..(m + 1) |-> g[k]]
    BY DEF g
  <2>7. Iterates(g, m + 1, base, G)
    BY <2>4, <2>6 DEF Iterates
  <2>8. QED
    BY <2>5, <2>7
<1> HIDE DEF P
<1>3. \A m \in Nat : m \in P
  BY <1>1, <1>2, CountsUp
<1>4. QED
  BY <1>3 DEF P

-----------------------------------------------------------------------------
(* Playback: the schedule                                                  *)

Entries == [at : Nat, dur : Nat, hop : Nat, status : DOMAIN StatusHold, deps : SUBSET Nat]

LEMMA ReceiptFacts ==
  ASSUME NEW r, IsReceipt(r)
  PROVE  /\ r \in Seq(Entries) /\ Len(r) \in Nat /\ DOMAIN r = 1..Len(r)
         /\ \A i \in DOMAIN r : /\ i \in Nat /\ r[i] \in Entries
                                /\ r[i].at \in Nat /\ r[i].dur \in Nat
                                /\ \A d \in r[i].deps : /\ d \in 1..(i - 1) /\ d \in DOMAIN r
                                                        /\ ModelEnd(r[d]) <= r[i].at
<1>1. r \in Seq(Entries)
  BY DEF IsReceipt, Entries
<1>2. Len(r) \in Nat /\ DOMAIN r = 1..Len(r)
  BY <1>1
<1>3. ASSUME NEW i \in DOMAIN r
      PROVE  i \in Nat /\ r[i] \in Entries /\ r[i].at \in Nat /\ r[i].dur \in Nat
  <2>1. i \in Nat
    BY <1>2, <1>3
  <2>2. r[i] \in Entries
    BY <1>1, <1>3
  <2>3. \A e \in Entries : e.at \in Nat /\ e.dur \in Nat
    BY DEF Entries
  <2>4. QED
    BY <2>1, <2>2, <2>3
<1>4. ASSUME NEW i \in DOMAIN r, NEW d \in r[i].deps
      PROVE  d \in 1..(i - 1) /\ d \in DOMAIN r /\ ModelEnd(r[d]) <= r[i].at
  <2>1. d \in 1..(i - 1) /\ ModelEnd(r[d]) <= r[i].at
    BY <1>4 DEF IsReceipt
  <2>2. QED
    BY <1>2, <1>3, <1>4, <2>1
<1>5. QED
  BY <1>1, <1>2, <1>3, <1>4

(* An event stays on the screen from 520 to 1050 ms.                       *)
LEMMA LifeInRange ==
  ASSUME NEW e \in Entries
  PROVE  Life(e) \in 520..1050 /\ Life(e) \in Nat
<1> DEFINE shown == Min({500, e.dur})
           tenth == shown \div 10
           value == 455 + e.hop + tenth + StatusHold[e.status]
           capped == Min({MAX_LIFE_MS, value})
<1>1. e.dur \in Nat /\ e.hop \in Nat /\ e.status \in {"success", "warning", "failed"}
  BY DEF Entries, StatusHold
<1>2. StatusHold[e.status] \in Nat
  BY <1>1 DEF StatusHold
<1>3. shown \in Int
  BY <1>1, LesserOfTwo
<1> HIDE DEF shown
<1>4. tenth \in Int
  BY <1>3
<1> HIDE DEF tenth
<1>5. value \in Int
  BY <1>1, <1>2, <1>4
<1> HIDE DEF value
<1>6. capped \in Int /\ capped <= MAX_LIFE_MS
  BY <1>5, LesserOfTwo DEF MAX_LIFE_MS
<1>7. Life(e) = Max({MIN_LIFE_MS, capped})
  BY DEF Life, Clamped, capped, value, tenth, shown
<1> HIDE DEF capped
<1>8. MIN_LIFE_MS = 520 /\ MAX_LIFE_MS = 1050
  BY DEF MIN_LIFE_MS, MAX_LIFE_MS
<1>9. Life(e) = IF 520 >= capped THEN 520 ELSE capped
  BY <1>6, <1>7, <1>8, GreaterOfTwo
<1>10. QED
  BY <1>6, <1>8, <1>9

LEMMA EvaluatedIs ==
  ASSUME NEW n \in Nat, NEW A, NEW f \in [1..n -> A]
  PROVE  Evaluated(f) = f /\ f \in Seq(A)
<1>1. f \in Seq(A)
  OBVIOUS
<1>2. <<>> \o f = f
  BY <1>1
<1>3. QED
  BY <1>1, <1>2 DEF Evaluated

(* The event of a receipt that starts first opens the first group.         *)
LEMMA FirstEvent ==
  ASSUME NEW r, IsReceipt(r), r # <<>>
  PROVE  \E e \in Heads(r) :
           /\ e \in DOMAIN r /\ r[e].deps = {}
           /\ \A j \in DOMAIN r : r[e].at <= r[j].at
<1> DEFINE at == [i \in DOMAIN r |-> r[i].at]
<1>1. \A i \in DOMAIN r : at[i] \in Int /\ at[i] = r[i].at
  BY ReceiptFacts
<1>2. DOMAIN r # {} /\ DOMAIN r = 1..Len(r) /\ Len(r) \in Nat
  BY ReceiptFacts
<1> HIDE DEF at
<1>3. PICK e \in DOMAIN r : FirstIn(at, DOMAIN r, e)
  BY <1>1, <1>2, FirstExists
<1>4. ASSUME NEW j \in DOMAIN r, j # e PROVE Before(r, e, j)
  BY <1>1, <1>3, <1>4 DEF FirstIn, Before
<1>5. ASSUME NEW j \in DOMAIN r, Before(r, j, e) PROVE FALSE
  <2>1. j \in Int /\ e \in Int /\ r[j].at \in Int /\ r[e].at \in Int
    BY ReceiptFacts, <1>5
  <2>2. j # e
    BY <1>5, <2>1 DEF Before
  <2>3. QED
    BY <1>4, <1>5, <2>1, <2>2 DEF Before
<1>6. e \in Heads(r)
  BY <1>5 DEF Heads
<1>7. ASSUME NEW j \in DOMAIN r PROVE r[e].at <= r[j].at
  BY <1>1, <1>4, <1>7 DEF Before
<1>8. r[e].deps = {}
  <2>1. SUFFICES ASSUME NEW d \in r[e].deps PROVE FALSE
    OBVIOUS
  <2>2. d \in 1..(e - 1) /\ d \in DOMAIN r /\ ModelEnd(r[d]) <= r[e].at
    BY ReceiptFacts
  <2>3. r[d].at \in Nat /\ r[d].dur \in Nat /\ r[e].at \in Nat /\ e \in Nat
    BY ReceiptFacts, <2>2
  <2>4. r[d].at <= r[e].at
    BY <2>2, <2>3 DEF ModelEnd
  <2>5. Before(r, d, e)
    BY <2>2, <2>3, <2>4 DEF Before
  <2>6. QED
    BY <1>5, <2>2, <2>5
<1>9. QED
  BY <1>6, <1>7, <1>8

(* Each event belongs to the group of the last head at or before it.       *)
LEMMA OpenerIs ==
  ASSUME NEW r, IsReceipt(r)
  PROVE  /\ DOMAIN Openers(r) = DOMAIN r
         /\ Openers(r) \in Seq(Heads(r))
         /\ \A i \in DOMAIN r :
              LET h == Openers(r)[i]
              IN  /\ h \in Heads(r) /\ h \in DOMAIN r /\ r[h].at <= r[i].at
                  /\ \A g \in Heads(r) : r[g].at <= r[i].at => r[g].at <= r[h].at
<1> DEFINE LastHead(i) == CHOOSE h \in Heads(r) :
                            /\ r[h].at <= r[i].at
                            /\ \A g \in Heads(r) : r[g].at <= r[i].at => r[g].at <= r[h].at
           f == [i \in DOMAIN r |-> LastHead(i)]
<1>1. ASSUME NEW i \in DOMAIN r
      PROVE  \E h \in Heads(r) :
               /\ r[h].at <= r[i].at
               /\ \A g \in Heads(r) : r[g].at <= r[i].at => r[g].at <= r[h].at
  <2> DEFINE J == {h \in Heads(r) : r[h].at <= r[i].at}
             at == [j \in DOMAIN r |-> r[j].at]
  <2>1. \A j \in DOMAIN r : at[j] \in Int /\ at[j] = r[j].at
    BY ReceiptFacts
  <2>2. Len(r) \in Nat /\ J \in SUBSET (1..Len(r))
    BY ReceiptFacts DEF Heads
  <2>3. J # {}
    <3>1. r # <<>>
      BY <1>1
    <3>2. QED
      BY <1>1, <3>1, FirstEvent
  <2>4. \A h \in J : h \in DOMAIN r
    BY DEF Heads
  <2> HIDE DEF at
  <2>5. PICK h \in J : \A j \in J : at[j] <= at[h]
    <3> HIDE DEF J
    <3>1. \A j \in J : at[j] \in Int
      BY <2>1, <2>4
    <3>2. QED
      BY <2>2, <2>3, <3>1, GreatestOf
  <2>6. QED
    BY <2>1, <2>4, <2>5
<1>2. ASSUME NEW i \in DOMAIN r
      PROVE  /\ LastHead(i) \in Heads(r)
             /\ r[LastHead(i)].at <= r[i].at
             /\ \A g \in Heads(r) : r[g].at <= r[i].at => r[g].at <= r[LastHead(i)].at
  BY <1>1, <1>2
<1>3. Openers(r) = Evaluated(f)
  BY DEF Openers
<1> HIDE DEF LastHead
<1>4. f \in [1..Len(r) -> Heads(r)] /\ Len(r) \in Nat /\ DOMAIN r = 1..Len(r)
  BY <1>2, ReceiptFacts
<1>5. Openers(r) = f /\ f \in Seq(Heads(r))
  <2> HIDE DEF f
  <2>1. QED
    BY <1>3, <1>4, EvaluatedIs
<1>6. \A h \in Heads(r) : h \in DOMAIN r
  BY DEF Heads
<1>7. QED
  BY <1>2, <1>5, <1>6

LEMMA QuotientIsNat ==
  ASSUME NEW a \in Nat, NEW b \in Nat, NEW d \in Nat, d > 0
  PROVE  (a * b) \div d \in Nat /\ (a = 0 => (a * b) \div d = 0)
<1> DEFINE c == a * b
<1>1. c \in Nat
  BY SMTT(30)
<1>2. a = 0 => c = 0
  BY SMTT(30)
<1> HIDE DEF c
<1>3. c \div d \in Nat /\ (c = 0 => c \div d = 0)
  BY <1>1, SMTT(30)
<1>4. QED
  BY <1>2, <1>3 DEF c

LEMMA OffsetIsNat ==
  ASSUME NEW r, IsReceipt(r), NEW i \in DOMAIN r
  PROVE  /\ Offset(r, Openers(r), i) \in Nat
         /\ r[Openers(r)[i]].at = r[i].at => Offset(r, Openers(r), i) = 0
<1> DEFINE h == Openers(r)[i]
           since == r[i].at - r[h].at
           lasting == {m \in DOMAIN r : Openers(r)[m] = h /\ r[m].dur > 0}
           f == [m \in lasting |-> (since * Life(r[m])) \div r[m].dur]
<1>1. r[h].at \in Nat /\ r[i].at \in Nat /\ r[h].at <= r[i].at
  BY OpenerIs, ReceiptFacts
<1>2. since \in Nat /\ (r[h].at = r[i].at => since = 0)
  BY <1>1
<1>3. ASSUME NEW m \in lasting
      PROVE  f[m] \in Nat /\ (since = 0 => f[m] = 0)
  <2>1. r[m].dur \in Nat /\ r[m].dur > 0 /\ r[m] \in Entries
    BY <1>3, ReceiptFacts
  <2>2. Life(r[m]) \in Nat
    BY <2>1, LifeInRange
  <2>3. f[m] = (since * Life(r[m])) \div r[m].dur
    BY <1>3
  <2> HIDE DEF since, f
  <2>4. QED
    BY <1>2, <2>1, <2>2, <2>3, QuotientIsNat
<1>4. Offset(r, Openers(r), i) = IF lasting = {} THEN 0 ELSE Min({f[m] : m \in lasting})
  <2>1. {f[m] : m \in lasting} = {((r[i].at - r[h].at) * Life(r[m])) \div r[m].dur : m \in lasting}
    OBVIOUS
  <2> HIDE DEF f
  <2>2. QED
    BY <2>1 DEF Offset
<1>5. lasting \in SUBSET (1..Len(r)) /\ Len(r) \in Nat
  BY ReceiptFacts
<1> HIDE DEF f, lasting, since
<1>6. CASE lasting = {}
  BY <1>4, <1>6
<1>7. CASE lasting # {}
  <2>1. \A m \in lasting : f[m] \in Int
    BY <1>3
  <2>2. PICK m \in lasting : Min({f[j] : j \in lasting}) = f[m]
    BY <1>5, <1>7, <2>1, LeastOf
  <2>3. QED
    BY <1>2, <1>3, <1>4, <1>7, <2>2
<1>8. QED
  BY <1>6, <1>7

(* A group ends before the next one is opened, so none is given less room  *)
(* than it shows.                                                          *)
LEMMA SpanIsNat ==
  ASSUME NEW r, IsReceipt(r), NEW h \in ToSet(Openers(r))
  PROVE  Span(r, Openers(r), h) \in Nat
<1> DEFINE opener == Openers(r)
           group == {i \in DOMAIN r : opener[i] = h}
           shown == [i \in group |-> Offset(r, opener, i) + Life(r[i])]
           ended == [i \in group |-> ModelEnd(r[i])]
           next == {j \in ToSet(opener) : r[j].at > r[h].at}
           opened == [g \in next |-> r[g].at]
           visual == Max({shown[i] : i \in group})
           over == Max({ended[i] : i \in group})
           later == Min({opened[g] : g \in next})
           gap == later - over
<1>1. ASSUME NEW j \in ToSet(opener)
      PROVE  j \in Heads(r) /\ j \in DOMAIN r /\ r[j].at \in Nat
  <2>1. PICK i \in DOMAIN opener : j = opener[i]
    BY <1>1 DEF ToSet
  <2>2. QED
    BY <2>1, OpenerIs, ReceiptFacts
<1>2. group # {}
  <2>1. PICK i \in DOMAIN opener : h = opener[i]
    BY DEF ToSet
  <2>2. i \in group
    BY <2>1, OpenerIs
  <2>3. QED
    BY <2>2
<1>3. Len(r) \in Nat /\ group \in SUBSET (1..Len(r)) /\ next \in SUBSET (1..Len(r))
  BY <1>1, ReceiptFacts
<1>4. ASSUME NEW i \in group
      PROVE  /\ shown[i] \in Nat
             /\ ended[i] \in Nat /\ ended[i] = ModelEnd(r[i])
             /\ \A g \in next : ended[i] <= opened[g]
  <2>1. i \in DOMAIN r /\ opener[i] = h
    BY <1>4
  <2>2. r[i].at \in Nat /\ r[i].dur \in Nat /\ r[i] \in Entries
    BY <2>1, ReceiptFacts
  <2>3. Life(r[i]) \in Nat
    BY <2>2, LifeInRange
  <2>4. Offset(r, opener, i) \in Nat
    BY <2>1, OffsetIsNat
  <2>5. shown[i] = Offset(r, opener, i) + Life(r[i]) /\ ended[i] = ModelEnd(r[i])
    BY <1>4
  <2>6. ASSUME NEW g \in next PROVE ended[i] <= opened[g]
    <3>1. g \in Heads(r) /\ r[g].at > r[h].at /\ r[g].at \in Nat /\ opened[g] = r[g].at
      BY <1>1, <2>6
    <3>2. ~ (r[g].at <= r[i].at)
      <4>1. r[h].at \in Nat
        BY <1>1
      <4>2. r[g].at <= r[i].at => r[g].at <= r[h].at
        BY <2>1, <3>1, OpenerIs
      <4>3. QED
        BY <3>1, <4>1, <4>2
    <3>3. Before(r, i, g)
      BY <2>2, <3>1, <3>2 DEF Before
    <3>4. ModelEnd(r[i]) <= r[g].at
      BY <2>1, <3>1, <3>3 DEF Heads
    <3>5. QED
      BY <2>5, <3>1, <3>4
  <2> HIDE DEF shown
  <2>7. shown[i] \in Nat
    BY <2>3, <2>4, <2>5
  <2>8. ModelEnd(r[i]) \in Nat
    BY <2>2 DEF ModelEnd
  <2>9. QED
    BY <2>5, <2>6, <2>7, <2>8
<1>5. ASSUME NEW g \in next PROVE opened[g] \in Nat /\ opened[g] = r[g].at
  BY <1>1, <1>5
<1>6. Span(r, opener, h) =
        IF next = {} THEN visual
        ELSE visual + EVENT_DWELL_MS + Min({MAX_MODEL_GAP_BONUS_MS, (gap * 28) \div 100})
  <2>1. {Offset(r, opener, i) + Life(r[i]) : i \in group} = {shown[i] : i \in group}
    OBVIOUS
  <2>2. {ModelEnd(r[i]) : i \in group} = {ended[i] : i \in group}
    OBVIOUS
  <2>3. {r[g].at : g \in next} = {opened[g] : g \in next}
    OBVIOUS
  <2>4. next = {} <=> {r[g].at : g \in next} = {}
    OBVIOUS
  <2> HIDE DEF shown, ended, opened, opener
  <2>5. QED
    BY Zenon, <2>1, <2>2, <2>3, <2>4 DEF Span
<1> HIDE DEF shown, ended, opened, opener, next, group
<1>7. visual \in Nat
  <2>1. \A i \in group : shown[i] \in Int
    BY <1>4
  <2>2. PICK i \in group : visual = shown[i]
    BY <1>2, <1>3, <2>1, GreatestOf
  <2>3. QED
    BY <1>4, <2>2
<1>8. CASE next = {}
  BY <1>6, <1>7, <1>8 DEF opener
<1>9. CASE next # {}
  <2>0. (\A i \in group : ended[i] \in Int) /\ (\A g \in next : opened[g] \in Int)
    BY <1>4, <1>5
  <2>1. PICK i \in group : over = ended[i]
    BY <1>2, <1>3, <2>0, GreatestOf
  <2>2. PICK g \in next : later = opened[g]
    BY <1>3, <1>9, <2>0, LeastOf
  <2>3. over \in Nat /\ later \in Nat /\ over <= later
    BY <1>4, <1>5, <2>1, <2>2
  <2> HIDE DEF over, later
  <2>4. gap \in Nat
    BY <2>3
  <2> HIDE DEF gap, visual
  <2> DEFINE bonus == (gap * 28) \div 100
             given == Min({MAX_MODEL_GAP_BONUS_MS, bonus})
  <2>5. bonus \in Nat
    BY <2>4, QuotientIsNat
  <2> HIDE DEF bonus
  <2>6. given \in Nat
    BY <2>5, LesserOfTwo DEF MAX_MODEL_GAP_BONUS_MS
  <2>7. Span(r, opener, h) = visual + EVENT_DWELL_MS + given
    BY <1>6, <1>9 DEF bonus
  <2> HIDE DEF given
  <2>8. QED
    BY <1>7, <2>6, <2>7 DEF EVENT_DWELL_MS, opener
<1>10. QED
  BY <1>8, <1>9 DEF opener

(* A sum of natural numbers; none of no numbers is 0.                      *)
LEMMA SumIsNat ==
  ASSUME NEW numbers \in Seq(Nat), NEW places
  PROVE  SumOver(numbers, places) \in Nat /\ (places = {} => SumOver(numbers, places) = 0)
<1> DEFINE N == Len(numbers)
           A == [k \in 0..N |-> IF places = {} THEN {0} ELSE Nat]
           Added(k, x) == x + (IF k \in places THEN numbers[k] ELSE 0)
           G == [k \in 1..N |-> [x \in A[k - 1] |-> Added(k, x)]]
<1>1. N \in Nat /\ 0 \in A[0]
  OBVIOUS
<1>2. ASSUME NEW k \in 1..N, NEW x \in A[k - 1]
      PROVE  G[k][x] \in A[k] /\ G[k][x] = Added(k, x)
  <2>1. k - 1 \in 0..N /\ k \in 0..N /\ k \in DOMAIN numbers
    BY <1>1, <1>2
  <2>2. G[k][x] = Added(k, x)
    BY <1>2
  <2>3. numbers[k] \in Nat
    BY <2>1
  <2>4. Added(k, x) \in A[k]
    BY <1>2, <2>1, <2>3
  <2>5. QED
    BY <2>2, <2>4
<1> HIDE DEF A, G
<1>3. PICK f : Iterates(f, N, 0, G) /\ \A k \in 0..N : f[k] \in A[k]
  BY <1>1, <1>2, IterationExists
<1>4. ASSUME NEW k \in 0..N, k # 0 PROVE G[k][f[k - 1]] = Added(k, f[k - 1])
  <2>1. k \in 1..N /\ k - 1 \in 0..N
    BY <1>1, <1>4
  <2>2. QED
    BY <1>2, <1>3, <2>1
<1>5. f = [k \in 0..N |-> IF k = 0 THEN 0 ELSE f[k - 1] + IF k \in places THEN numbers[k] ELSE 0]
  BY <1>3, <1>4 DEF Iterates
<1> DEFINE Sums(sum) == sum = [k \in 0..Len(numbers) |->
                                  IF k = 0 THEN 0
                                  ELSE sum[k - 1] + IF k \in places THEN numbers[k] ELSE 0]
<1>6. PICK sum : Sums(sum) /\ SumOver(numbers, places) = sum[Len(numbers)]
  BY Zenon, <1>5 DEF SumOver
<1> DEFINE P == {m \in Nat : m <= N => sum[m] \in A[m]}
<1>7. 0 \in P
  BY <1>1, <1>6
<1>8. ASSUME NEW m \in Nat, m \in P PROVE m + 1 \in P
  <2>1. SUFFICES ASSUME m + 1 <= N PROVE sum[m + 1] \in A[m + 1]
    OBVIOUS
  <2>2. m + 1 \in 1..N /\ m + 1 \in 0..N /\ (m + 1) - 1 = m /\ m + 1 # 0
    BY <1>1, <2>1
  <2>3. sum[m] \in A[m]
    BY <1>1, <1>8, <2>1
  <2>4. sum[m + 1] = Added(m + 1, sum[m])
    BY <1>6, <2>2
  <2> HIDE DEF Added, Sums
  <2>5. QED
    BY <1>2, <2>2, <2>3, <2>4
<1> HIDE DEF P, Sums
<1>9. \A m \in Nat : m \in P
  BY <1>7, <1>8, CountsUp
<1>10. sum[N] \in A[N] /\ N \in 0..N
  BY <1>1, <1>9 DEF P
<1>11. QED
  BY <1>6, <1>10 DEF A

(* Before dependencies are considered no event starts early, and the first *)
(* one starts at once.                                                     *)
LEMMA PlacedIs ==
  ASSUME NEW r, IsReceipt(r)
  PROVE  /\ Placed(r) \in Seq(Nat) /\ DOMAIN Placed(r) = DOMAIN r /\ Len(Placed(r)) = Len(r)
         /\ r # <<>> => \E e \in DOMAIN r : r[e].deps = {} /\ Placed(r)[e] = 0
<1> DEFINE opener == Openers(r)
           heads == ToSet(opener)
           room == [h \in DOMAIN r |-> IF h \in heads THEN Span(r, opener, h) ELSE 0]
           Earlier(i) == {h \in heads : r[h].at < r[opener[i]].at}
           Start(i) == SumOver(room, Earlier(i)) + Offset(r, opener, i)
           f == [i \in DOMAIN r |-> Start(i)]
<1>1. Len(r) \in Nat /\ DOMAIN r = 1..Len(r)
  BY ReceiptFacts
<1>2. room \in [1..Len(r) -> Nat]
  BY <1>1, SpanIsNat
<1>3. Evaluated(room) = room /\ room \in Seq(Nat)
  <2> HIDE DEF room
  <2>1. QED
    BY <1>1, <1>2, EvaluatedIs
<1>4. Placed(r) = Evaluated(f)
  <2>1. Placed(r) = Evaluated([i \in DOMAIN r |->
           SumOver(Evaluated(room), {h \in heads : r[h].at < r[opener[i]].at}) + Offset(r, opener, i)])
    BY DEF Placed
  <2> HIDE DEF room, heads, opener
  <2>2. QED
    BY <1>3, <2>1
<1>5. ASSUME NEW i \in DOMAIN r PROVE Start(i) \in Nat /\ f[i] = Start(i)
  <2>1. SumOver(room, Earlier(i)) \in Nat
    <3> HIDE DEF room, Earlier
    <3>1. QED
      BY <1>3, SumIsNat
  <2>2. Offset(r, opener, i) \in Nat
    BY <1>5, OffsetIsNat
  <2>3. f[i] = Start(i)
    BY <1>5
  <2> HIDE DEF room, Earlier, f
  <2>4. QED
    BY <2>1, <2>2, <2>3
<1>6. f \in [1..Len(r) -> Nat]
  <2> HIDE DEF Start
  <2>1. QED
    BY <1>1, <1>5
<1>7. Placed(r) = f /\ Placed(r) \in Seq(Nat) /\ DOMAIN f = DOMAIN r
  <2>1. DOMAIN f = DOMAIN r
    OBVIOUS
  <2> HIDE DEF f
  <2>2. QED
    BY <1>1, <1>4, <1>6, <2>1, EvaluatedIs
<1>8. Len(Placed(r)) = Len(r)
  <2> HIDE DEF f
  <2>1. QED
    BY <1>1, <1>6, <1>7
<1>9. ASSUME r # <<>>
      PROVE  \E e \in DOMAIN r : r[e].deps = {} /\ Placed(r)[e] = 0
  <2>1. PICK e \in Heads(r) : /\ e \in DOMAIN r /\ r[e].deps = {}
                              /\ \A j \in DOMAIN r : r[e].at <= r[j].at
    BY <1>9, FirstEvent
  <2>2. opener[e] \in DOMAIN r /\ r[opener[e]].at <= r[e].at
    BY <2>1, OpenerIs
  <2>3. r[opener[e]].at = r[e].at
    <3>1. r[e].at \in Nat /\ r[opener[e]].at \in Nat
      BY <2>1, <2>2, ReceiptFacts
    <3>2. r[e].at <= r[opener[e]].at
      BY <2>1, <2>2
    <3>3. QED
      BY <2>2, <3>1, <3>2
  <2>4. Offset(r, opener, e) = 0
    BY <2>1, <2>3, OffsetIsNat
  <2>5. Earlier(e) = {}
    <3>1. SUFFICES ASSUME NEW h \in Earlier(e) PROVE FALSE
      OBVIOUS
    <3>2. h \in DOMAIN r
      BY OpenerIs DEF ToSet
    <3>3. r[h].at < r[opener[e]].at
      OBVIOUS
    <3>4. r[e].at \in Nat /\ r[h].at \in Nat /\ r[e].at <= r[h].at
      BY <2>1, <3>2, ReceiptFacts
    <3> HIDE DEF opener
    <3>5. QED
      BY <2>3, <3>3, <3>4
  <2>6. SumOver(room, Earlier(e)) = 0
    <3> HIDE DEF room, Earlier
    <3>1. QED
      BY <1>3, <2>5, SumIsNat
  <2>7. f[e] = 0
    <3>1. f[e] = SumOver(room, Earlier(e)) + Offset(r, opener, e)
      BY <2>1
    <3> HIDE DEF f, room, Earlier, opener
    <3>2. QED
      BY <2>4, <2>6, <3>1
  <2>8. QED
    BY <1>7, <2>1, <2>7
<1>10. QED
  BY <1>7, <1>8, <1>9

(* The latest of a time and of others.                                     *)
LatestWith(p, J, f) == Max({p} \cup {f[j] : j \in J})

IsLatest(v, p, J, f) ==
  /\ v \in Nat /\ p <= v /\ \A j \in J : f[j] <= v
  /\ v # p => \E j \in J : v = f[j]

LEMMA LatestOf ==
  ASSUME NEW p \in Nat, NEW n \in Nat, NEW J \in SUBSET (1..n),
         NEW f, \A j \in J : f[j] \in Nat
  PROVE  IsLatest(LatestWith(p, J, f), p, J, f)
<1>1. CASE J = {}
  <2>1. {p} \cup {f[j] : j \in J} = {p} /\ p <= p /\ p \in Int
    BY <1>1
  <2>2. Max({p}) = p
    BY <2>1, GreatestIs
  <2>3. QED
    BY <1>1, <2>1, <2>2 DEF LatestWith, IsLatest
<1>2. CASE J # {}
  <2>1. \A j \in J : f[j] \in Int
    OBVIOUS
  <2>2. PICK i \in J : \A j \in J : f[j] <= f[i]
    BY <1>2, <2>1, GreatestOf
  <2> DEFINE S == {p} \cup {f[j] : j \in J}
             m == IF p >= f[i] THEN p ELSE f[i]
  <2>3. /\ m \in S /\ m \in Nat /\ p <= m /\ (\A j \in J : f[j] <= m)
        /\ m # p => m = f[i]
    <3>1. m \in S /\ (m # p => m = f[i])
      OBVIOUS
    <3>2. f[i] \in Nat /\ \A j \in J : f[j] \in Nat
      OBVIOUS
    <3> HIDE DEF S
    <3>3. QED
      BY <2>2, <3>1, <3>2
  <2>4. \A y \in S : y \in Int /\ y <= m
    BY <2>3
  <2>5. Max(S) = m
    <3> HIDE DEF S, m
    <3>1. QED
      BY <2>3, <2>4, GreatestIs
  <2>6. LatestWith(p, J, f) = m
    BY <2>5 DEF LatestWith
  <2> HIDE DEF S, m
  <2>7. QED
    BY <2>3, <2>6 DEF IsLatest
<1>3. QED
  BY <1>1, <1>2

(* No event starts before its dependencies have ended and the dwell        *)
(* passed, and it leaves its place only for one of them; the first event   *)
(* starts at once.                                                         *)
Behind(r, s, d) == s[d] + Life(r[d]) + EVENT_DWELL_MS

LEMMA StartsAre ==
  ASSUME NEW r, IsReceipt(r)
  PROVE  /\ Starts(r) \in Seq(Nat) /\ DOMAIN Starts(r) = DOMAIN r
         /\ \A i \in DOMAIN r : \A d \in r[i].deps : Behind(r, Starts(r), d) <= Starts(r)[i]
         /\ \A i \in DOMAIN r : Placed(r)[i] <= Starts(r)[i]
         /\ \A i \in DOMAIN r : Starts(r)[i] # Placed(r)[i] =>
              \E d \in r[i].deps : Starts(r)[i] = Behind(r, Starts(r), d)
         /\ r # <<>> => \E e \in DOMAIN r : Starts(r)[e] = 0
<1> DEFINE N == Len(r)
           placed == Placed(r)
           A == [k \in 0..N |-> {s \in Seq(Nat) : Len(s) = k}]
           Latest(k, s) == Max({placed[k]} \cup {Behind(r, s, d) : d \in r[k].deps})
           G == [k \in 1..N |-> [s \in A[k - 1] |-> Append(s, Latest(k, s))]]
<1>1. N \in Nat /\ DOMAIN r = 1..N /\ <<>> \in A[0]
  BY ReceiptFacts
<1>2. ASSUME NEW k \in 1..N, NEW s, s \in A[k - 1]
      PROVE  /\ Latest(k, s) \in Nat
             /\ placed[k] <= Latest(k, s)
             /\ \A d \in r[k].deps : d \in 1..(k - 1) /\ Behind(r, s, d) <= Latest(k, s)
             /\ Latest(k, s) # placed[k] => \E d \in r[k].deps : Latest(k, s) = Behind(r, s, d)
  <2> DEFINE f == [d \in r[k].deps |-> Behind(r, s, d)]
  <2>1. s \in Seq(Nat) /\ Len(s) = k - 1 /\ k \in DOMAIN r /\ k - 1 \in Nat
    BY <1>1, <1>2
  <2>2. placed[k] \in Nat
    BY <2>1, PlacedIs
  <2>3. \A d \in r[k].deps : d \in 1..(k - 1) /\ d \in DOMAIN r /\ r[d] \in Entries
    BY <2>1, ReceiptFacts
  <2>4. ASSUME NEW d \in r[k].deps PROVE f[d] \in Nat /\ f[d] = Behind(r, s, d)
    <3>1. s[d] \in Nat
      BY <2>1, <2>3
    <3>2. Life(r[d]) \in Nat
      BY <2>3, <2>4, LifeInRange
    <3>3. QED
      BY <3>1, <3>2 DEF Behind, EVENT_DWELL_MS
  <2>5. {Behind(r, s, d) : d \in r[k].deps} = {f[d] : d \in r[k].deps}
    BY <2>4
  <2>6. r[k].deps \in SUBSET (1..(k - 1))
    BY <2>3
  <2> HIDE DEF f, placed
  <2>7. Latest(k, s) = LatestWith(placed[k], r[k].deps, f)
    BY <2>5 DEF LatestWith
  <2> DEFINE m == LatestWith(placed[k], r[k].deps, f)
  <2>8. /\ m \in Nat /\ placed[k] <= m
        /\ \A d \in r[k].deps : f[d] <= m
        /\ m # placed[k] => \E d \in r[k].deps : m = f[d]
    <3> DEFINE J == r[k].deps
               p == placed[k]
               l == k - 1
    <3>1. \A d \in J : f[d] \in Nat
      BY <2>4
    <3>2. p \in Nat /\ l \in Nat /\ J \in SUBSET (1..l)
      BY <2>1, <2>2, <2>6
    <3>3. m = LatestWith(p, J, f)
      OBVIOUS
    <3> HIDE DEF J, p, l, m
    <3>4. IsLatest(m, p, J, f)
      BY <3>1, <3>2, <3>3, LatestOf
    <3>5. QED
      BY <3>4 DEF IsLatest, J, p
  <2> HIDE DEF Latest, m
  <2>9. QED
    BY <2>3, <2>4, <2>7, <2>8 DEF m
<1>3. ASSUME NEW k \in 1..N, NEW s \in A[k - 1]
      PROVE  G[k][s] \in A[k] /\ G[k][s] = Append(s, Latest(k, s))
  <2>1. k - 1 \in 0..N /\ k \in 0..N
    BY <1>1, <1>3
  <2>2. s \in Seq(Nat) /\ Len(s) = k - 1 /\ Latest(k, s) \in Nat
    BY <1>2, <1>3, <2>1
  <2>3. G[k][s] = Append(s, Latest(k, s))
    BY <1>3
  <2> HIDE DEF Latest, G
  <2>4. Append(s, Latest(k, s)) \in A[k]
    BY <2>1, <2>2
  <2>5. QED
    BY <2>3, <2>4
<1>4. \A k \in 0..N : A[k] = {s \in Seq(Nat) : Len(s) = k}
  OBVIOUS
<1> HIDE DEF A, G
<1>5. PICK f : Iterates(f, N, <<>>, G) /\ \A k \in 0..N : f[k] \in A[k]
  <2> HIDE DEF Latest
  <2>1. QED
    BY <1>1, <1>3, IterationExists
<1>6. ASSUME NEW k \in 0..N, k # 0
      PROVE  G[k][f[k - 1]] = Append(f[k - 1], Latest(k, f[k - 1]))
  <2>1. k \in 1..N /\ k - 1 \in 0..N
    BY <1>1, <1>6
  <2> HIDE DEF Latest
  <2>2. QED
    BY <1>3, <1>5, <2>1
<1> DEFINE Runs(first) == first = [n \in 0..Len(r) |->
                            IF n = 0 THEN <<>>
                            ELSE Append(first[n - 1], Latest(n, first[n - 1]))]
<1>7. Runs(f)
  <2> HIDE DEF Latest
  <2>1. QED
    BY <1>5, <1>6 DEF Iterates
<1>8. PICK first : Runs(first) /\ Starts(r) = first[Len(r)]
  BY Zenon, <1>7 DEF Starts, Behind
<1>9. first[0] = <<>> /\ \A k \in 1..N : first[k] = Append(first[k - 1], Latest(k, first[k - 1]))
  <2> HIDE DEF Latest
  <2>1. 0 \in 0..N /\ \A k \in 1..N : k \in 0..N /\ k # 0
    BY <1>1
  <2>2. QED
    BY <1>8, <2>1
<1> HIDE DEF Runs, Latest
<1> DEFINE Keeps(m) == \A i \in 1..m : first[m][i] = Latest(i, first[i - 1]) /\ first[i] \in A[i]
           P == {m \in Nat : m <= N => first[m] \in A[m] /\ \A i \in 1..m :
                   /\ first[m][i] = Latest(i, first[i - 1])
                   /\ first[i - 1] \in A[i - 1]
                   /\ \A d \in 1..(i - 1) : first[i - 1][d] = first[m][d]}
<1>10. 0 \in P
  BY <1>1, <1>9
<1>11. ASSUME NEW m \in Nat, m \in P PROVE m + 1 \in P
  <2>1. SUFFICES ASSUME m + 1 <= N
                 PROVE  /\ first[m + 1] \in A[m + 1]
                        /\ \A i \in 1..(m + 1) :
                             /\ first[m + 1][i] = Latest(i, first[i - 1])
                             /\ first[i - 1] \in A[i - 1]
                             /\ \A d \in 1..(i - 1) : first[i - 1][d] = first[m + 1][d]
    OBVIOUS
  <2>2. m + 1 \in 1..N /\ (m + 1) - 1 = m /\ m \in 0..N /\ m + 1 \in 0..N /\ m <= N
    BY <1>1, <2>1
  <2>3. /\ first[m] \in A[m]
        /\ \A i \in 1..m : /\ first[m][i] = Latest(i, first[i - 1])
                           /\ first[i - 1] \in A[i - 1]
                           /\ \A d \in 1..(i - 1) : first[i - 1][d] = first[m][d]
    BY <1>11, <2>2
  <2> HIDE DEF P
  <2>4. first[m + 1] = Append(first[m], Latest(m + 1, first[m]))
    BY <1>9, <2>2
  <2>5. first[m] \in Seq(Nat) /\ Len(first[m]) = m /\ Latest(m + 1, first[m]) \in Nat
    BY <1>2, <1>4, <2>2, <2>3
  <2>6. first[m + 1] \in A[m + 1]
    <3>1. first[m + 1] \in Seq(Nat) /\ Len(first[m + 1]) = m + 1
      BY <2>4, <2>5
    <3>2. QED
      BY <1>4, <2>2, <3>1
  <2>7. \A i \in 1..m : first[m + 1][i] = first[m][i]
    BY <2>4, <2>5
  <2>8. first[m + 1][m + 1] = Latest(m + 1, first[m])
    BY <2>4, <2>5
  <2>9. ASSUME NEW i \in 1..(m + 1)
        PROVE  /\ first[m + 1][i] = Latest(i, first[i - 1])
               /\ first[i - 1] \in A[i - 1]
               /\ \A d \in 1..(i - 1) : first[i - 1][d] = first[m + 1][d]
    <3>1. CASE i = m + 1
      BY <2>2, <2>3, <2>7, <2>8, <3>1
    <3>2. CASE i # m + 1
      <4>1. i \in 1..m /\ \A d \in 1..(i - 1) : d \in 1..m
        BY <2>9, <3>2
      <4>2. QED
        BY <2>3, <2>7, <4>1
    <3>3. QED
      BY <3>1, <3>2
  <2>10. QED
    BY <2>6, <2>9
<1> HIDE DEF P
<1>12. \A m \in Nat : m \in P
  BY <1>10, <1>11, CountsUp
<1>13. /\ Starts(r) \in A[N]
       /\ \A i \in 1..N : /\ Starts(r)[i] = Latest(i, first[i - 1])
                          /\ first[i - 1] \in A[i - 1]
                          /\ \A d \in 1..(i - 1) : first[i - 1][d] = Starts(r)[d]
  <2>1. N \in P /\ N <= N /\ N \in Nat
    BY <1>1, <1>12
  <2>2. QED
    BY <1>8, <2>1 DEF P
<1>14. Starts(r) \in Seq(Nat) /\ DOMAIN Starts(r) = DOMAIN r
  <2>1. N \in 0..N
    BY <1>1
  <2>2. QED
    BY <1>1, <1>4, <1>13, <2>1
<1>15. ASSUME NEW i \in DOMAIN r, NEW d \in r[i].deps
       PROVE  Behind(r, Starts(r), d) <= Starts(r)[i]
  <2>1. i \in 1..N
    BY <1>1, <1>15
  <2>2. d \in 1..(i - 1) /\ Behind(r, first[i - 1], d) <= Latest(i, first[i - 1])
    BY <1>2, <1>13, <1>15, <2>1
  <2>3. QED
    BY <1>13, <2>1, <2>2 DEF Behind
<1>16. ASSUME r # <<>> PROVE \E e \in DOMAIN r : Starts(r)[e] = 0
  <2>1. PICK e \in DOMAIN r : r[e].deps = {} /\ placed[e] = 0
    BY <1>16, PlacedIs
  <2>2. e \in 1..N
    BY <1>1, <2>1
  <2>3. QED
    BY <1>2, <1>13, <2>1, <2>2
<1>17. ASSUME NEW i \in DOMAIN r
       PROVE  /\ placed[i] <= Starts(r)[i]
              /\ Starts(r)[i] # placed[i] =>
                   \E d \in r[i].deps : Starts(r)[i] = Behind(r, Starts(r), d)
  <2>1. i \in 1..N
    BY <1>1, <1>17
  <2>2. Starts(r)[i] = Latest(i, first[i - 1]) /\ first[i - 1] \in A[i - 1]
    BY <1>13, <2>1
  <2>3. placed[i] <= Starts(r)[i]
    BY <1>2, <2>1, <2>2
  <2>4. ASSUME Starts(r)[i] # placed[i]
        PROVE  \E d \in r[i].deps : Starts(r)[i] = Behind(r, Starts(r), d)
    <3>1. PICK d \in r[i].deps : Starts(r)[i] = Behind(r, first[i - 1], d)
      BY <1>2, <2>1, <2>2, <2>4
    <3>2. d \in 1..(i - 1)
      BY <1>2, <2>1, <2>2
    <3>3. first[i - 1][d] = Starts(r)[d]
      BY <1>13, <2>1, <3>2
    <3>4. QED
      BY <3>1, <3>3 DEF Behind
  <2>5. QED
    BY <2>3, <2>4
<1>18. QED
  BY <1>14, <1>15, <1>16, <1>17

(* Rounding down keeps order, in what is scaled and in the scale.          *)
LEMMA ScaledInOrder ==
  ASSUME NEW x \in Nat, NEW y \in Nat, x <= y, NEW l \in Nat, NEW d \in Nat \ {0}
  PROVE  (x * l) \div d <= (y * l) \div d
<1>1. x * l \in Nat /\ y * l \in Nat /\ x * l <= y * l
  BY SMTT(30)
<1> DEFINE a == x * l
           b == y * l
<1> HIDE DEF a, b
<1>2. a \in Nat /\ b \in Nat /\ a <= b
  BY <1>1 DEF a, b
<1>3. a \div d <= b \div d
  BY <1>2, SMTT(30)
<1>4. QED
  BY <1>3 DEF a, b

LEMMA QuotientBounds ==
  ASSUME NEW a \in Nat, NEW d \in Nat \ {0}
  PROVE  /\ a \div d \in Nat
         /\ d * (a \div d) <= a /\ a < d * (a \div d) + d
  BY SMTT(30)

LEMMA ScaledByLess ==
  ASSUME NEW x \in Nat, NEW l \in Nat, NEW d \in Nat \ {0}, NEW m \in Nat, NEW e \in Nat \ {0},
         m * d <= l * e
  PROVE  (x * m) \div e <= (x * l) \div d
<1> DEFINE p == (x * m) \div e
           q == (x * l) \div d
<1>1. x * m \in Nat /\ x * l \in Nat
  BY SMTT(30)
<1>2. p \in Nat /\ e * p <= x * m
  BY <1>1, QuotientBounds
<1>3. q \in Nat /\ x * l < d * q + d
  BY <1>1, QuotientBounds
<1> HIDE DEF p, q
<1>4. d * (e * p) <= d * (x * m)
  BY <1>2, SMTT(30)
<1>5. x * (m * d) <= x * (l * e)
  BY SMTT(30)
<1>6. e * (x * l) < e * (d * q + d)
  BY <1>3, SMTT(30)
<1>7. d * (e * p) < d * (e * (q + 1))
  BY <1>2, <1>3, <1>4, <1>5, <1>6, SMTT(30)
<1>8. p < q + 1
  BY <1>2, <1>3, <1>7, SMTT(30)
<1>9. QED
  BY <1>2, <1>3, <1>8 DEF p, q

(* An event shown for m that lasts d, of which nothing is lost by rounding *)
(* when d <= m: what starts before it ends is scaled, by no more than m/d, *)
(* to less than m after it.                                                *)
LEMMA ScaledWithin ==
  ASSUME NEW x \in Nat, NEW y \in Nat, NEW l \in Nat, NEW e \in Nat \ {0},
         NEW m \in Nat, NEW d \in Nat \ {0},
         l * d <= m * e, d <= m, x <= y, y < x + d
  PROVE  (y * l) \div e < (x * l) \div e + m
<1> DEFINE a == (x * l) \div e
           b == (y * l) \div e
           z == y - x
<1>1. x * l \in Nat /\ y * l \in Nat
  BY SMTT(30)
<1>2. a \in Nat /\ x * l < e * a + e
  BY <1>1, QuotientBounds
<1>3. b \in Nat /\ e * b <= y * l
  BY <1>1, QuotientBounds
<1>4. z \in Nat /\ z <= d - 1 /\ y = x + z
  OBVIOUS
<1> HIDE DEF a, b, z
<1>5. y * l = x * l + z * l
  BY <1>4, SMTT(30)
<1>6. e * b < e * a + e + z * l
  <2> DEFINE p == x * l
             q == z * l
             u == e * a
             v == e * b
  <2>1. p \in Int /\ q \in Int /\ u \in Int /\ v \in Int
    BY <1>1, <1>2, <1>3, <1>4, SMTT(30)
  <2>2. p < u + e /\ v <= p + q
    BY <1>2, <1>3, <1>5
  <2> HIDE DEF p, q, u, v
  <2>3. v < u + e + q
    BY <2>1, <2>2
  <2>4. QED
    BY <2>3 DEF p, q, u, v
<1>7. d * (e * b) < d * (e * a + e + z * l)
  BY <1>2, <1>3, <1>4, <1>6, SMTT(30)
<1>8. z * (l * d) <= z * (m * e)
  BY <1>4, SMTT(30)
<1>9. z * (m * e) <= (d - 1) * (m * e)
  BY <1>4, SMTT(30)
<1>10. d * (e * b) < d * (e * (a + 1)) + (d - 1) * (m * e)
  <2>1. d * (e * a + e + z * l) = d * (e * (a + 1)) + z * (l * d)
    BY <1>2, <1>4, SMTT(30)
  <2> DEFINE p == d * (e * b)
             q == d * (e * (a + 1))
             u == z * (l * d)
             v == z * (m * e)
             w == (d - 1) * (m * e)
  <2>2. p \in Int /\ q \in Int /\ u \in Int /\ v \in Int /\ w \in Int
    BY <1>2, <1>3, <1>4, SMTT(30)
  <2>3. p < q + u /\ u <= v /\ v <= w
    BY <1>7, <1>8, <1>9, <2>1
  <2> HIDE DEF p, q, u, v, w
  <2>4. p < q + w
    BY <2>2, <2>3
  <2>5. QED
    BY <2>4 DEF p, q, w
<1>11. e * (d * (b - a - 1)) < e * ((d - 1) * m)
  <2>1. d * (e * b) - d * (e * (a + 1)) = e * (d * (b - a - 1))
    BY <1>2, <1>3, SMTT(30)
  <2>2. (d - 1) * (m * e) = e * ((d - 1) * m)
    BY SMTT(30)
  <2> DEFINE p == d * (e * b)
             q == d * (e * (a + 1))
             u == (d - 1) * (m * e)
  <2>3. p \in Int /\ q \in Int /\ u \in Int /\ p < q + u
    BY <1>2, <1>3, <1>10, SMTT(30)
  <2> HIDE DEF p, q, u
  <2>4. p - q < u
    BY <2>3
  <2>5. QED
    BY <2>1, <2>2, <2>4 DEF p, q, u
<1>12. d * (b - a - 1) < (d - 1) * m
  <2> DEFINE p == d * (b - a - 1)
             q == (d - 1) * m
  <2>1. p \in Int /\ q \in Int /\ e * p < e * q
    BY <1>2, <1>3, <1>11, SMTT(30)
  <2> HIDE DEF p, q
  <2>2. p < q
    BY <2>1, SMTT(30)
  <2>3. QED
    BY <2>2 DEF p, q
<1>13. (d - 1) * m <= d * (m - 1)
  BY SMTT(30)
<1>14. d * (b - a - 1) < d * (m - 1)
  BY <1>2, <1>3, <1>12, <1>13, SMTT(30)
<1>15. b - a - 1 < m - 1
  <2> DEFINE p == b - a - 1
             q == m - 1
  <2>1. p \in Int /\ q \in Int /\ d * p < d * q
    BY <1>2, <1>3, <1>14
  <2> HIDE DEF p, q
  <2>2. p < q
    BY <2>1, SMTT(30)
  <2>3. QED
    BY <2>2 DEF p, q
<1>16. QED
  BY <1>2, <1>3, <1>15 DEF a, b

(* Events that overlap on the model's clock are in one group.              *)
LEMMA OverlapsInOneGroup ==
  ASSUME NEW r, IsReceipt(r), NEW i \in DOMAIN r, NEW j \in DOMAIN r,
         r[i].at <= r[j].at, r[j].at < ModelEnd(r[i])
  PROVE  Openers(r)[i] = Openers(r)[j]
<1> DEFINE g == Openers(r)[i]
           h == Openers(r)[j]
<1>1. /\ g \in Heads(r) /\ g \in DOMAIN r /\ r[g].at <= r[i].at
      /\ \A k \in Heads(r) : r[k].at <= r[i].at => r[k].at <= r[g].at
  BY OpenerIs
<1>2. /\ h \in Heads(r) /\ h \in DOMAIN r /\ r[h].at <= r[j].at
      /\ \A k \in Heads(r) : r[k].at <= r[j].at => r[k].at <= r[h].at
  BY OpenerIs
<1> HIDE DEF g, h
<1>3. /\ r[i].at \in Nat /\ r[j].at \in Nat /\ r[g].at \in Nat /\ r[h].at \in Nat
      /\ g \in Nat /\ h \in Nat /\ r[i].dur \in Nat
  BY <1>1, <1>2, ReceiptFacts
<1>4. r[h].at <= r[i].at
  <2>1. SUFFICES ASSUME r[i].at < r[h].at PROVE FALSE
    BY <1>3
  <2>2. ModelEnd(r[i]) <= r[h].at
    BY <1>2, <2>1 DEF Heads, Before
  <2>3. ModelEnd(r[i]) \in Nat
    BY <1>3 DEF ModelEnd
  <2>4. QED
    BY <1>2, <1>3, <2>2, <2>3
<1>5. r[g].at = r[h].at
  BY <1>1, <1>2, <1>3, <1>4
<1>6. g = h
  <2>1. SUFFICES ASSUME g # h PROVE FALSE
    OBVIOUS
  <2>2. Before(r, g, h) \/ Before(r, h, g)
    BY <1>3, <1>5, <2>1 DEF Before
  <2>3. r[g].at < r[h].at \/ r[h].at < r[g].at
    BY <1>1, <1>2, <2>2 DEF Heads
  <2>4. QED
    BY <1>3, <1>5, <2>3
<1>7. QED
  BY <1>6 DEF g, h

(* An offset is scaled by the event of the group whose scale gives least.  *)
Scaled(r, since, m) == (since * Life(r[m])) \div r[m].dur

LEMMA OffsetIs ==
  ASSUME NEW r, IsReceipt(r), NEW i \in DOMAIN r, NEW lasting, lasting # {},
         lasting = {m \in DOMAIN r : Openers(r)[m] = Openers(r)[i] /\ r[m].dur > 0}
  PROVE  \E m \in lasting :
           /\ Offset(r, Openers(r), i) = Scaled(r, r[i].at - r[Openers(r)[i]].at, m)
           /\ \A k \in lasting :
                Offset(r, Openers(r), i) <= Scaled(r, r[i].at - r[Openers(r)[i]].at, k)
<1> DEFINE h == Openers(r)[i]
           since == r[i].at - r[h].at
           f == [m \in lasting |-> Scaled(r, since, m)]
<1>1. r[h].at \in Nat /\ r[i].at \in Nat /\ r[h].at <= r[i].at
  BY OpenerIs, ReceiptFacts
<1>2. since \in Nat
  BY <1>1
<1>3. ASSUME NEW m \in lasting PROVE f[m] \in Nat
  <2>1. r[m].dur \in Nat /\ r[m].dur > 0 /\ r[m] \in Entries
    BY <1>3, ReceiptFacts
  <2>2. Life(r[m]) \in Nat
    BY <2>1, LifeInRange
  <2>3. f[m] = (since * Life(r[m])) \div r[m].dur
    BY <1>3 DEF Scaled
  <2> HIDE DEF since, f
  <2>4. QED
    BY <1>2, <2>1, <2>2, <2>3, QuotientIsNat
<1>4. Offset(r, Openers(r), i) = Min({f[m] : m \in lasting})
  <2>1. {f[m] : m \in lasting} = {((r[i].at - r[h].at) * Life(r[m])) \div r[m].dur : m \in lasting}
    BY DEF Scaled
  <2> HIDE DEF f
  <2>2. QED
    BY <2>1 DEF Offset
<1>5. lasting \in SUBSET (1..Len(r)) /\ Len(r) \in Nat
  BY ReceiptFacts
<1>6. \A m \in lasting : f[m] = Scaled(r, since, m)
  OBVIOUS
<1> HIDE DEF f, since
<1>7. PICK m \in lasting : /\ Min({f[k] : k \in lasting}) = f[m]
                           /\ \A k \in lasting : f[m] <= f[k]
  <2>1. \A m \in lasting : f[m] \in Int
    BY <1>3
  <2>2. QED
    BY <1>5, <2>1, LeastOf
<1>8. QED
  BY <1>4, <1>6, <1>7 DEF since

(* Where an event is placed: the room of the groups before its own, and    *)
(* its offset.                                                             *)
Room(r) == [h \in DOMAIN r |-> IF h \in ToSet(Openers(r)) THEN Span(r, Openers(r), h) ELSE 0]
Base(r, g) == SumOver(Room(r), {h \in ToSet(Openers(r)) : r[h].at < r[g].at})

LEMMA PlacedSum ==
  ASSUME NEW r, IsReceipt(r), NEW i \in DOMAIN r
  PROVE  Placed(r)[i] = Base(r, Openers(r)[i]) + Offset(r, Openers(r), i)
         /\ Base(r, Openers(r)[i]) \in Nat
<1> DEFINE f == [j \in DOMAIN r |-> Base(r, Openers(r)[j]) + Offset(r, Openers(r), j)]
<1>1. Len(r) \in Nat /\ DOMAIN r = 1..Len(r)
  BY ReceiptFacts
<1>2. Room(r) \in [1..Len(r) -> Nat]
  BY <1>1, SpanIsNat DEF Room
<1>3. Evaluated(Room(r)) = Room(r) /\ Room(r) \in Seq(Nat)
  BY <1>1, <1>2, EvaluatedIs
<1>4. \A g : Base(r, g) \in Nat
  BY <1>3, SumIsNat DEF Base
<1>5. ASSUME NEW j \in DOMAIN r PROVE f[j] \in Nat
  <2>1. Base(r, Openers(r)[j]) \in Nat
    BY <1>4
  <2>2. Offset(r, Openers(r), j) \in Nat
    BY <1>5, OffsetIsNat
  <2>3. f[j] = Base(r, Openers(r)[j]) + Offset(r, Openers(r), j)
    BY <1>5
  <2> HIDE DEF f
  <2>4. QED
    BY <2>1, <2>2, <2>3
<1>6. Placed(r) = Evaluated(f)
  BY <1>3 DEF Placed, Room, Base
<1>7. f[i] = Base(r, Openers(r)[i]) + Offset(r, Openers(r), i)
  OBVIOUS
<1>8. f \in [1..Len(r) -> Nat]
  <2>1. DOMAIN f = 1..Len(r) /\ f = [j \in DOMAIN f |-> f[j]]
    BY <1>1
  <2> HIDE DEF f
  <2>2. QED
    BY <1>1, <1>5, <2>1
<1> HIDE DEF f
<1>9. Placed(r) = f
  BY <1>1, <1>6, <1>8, EvaluatedIs
<1>10. QED
  BY <1>4, <1>7, <1>9

(* Of two events that overlap and are no longer than they are shown, the   *)
(* later one is placed within the life of the earlier one.                 *)
LEMMA OverlapPlaced ==
  ASSUME NEW r, IsReceipt(r), NEW i \in DOMAIN r, NEW j \in DOMAIN r,
         r[i].at <= r[j].at, r[j].at < ModelEnd(r[i]), r[i].dur <= Life(r[i])
  PROVE  Placed(r)[i] <= Placed(r)[j] /\ Placed(r)[j] < Placed(r)[i] + Life(r[i])
<1> DEFINE h == Openers(r)[i]
           x == r[i].at - r[h].at
           y == r[j].at - r[h].at
           d == r[i].dur
           life == Life(r[i])
           lasting == {m \in DOMAIN r : Openers(r)[m] = h /\ r[m].dur > 0}
           a == Offset(r, Openers(r), i)
           b == Offset(r, Openers(r), j)
<1>1. Openers(r)[j] = h
  BY OverlapsInOneGroup
<1>2. h \in DOMAIN r /\ r[h].at <= r[i].at
  BY OpenerIs
<1>3. /\ r[h].at \in Nat /\ r[i].at \in Nat /\ r[j].at \in Nat /\ d \in Nat
      /\ r[i] \in Entries
  BY <1>2, ReceiptFacts
<1>4. life \in Nat
  BY <1>3, LifeInRange
<1>5. d \in Nat \ {0} /\ x \in Nat /\ y \in Nat /\ x <= y /\ y < x + d
  BY <1>2, <1>3 DEF ModelEnd
<1>6. i \in lasting
  BY <1>5
<1>7. a \in Nat /\ b \in Nat
  BY OffsetIsNat
<1>8. PICK m \in lasting : a = Scaled(r, x, m) /\ \A k \in lasting : a <= Scaled(r, x, k)
  BY <1>6, OffsetIs
<1>9. PICK n \in lasting : b = Scaled(r, y, n) /\ \A k \in lasting : b <= Scaled(r, y, k)
  <2>1. lasting = {k \in DOMAIN r : Openers(r)[k] = Openers(r)[j] /\ r[k].dur > 0}
    BY <1>1
  <2>2. y = r[j].at - r[Openers(r)[j]].at
    BY <1>1
  <2> HIDE DEF lasting, y
  <2>3. QED
    BY <1>6, <2>1, <2>2, OffsetIs
<1>10. ASSUME NEW k \in lasting
       PROVE  r[k].dur \in Nat \ {0} /\ Life(r[k]) \in Nat
  BY <1>10, ReceiptFacts, LifeInRange
<1>11. d <= life
  OBVIOUS
<1>12. \A k \in lasting : /\ Scaled(r, x, k) = (x * Life(r[k])) \div r[k].dur
                         /\ Scaled(r, y, k) = (y * Life(r[k])) \div r[k].dur
  BY DEF Scaled
<1>13. d = r[i].dur /\ life = Life(r[i])
  OBVIOUS
<1> HIDE DEF x, y, d, life, lasting, a, b, h
<1>14. a <= b
  <2>1. Scaled(r, x, n) <= Scaled(r, y, n)
    BY <1>5, <1>10, <1>12, ScaledInOrder
  <2>2. Scaled(r, x, n) \in Nat /\ Scaled(r, y, n) \in Nat
    <3>1. r[n].dur \in Nat /\ r[n].dur > 0 /\ Life(r[n]) \in Nat
      BY <1>10
    <3>2. (x * Life(r[n])) \div r[n].dur \in Nat /\ (y * Life(r[n])) \div r[n].dur \in Nat
      BY <1>5, <3>1, QuotientIsNat
    <3>3. QED
      BY <1>12, <3>2
  <2>3. QED
    BY <1>7, <1>8, <1>9, <2>1, <2>2
<1>15. b < a + life
  <2> DEFINE l == Life(r[m])
             e == r[m].dur
  <2>1. l \in Nat /\ e \in Nat \ {0}
    BY <1>10
  <2>2. a = (x * l) \div e /\ b <= (y * l) \div e
    BY <1>8, <1>9, <1>12
  <2>3. a <= (x * life) \div d /\ b <= (y * life) \div d
    BY <1>6, <1>8, <1>9, <1>12, <1>13
  <2> HIDE DEF l, e
  <2>4. CASE l * d <= life * e
    <3>1. (y * l) \div e < (x * l) \div e + life
      BY <1>4, <1>5, <1>11, <2>1, <2>4, ScaledWithin
    <3>2. (y * l) \div e \in Nat
      BY <1>5, <2>1, QuotientIsNat
    <3>3. QED
      BY <1>4, <1>7, <2>2, <3>1, <3>2
  <2>5. CASE life * e <= l * d
    <3>1. (x * life) \div d <= (x * l) \div e
      BY <1>4, <1>5, <2>1, <2>5, ScaledByLess
    <3>2. (x * life) \div d \in Nat /\ (y * life) \div d \in Nat
      BY <1>4, <1>5, QuotientIsNat
    <3>3. a = (x * life) \div d
      BY <1>7, <2>2, <2>3, <3>1, <3>2
    <3>4. life * d <= life * d
      BY <1>4, <1>5, SMTT(30)
    <3>5. (y * life) \div d < (x * life) \div d + life
      BY <1>4, <1>5, <1>11, <3>4, ScaledWithin
    <3>6. QED
      BY <1>4, <1>7, <2>3, <3>2, <3>3, <3>5
  <2>6. l * d <= life * e \/ life * e <= l * d
    <3>1. l * d \in Int /\ life * e \in Int
      BY <1>4, <1>5, <2>1, SMTT(30)
    <3>2. \A p, q \in Int : p <= q \/ q <= p
      OBVIOUS
    <3>3. QED
      BY <3>1, <3>2
  <2>7. QED
    BY <2>4, <2>5, <2>6
<1>16. /\ Placed(r)[i] = Base(r, h) + a /\ Base(r, h) \in Nat
       /\ Placed(r)[j] = Base(r, h) + b
  BY <1>1, PlacedSum DEF a, b, h
<1>17. QED
  BY <1>4, <1>7, <1>13, <1>14, <1>15, <1>16

(* The second event begins during the first one, on the model's clock.     *)
BeginsDuring(r, i, j) == r[i].at <= r[j].at /\ r[j].at < ModelEnd(r[i])

\* What another event begins during lasts no longer than it is shown.
ShownInFull(r) ==
  \A i, j \in DOMAIN r : i # j /\ BeginsDuring(r, i, j) => r[i].dur <= Life(r[i])

\* Event i begins when the dwell behind one of its dependencies is over.
HeldBack(r, s, i) ==
  \E d \in r[i].deps : s.starts[i] = s.starts[d] + s.lives[d] + EVENT_DWELL_MS

OverlapsKept(r, s) ==
  \A i, j \in DOMAIN r :
    BeginsDuring(r, i, j) =>
      /\ s.starts[i] > s.starts[j] => HeldBack(r, s, i)
      /\ s.starts[j] >= s.starts[i] + s.lives[i] => HeldBack(r, s, j)

(* What the comment above buildTracePresentationSchedule promises of       *)
(* overlaps: the places overlap (OverlapPlaced), and only a dependency     *)
(* moves an event from its place (StartsAre).                              *)
LEMMA ScheduleOverlaps ==
  ASSUME NEW r, IsReceipt(r), ShownInFull(r)
  PROVE  OverlapsKept(r, Schedule(r))
<1> DEFINE s == Schedule(r)
<1>1. s.starts = Starts(r) /\ \A i \in DOMAIN r : s.lives[i] = Life(r[i])
  BY DEF Schedule
<1> HIDE DEF s
<1>2. SUFFICES ASSUME NEW i \in DOMAIN r, NEW j \in DOMAIN r, BeginsDuring(r, i, j)
               PROVE  /\ s.starts[i] > s.starts[j] => HeldBack(r, s, i)
                      /\ s.starts[j] >= s.starts[i] + s.lives[i] => HeldBack(r, s, j)
  BY DEF OverlapsKept, s
<1> DEFINE P(k) == Placed(r)[k]
           S(k) == Starts(r)[k]
           life == Life(r[i])
<1>3. ASSUME NEW k \in DOMAIN r
      PROVE  P(k) \in Nat /\ S(k) \in Nat /\ P(k) <= S(k) /\ (S(k) # P(k) => HeldBack(r, s, k))
  <2>1. P(k) \in Nat /\ S(k) \in Nat /\ P(k) <= S(k)
    <3>1. Starts(r) \in Seq(Nat) /\ k \in DOMAIN Starts(r)
      BY <1>3, StartsAre
    <3>2. S(k) \in Nat
      BY <3>1
    <3>3. P(k) \in Nat
      BY <1>3, PlacedIs
    <3>4. P(k) <= S(k)
      BY <1>3, StartsAre
    <3>5. QED
      BY <3>2, <3>3, <3>4
  <2>2. ASSUME S(k) # P(k) PROVE HeldBack(r, s, k)
    <3>1. PICK d \in r[k].deps : S(k) = Behind(r, Starts(r), d)
      BY <1>3, <2>2, StartsAre
    <3>2. d \in DOMAIN r
      BY <1>3, ReceiptFacts
    <3>3. QED
      BY <1>1, <3>1, <3>2 DEF HeldBack, Behind
  <2>3. QED
    BY <2>1, <2>2
<1>4. life \in 520..1050
  <2>1. r[i] \in Entries
    BY ReceiptFacts
  <2>2. QED
    BY <2>1, LifeInRange
<1>5. i # j => P(i) <= P(j) /\ P(j) < P(i) + life
  BY <1>2, OverlapPlaced DEF ShownInFull, BeginsDuring
<1>6. s.starts[i] = S(i) /\ s.starts[j] = S(j) /\ s.lives[i] = life
  BY <1>1
<1>7. /\ P(i) \in Nat /\ S(i) \in Nat /\ P(i) <= S(i) /\ (S(i) # P(i) => HeldBack(r, s, i))
      /\ P(j) \in Nat /\ S(j) \in Nat /\ P(j) <= S(j) /\ (S(j) # P(j) => HeldBack(r, s, j))
  BY <1>3
<1> DEFINE pi == P(i)
           pj == P(j)
           si == S(i)
           sj == S(j)
<1>8. i = j => pi = pj /\ si = sj
  OBVIOUS
<1>9. /\ pi \in Nat /\ si \in Nat /\ pi <= si /\ pj \in Nat /\ sj \in Nat /\ pj <= sj
      /\ i # j => pi <= pj /\ pj < pi + life
  BY <1>5, <1>7
<1> HIDE DEF P, S, life, pi, pj, si, sj
<1>10. (si > sj => si # pi) /\ (sj >= si + life => sj # pj)
  <2>1. life \in Nat /\ life > 0
    BY <1>4
  <2>2. QED
    BY <1>8, <1>9, <2>1
<1>11. QED
  BY <1>6, <1>7, <1>10 DEF pi, pj, si, sj

(* What the playback relies on.                                            *)
Plays(r, s) ==
  /\ \A i \in DOMAIN r : s.starts[i] \in Nat /\ s.lives[i] \in 520..1050
  /\ s.duration \in Nat
  /\ \A i \in DOMAIN r : s.starts[i] + s.lives[i] <= s.duration
  /\ \A i \in DOMAIN r : \A d \in r[i].deps :
       d \in DOMAIN r /\ s.starts[d] + s.lives[d] <= s.starts[i]
  /\ r # <<>> => \E e \in DOMAIN r : s.starts[e] = 0
  /\ r = <<>> => s.duration = 0

LEMMA SchedulePlays ==
  ASSUME NEW r, IsReceipt(r)
  PROVE  Plays(r, Schedule(r))
<1> DEFINE s == Schedule(r)
           ends == [i \in DOMAIN r |-> s.starts[i] + s.lives[i]]
<1>1. s.starts = Starts(r) /\ \A i \in DOMAIN r : s.lives[i] = Life(r[i])
  BY DEF Schedule
<1>2. s.duration = Max({0} \cup {ends[i] : i \in DOMAIN r})
  <2>1. s.duration = Max({0} \cup {s.starts[i] + s.lives[i] : i \in DOMAIN r})
    BY DEF Schedule
  <2>2. {ends[i] : i \in DOMAIN r} = {s.starts[i] + s.lives[i] : i \in DOMAIN r}
    OBVIOUS
  <2> HIDE DEF s, ends
  <2>3. QED
    BY <2>1, <2>2
<1> HIDE DEF s
<1>3. ASSUME NEW i \in DOMAIN r
      PROVE  /\ s.starts[i] \in Nat /\ s.lives[i] \in 520..1050
             /\ ends[i] \in Nat /\ ends[i] = s.starts[i] + s.lives[i]
  <2>1. Starts(r) \in Seq(Nat) /\ i \in DOMAIN Starts(r) /\ r[i] \in Entries
    BY <1>3, StartsAre, ReceiptFacts
  <2>2. Starts(r)[i] \in Nat /\ Life(r[i]) \in 520..1050
    BY <2>1, LifeInRange
  <2>3. ends[i] = s.starts[i] + s.lives[i]
    BY <1>3
  <2>4. s.starts[i] = Starts(r)[i] /\ s.lives[i] = Life(r[i])
    BY <1>1, <1>3
  <2> DEFINE start == s.starts[i]
             life == s.lives[i]
             end == ends[i]
  <2>5. start \in Nat /\ life \in 520..1050 /\ end = start + life
    BY <2>2, <2>3, <2>4
  <2> HIDE DEF ends, start, life, end
  <2>6. end \in Nat
    BY <2>5
  <2>7. QED
    BY <2>5, <2>6 DEF start, life, end
<1>5. Len(r) \in Nat /\ DOMAIN r = 1..Len(r) /\ DOMAIN r \in SUBSET (1..Len(r))
  BY ReceiptFacts
<1> HIDE DEF ends
<1>6. /\ s.duration \in Nat /\ (DOMAIN r = {} => s.duration = 0)
      /\ \A i \in DOMAIN r : ends[i] <= s.duration
  <2>1. \A i \in DOMAIN r : ends[i] \in Nat
    BY <1>3
  <2>2. s.duration = LatestWith(0, DOMAIN r, ends)
    BY <1>2 DEF LatestWith
  <2>3. IsLatest(LatestWith(0, DOMAIN r, ends), 0, DOMAIN r, ends)
    <3>1. 0 \in Nat
      OBVIOUS
    <3>2. QED
      BY <1>5, <2>1, <3>1, LatestOf
  <2>4. QED
    BY <2>2, <2>3 DEF IsLatest
<1>7. r = <<>> => DOMAIN r = {}
  OBVIOUS
<1>8. ASSUME NEW i \in DOMAIN r, NEW d \in r[i].deps
      PROVE  d \in DOMAIN r /\ s.starts[d] + s.lives[d] <= s.starts[i]
  <2>1. d \in DOMAIN r
    BY ReceiptFacts
  <2>2. s.starts[d] + s.lives[d] + EVENT_DWELL_MS <= s.starts[i]
    BY <1>1, <2>1, StartsAre DEF Behind
  <2>3. s.starts[d] \in Nat /\ s.lives[d] \in 520..1050
    BY <1>3, <2>1
  <2>4. s.starts[i] \in Nat
    BY <1>3, <1>8
  <2> DEFINE a == s.starts[d]
             b == s.lives[d]
             c == s.starts[i]
  <2> HIDE DEF a, b, c
  <2>5. a \in Nat /\ b \in Nat /\ c \in Nat /\ a + b + 110 <= c
    BY <2>2, <2>3, <2>4 DEF EVENT_DWELL_MS, a, b, c
  <2>6. a + b <= c
    BY <2>5
  <2>7. QED
    BY <2>1, <2>6 DEF a, b, c
<1>9. r # <<>> => \E e \in DOMAIN r : s.starts[e] = 0
  BY <1>1, StartsAre
<1>10. QED
  BY <1>3, <1>6, <1>7, <1>8, <1>9 DEF Plays, s

-----------------------------------------------------------------------------
(* Playback: the particle pool                                             *)

Ahead(f, S, i) == {j \in S : Precedes(f, j, i)}
FirstFew(f, S, k) == {i \in S : Cardinality(Ahead(f, S, i)) < k}

(* Each of k free particles goes to another event; if they are enough, all *)
(* events get one.                                                         *)
LEMMA EachItsOwn ==
  ASSUME NEW n \in Nat, NEW S \in SUBSET (1..n), NEW k \in Nat,
         NEW f, \A i \in S : f[i] \in Int
  PROVE  /\ IsFiniteSet(S) /\ IsFiniteSet(FirstFew(f, S, k))
         /\ Cardinality(FirstFew(f, S, k)) <= k
         /\ Cardinality(S) <= k => FirstFew(f, S, k) = S
<1> DEFINE Few == FirstFew(f, S, k)
           rank == [i \in Few |-> Cardinality(Ahead(f, S, i))]
<1>1. IsFiniteSet(S)
  <2>1. IsFiniteSet(1..n)
    BY FS_Interval
  <2>2. QED
    BY <2>1, FS_Subset
<1>2. ASSUME NEW i \in S
      PROVE  /\ IsFiniteSet(Ahead(f, S, i)) /\ Cardinality(Ahead(f, S, i)) \in Nat
             /\ Cardinality(Ahead(f, S, i)) < Cardinality(S)
  <2>1. Ahead(f, S, i) \in SUBSET S
    BY DEF Ahead
  <2>2. i \notin Ahead(f, S, i)
    <3>1. i \in Int /\ f[i] \in Int
      BY <1>2
    <3>2. QED
      BY <3>1 DEF Ahead, Precedes
  <2>3. IsFiniteSet(Ahead(f, S, i)) /\ Cardinality(Ahead(f, S, i)) <= Cardinality(S)
    BY <1>1, <2>1, FS_Subset
  <2>4. Cardinality(Ahead(f, S, i)) # Cardinality(S)
    BY <1>1, <1>2, <2>1, <2>2, FS_Subset
  <2>5. Cardinality(Ahead(f, S, i)) \in Nat /\ Cardinality(S) \in Nat
    BY <1>1, <2>3, FS_CardinalityType
  <2>6. QED
    BY <2>3, <2>4, <2>5
<1>3. IsFiniteSet(Few)
  BY <1>1, FS_Subset DEF FirstFew
<1>4. ASSUME NEW i \in S, NEW j \in S, Precedes(f, i, j)
      PROVE  Cardinality(Ahead(f, S, i)) < Cardinality(Ahead(f, S, j))
  <2>1. /\ i \in Int /\ j \in Int /\ f[i] \in Int /\ f[j] \in Int
        /\ \A m \in S : m \in Int /\ f[m] \in Int
    BY <1>4
  <2>2. ASSUME NEW m \in Ahead(f, S, i) PROVE m \in Ahead(f, S, j)
    BY <1>4, <2>1, <2>2 DEF Ahead, Precedes
  <2>3. i \in Ahead(f, S, j) /\ i \notin Ahead(f, S, i)
    BY <1>4, <2>1 DEF Ahead, Precedes
  <2>4. Ahead(f, S, i) \in SUBSET Ahead(f, S, j)
    BY <2>2
  <2>5. IsFiniteSet(Ahead(f, S, j))
    BY <1>2, <1>4
  <2>6. /\ Cardinality(Ahead(f, S, i)) <= Cardinality(Ahead(f, S, j))
        /\ Cardinality(Ahead(f, S, i)) # Cardinality(Ahead(f, S, j))
    BY <2>3, <2>4, <2>5, FS_Subset
  <2>7. Cardinality(Ahead(f, S, i)) \in Nat /\ Cardinality(Ahead(f, S, j)) \in Nat
    BY <1>2, <1>4
  <2>8. QED
    BY <2>6, <2>7
<1>5. Cardinality(Few) <= k
  <2>1. SUFFICES ASSUME ~ (Cardinality(Few) <= k) PROVE FALSE
    OBVIOUS
  <2>2. Cardinality(Few) \in Nat
    BY <1>3, FS_CardinalityType
  <2>3. IsFiniteSet(0..(k - 1)) /\ Cardinality(0..(k - 1)) = k
    <3>1. 0 \in Int /\ k - 1 \in Int
      OBVIOUS
    <3>2. /\ IsFiniteSet(0..(k - 1))
          /\ Cardinality(0..(k - 1)) = IF 0 > k - 1 THEN 0 ELSE (k - 1) - 0 + 1
      BY <3>1, FS_Interval
    <3>3. QED
      BY <3>2
  <2>4. Few \subseteq S
    BY DEF FirstFew
  <2>5. rank \in [Few -> 0..(k - 1)]
    <3>1. ASSUME NEW i \in Few PROVE Cardinality(Ahead(f, S, i)) \in 0..(k - 1)
      <4>1. i \in S /\ Cardinality(Ahead(f, S, i)) < k
        BY <3>1 DEF FirstFew
      <4>2. Cardinality(Ahead(f, S, i)) \in Nat
        BY <1>2, <4>1
      <4>3. QED
        BY <4>1, <4>2
    <3> HIDE DEF Few
    <3>2. QED
      BY <3>1
  <2>6. Cardinality(0..(k - 1)) < Cardinality(Few)
    BY <2>1, <2>2, <2>3
  <2>7. \A i \in Few : rank[i] = Cardinality(Ahead(f, S, i))
    OBVIOUS
  <2> HIDE DEF rank, Few
  <2>8. PICK i \in Few, j \in Few : i # j /\ rank[i] = rank[j]
    BY <1>3, <2>3, <2>5, <2>6, FS_PigeonHole
  <2>9. i \in S /\ j \in S /\ i \in Int /\ j \in Int /\ f[i] \in Int /\ f[j] \in Int
    BY <2>4
  <2>10. Precedes(f, i, j) \/ Precedes(f, j, i)
    BY <2>8, <2>9 DEF Precedes
  <2>11. rank[i] < rank[j] \/ rank[j] < rank[i]
    BY <1>4, <2>7, <2>9, <2>10
  <2>12. rank[i] \in Nat
    BY <1>2, <2>7, <2>9
  <2>13. QED
    BY <2>8, <2>11, <2>12
<1>6. ASSUME Cardinality(S) <= k PROVE FirstFew(f, S, k) = S
  <2>1. Cardinality(S) \in Nat
    BY <1>1, FS_CardinalityType
  <2>2. ASSUME NEW i \in S PROVE Cardinality(Ahead(f, S, i)) < k
    BY <1>2, <1>6, <2>1, <2>2
  <2>3. QED
    BY <2>2 DEF FirstFew
<1>7. QED
  BY <1>1, <1>3, <1>5, <1>6

StartedBy(t) == {i \in Events : schedule.starts[i] <= t}
ActiveAt(t) == {i \in StartedBy(t) : t < End(i)}

(* The pool at time t: fresh, or with a particle for each event that is on *)
(* unless one had to be dropped.                                           *)
Pools == [scheduled : SUBSET Nat, flying : SUBSET Nat, free : 0..PoolSize, dropped : BOOLEAN]

PoolAt(p, t) ==
  /\ p \in Pools
  /\ p.flying \subseteq ActiveAt(t)
  /\ p.free + Cardinality(p.flying) = PoolSize
  /\ Len(trace) \in 1..PoolSize => ~p.dropped
  /\ \/ t = 0 /\ p.scheduled = {} /\ p.flying = {}
     \/ /\ trace # <<>> => p.scheduled = StartedBy(t)
        /\ p.dropped \/ p.flying = ActiveAt(t)

OnScreen == IsReceipt(trace) /\ Plays(trace, schedule)

LEMMA FreshPool ==
  ASSUME PoolSize \in Nat, NEW d \in BOOLEAN, Len(trace) \in 1..PoolSize => ~d
  PROVE  PoolAt(EmptyPool(d), 0)
<1>1. IsFiniteSet({}) /\ Cardinality({}) = 0
  BY FS_EmptySet
<1>2. QED
  BY <1>1 DEF PoolAt, EmptyPool, Pools

(* What flies at a later time is what is on then, and no particle is lost. *)
LEMMA PoolSettles ==
  ASSUME PoolSize \in Nat, OnScreen, NEW p, NEW t \in Nat, NEW u \in Nat, t <= u, PoolAt(p, t)
  PROVE  PoolAt(Settled(p, u), u)
<1> DEFINE at == schedule.starts
           due == {i \in Events \ p.scheduled : schedule.starts[i] <= u}
           alive == {i \in due : u < End(i)}
           flown == FirstFew(at, alive, p.free)
           sent == p.flying \cup flown
           over == {i \in sent : u >= End(i)}
           N == Len(trace)
           q == Settled(p, u)
<1>1. /\ p.scheduled \in SUBSET Nat /\ p.flying \in SUBSET Nat
      /\ p.free \in 0..PoolSize /\ p.free \in Nat /\ p.dropped \in BOOLEAN
  BY DEF PoolAt, Pools
<1>2. N \in Nat /\ Events = 1..N /\ \A i \in Events : i \in Nat
  BY ReceiptFacts DEF OnScreen, Events
<1>3. \A i \in Events : at[i] \in Nat /\ End(i) \in Nat
  <2>1. ASSUME NEW i \in Events PROVE at[i] \in Nat /\ schedule.lives[i] \in 520..1050
    BY <2>1 DEF OnScreen, Plays, Events
  <2>2. \A m \in 520..1050 : m \in Nat
    OBVIOUS
  <2>3. ASSUME NEW a \in Nat, NEW b \in Nat PROVE a + b \in Nat
    OBVIOUS
  <2>4. ASSUME NEW i \in Events PROVE End(i) \in Nat
    <3>1. at[i] \in Nat /\ schedule.lives[i] \in Nat
      <4> DEFINE life == schedule.lives[i]
      <4>1. at[i] \in Nat /\ life \in 520..1050
        BY <2>1, <2>4
      <4> HIDE DEF life, at
      <4>2. life \in Nat
        BY <2>2, <4>1
      <4>3. QED
        BY <4>1, <4>2 DEF life
    <3>2. End(i) = at[i] + schedule.lives[i]
      BY DEF End
    <3>3. QED
      BY <2>3, <3>1, <3>2
  <2>5. QED
    BY <2>1, <2>4
<1>4. alive \in SUBSET (1..N) /\ alive \subseteq Events /\ alive \cap p.scheduled = {}
  BY <1>2
<1>5. /\ IsFiniteSet(alive) /\ IsFiniteSet(flown) /\ flown \subseteq alive
      /\ Cardinality(flown) <= p.free
      /\ Cardinality(alive) <= p.free => flown = alive
  <2>1. \A i \in alive : at[i] \in Int
    BY <1>3, <1>4
  <2> HIDE DEF alive, at
  <2>2. /\ IsFiniteSet(alive) /\ IsFiniteSet(flown)
        /\ Cardinality(flown) <= p.free
        /\ Cardinality(alive) <= p.free => flown = alive
    BY <1>1, <1>2, <1>4, <2>1, EachItsOwn
  <2>3. flown \subseteq alive
    BY DEF FirstFew
  <2>4. QED
    BY <2>2, <2>3
<1>6. p.flying \subseteq Events
  BY DEF PoolAt, ActiveAt, StartedBy
<1>7. p.flying \cap alive = {}
  <2>1. CASE p.flying = {}
    BY <2>1
  <2>2. CASE p.flying # {}
    <3>1. trace # <<>>
      BY <1>2, <1>6, <2>2 DEF Events
    <3>2. p.flying \subseteq p.scheduled
      BY <2>2, <3>1 DEF PoolAt, ActiveAt
    <3>3. QED
      BY <1>4, <3>2
  <2>3. QED
    BY <2>1, <2>2
<1>8. /\ q.scheduled = p.scheduled \cup due
      /\ q.flying = sent \ over
      /\ q.free = p.free - Cardinality(flown) + Cardinality(over)
      /\ q.dropped = (p.dropped \/ Cardinality(alive) > p.free)
      /\ q = [scheduled |-> q.scheduled, flying |-> q.flying, free |-> q.free, dropped |-> q.dropped]
  <2> DEFINE s == Spawned(p, u)
  <2>1. flown = {i \in alive : Cardinality({j \in alive : Precedes(schedule.starts, j, i)}) < p.free}
    BY DEF FirstFew, Ahead
  <2>2. s = [scheduled |-> p.scheduled \cup due, flying |-> p.flying \cup flown,
             free |-> p.free - Cardinality(flown),
             dropped |-> p.dropped \/ Cardinality(alive) > p.free]
    BY <2>1 DEF Spawned
  <2>3. q = Retired(s, u)
    BY DEF Settled
  <2> HIDE DEF s, q, due, alive, flown
  <2>4. q = [s EXCEPT !.flying = @ \ over, !.free = @ + Cardinality(over)]
    BY <2>2, <2>3 DEF Retired
  <2>5. QED
    BY <2>2, <2>4
<1> HIDE DEF q
<1>9. IsFiniteSet(p.flying) /\ IsFiniteSet(Events) /\ Cardinality(Events) = N
  <2>1. /\ IsFiniteSet(1..N)
        /\ Cardinality(1..N) = IF 1 > N THEN 0 ELSE N - 1 + 1
    <3>1. 1 \in Int /\ N \in Int
      BY <1>2
    <3> HIDE DEF N
    <3>2. QED
      BY <3>1, FS_Interval
  <2>2. Cardinality(1..N) = N
    BY <1>2, <2>1
  <2>3. QED
    BY <1>2, <1>6, <2>1, <2>2, FS_Subset
<1>10. /\ IsFiniteSet(sent) /\ IsFiniteSet(over) /\ IsFiniteSet(sent \ over)
       /\ Cardinality(sent) = Cardinality(p.flying) + Cardinality(flown)
       /\ Cardinality(sent \ over) = Cardinality(sent) - Cardinality(over)
       /\ Cardinality(p.flying) \in Nat /\ Cardinality(flown) \in Nat
       /\ Cardinality(over) \in Nat /\ Cardinality(sent \ over) \in Nat
  <2>1. p.flying \cap flown = {} /\ Cardinality({}) = 0
    BY <1>5, <1>7, FS_EmptySet
  <2> HIDE DEF flown
  <2>2. IsFiniteSet(sent) /\ Cardinality(sent) = Cardinality(p.flying) + Cardinality(flown) - 0
    BY <1>5, <1>9, <2>1, FS_Union
  <2>3. over \subseteq sent /\ sent \cap over = over
    OBVIOUS
  <2>4. IsFiniteSet(over)
    BY <2>2, <2>3, FS_Subset
  <2> HIDE DEF over, sent
  <2>5. IsFiniteSet(sent \ over) /\ Cardinality(sent \ over) = Cardinality(sent) - Cardinality(over)
    <3>1. /\ IsFiniteSet(sent \ over)
          /\ Cardinality(sent \ over) = Cardinality(sent) - Cardinality(sent \cap over)
      BY <2>2, FS_Difference
    <3>2. QED
      BY <2>3, <3>1
  <2>6. /\ Cardinality(p.flying) \in Nat /\ Cardinality(flown) \in Nat
        /\ Cardinality(over) \in Nat /\ Cardinality(sent \ over) \in Nat
    BY <1>5, <1>9, <2>4, <2>5, FS_CardinalityType
  <2>7. QED
    BY <2>2, <2>4, <2>5, <2>6
<1>11. q.free \in 0..PoolSize /\ q.free + Cardinality(q.flying) = PoolSize
  <2> DEFINE a == Cardinality(p.flying)
             b == Cardinality(flown)
             c == Cardinality(over)
             d == Cardinality(sent \ over)
             e == Cardinality(sent)
  <2>1. p.free + a = PoolSize
    BY DEF PoolAt
  <2>2. q.free = p.free - b + c /\ Cardinality(q.flying) = d
    BY <1>8
  <2> HIDE DEF a, b, c, d, e
  <2>3. a \in Nat /\ b \in Nat /\ c \in Nat /\ d \in Nat /\ e = a + b /\ d = e - c /\ b <= p.free
    BY <1>5, <1>10 DEF a, b, c, d, e
  <2>4. QED
    BY <1>1, <2>1, <2>2, <2>3
<1>12. q.flying \subseteq ActiveAt(u)
  <2>1. SUFFICES ASSUME NEW i \in sent \ over PROVE i \in ActiveAt(u)
    BY <1>8
  <2>2. i \in Events /\ at[i] <= u
    <3>1. CASE i \in p.flying
      <4>1. i \in Events /\ at[i] <= t
        BY <3>1 DEF PoolAt, ActiveAt, StartedBy
      <4>2. QED
        BY <1>3, <4>1
    <3>2. CASE i \in flown
      BY <1>5, <3>2
    <3>3. QED
      BY <3>1, <3>2
  <2>3. u < End(i)
    <3>1. ~ (u >= End(i))
      OBVIOUS
    <3>2. QED
      BY <1>3, <2>2, <3>1
  <2>4. QED
    BY <2>2, <2>3 DEF ActiveAt, StartedBy
<1>13. ASSUME N \in 1..PoolSize PROVE ~ q.dropped
  <2>1. ~ p.dropped
    BY <1>13 DEF PoolAt
  <2>2. /\ IsFiniteSet(p.flying \cup alive)
        /\ Cardinality(p.flying \cup alive) = Cardinality(p.flying) + Cardinality(alive) - 0
    <3>1. Cardinality({}) = 0
      BY FS_EmptySet
    <3> HIDE DEF alive
    <3>2. QED
      BY <1>5, <1>7, <1>9, <3>1, FS_Union
  <2>3. Cardinality(p.flying \cup alive) <= Cardinality(Events)
    <3>1. (p.flying \cup alive) \in SUBSET Events
      BY <1>4, <1>6
    <3> HIDE DEF alive
    <3>2. QED
      BY <1>9, <3>1, FS_Subset
  <2> DEFINE a == Cardinality(p.flying)
             b == Cardinality(alive)
  <2>4. a \in Nat /\ b \in Nat /\ p.free + a = PoolSize
    BY <1>5, <1>9, FS_CardinalityType DEF PoolAt
  <2>5. a + b <= N
    <3>1. Cardinality(p.flying \cup alive) = a + b
      BY <2>2, <2>4
    <3>2. QED
      BY <1>9, <2>3, <3>1
  <2> HIDE DEF a, b
  <2>6. ~ (b > p.free)
    BY <1>1, <1>2, <1>13, <2>4, <2>5
  <2>7. QED
    BY <1>8, <2>1, <2>6 DEF b
<1>14. ASSUME trace # <<>> PROVE q.scheduled = StartedBy(u)
  <2>1. p.scheduled = {} \/ p.scheduled = StartedBy(t)
    BY <1>14 DEF PoolAt
  <2>2. \A i \in Events : at[i] <= t => at[i] <= u
    BY <1>3
  <2>3. QED
    BY <1>8, <2>1, <2>2 DEF StartedBy
<1>15. ASSUME ~ q.dropped PROVE q.flying = ActiveAt(u)
  <2>1. ~ p.dropped /\ ~ (Cardinality(alive) > p.free)
    BY <1>8, <1>15
  <2>2. flown = alive
    <3>1. Cardinality(alive) \in Nat
      BY <1>5, FS_CardinalityType
    <3>2. Cardinality(alive) <= p.free
      BY <1>1, <2>1, <3>1
    <3>3. QED
      BY <1>5, <3>2
  <2>3. ASSUME NEW i \in ActiveAt(u) PROVE i \in sent \ over
    <3>1. i \in Events /\ at[i] <= u /\ u < End(i)
      BY <2>3 DEF ActiveAt, StartedBy
    <3>2. i \notin over
      BY <1>3, <3>1
    <3>3. CASE i \notin p.scheduled
      <4>1. i \in alive
        BY <3>1, <3>3
      <4>2. QED
        BY <2>2, <3>2, <4>1
    <3>4. CASE i \in p.scheduled
      <4>1. trace # <<>>
        BY <1>2, <3>1 DEF Events
      <4>2. p.scheduled = StartedBy(t) /\ p.flying = ActiveAt(t)
        BY <2>1, <3>4, <4>1 DEF PoolAt
      <4>3. at[i] <= t
        BY <3>4, <4>2 DEF StartedBy
      <4>4. t < End(i)
        BY <1>3, <3>1
      <4>5. i \in p.flying
        BY <3>1, <4>2, <4>3, <4>4 DEF ActiveAt, StartedBy
      <4>6. QED
        BY <3>2, <4>5
    <3>5. QED
      BY <3>3, <3>4
  <2>4. QED
    BY <1>8, <1>12, <2>3
<1>16. q \in Pools
  <2>1. q.scheduled \in SUBSET Nat
    BY <1>1, <1>2, <1>8
  <2>2. q.flying \in SUBSET Nat
    BY <1>2, <1>12 DEF ActiveAt, StartedBy
  <2>3. q.dropped \in BOOLEAN
    BY <1>1, <1>8
  <2> DEFINE a == q.scheduled
             b == q.flying
             c == q.free
             d == q.dropped
  <2> HIDE DEF a, b, c, d
  <2>4. q = [scheduled |-> a, flying |-> b, free |-> c, dropped |-> d]
    BY <1>8 DEF a, b, c, d
  <2>5. a \in SUBSET Nat /\ b \in SUBSET Nat /\ c \in 0..PoolSize /\ d \in BOOLEAN
    BY <1>11, <2>1, <2>2, <2>3 DEF a, b, c, d
  <2>6. QED
    BY <2>4, <2>5 DEF Pools
<1>17. QED
  BY <1>11, <1>12, <1>13, <1>14, <1>15, <1>16 DEF PoolAt, q

-----------------------------------------------------------------------------
(* Playback: the inductive invariant                                       *)

PlaybackInv ==
  /\ PlaybackTypeOK
  /\ PoolAt(pool, clockMs)
  /\ selected # 0 => paused /\ selected \in Active
  /\ HoldsAtEnd

LEMMA ReceiptPlays ==
  ASSUME ConstantsOK, NEW r \in Receipts \cup {<<>>}
  PROVE  IsReceipt(r) /\ Plays(r, Schedules[r])
<1>1. IsReceipt(<<>>)
  <2> DEFINE e == <<>>
  <2>1. e \in Seq([at : Nat, dur : Nat, hop : Nat, status : DOMAIN StatusHold, deps : SUBSET Nat])
    OBVIOUS
  <2>2. DOMAIN e = {}
    OBVIOUS
  <2> HIDE DEF e
  <2>3. IsReceipt(e)
    BY <2>1, <2>2 DEF IsReceipt
  <2>4. QED
    BY <2>3 DEF e
<1>2. IsReceipt(r)
  BY <1>1 DEF ConstantsOK
<1>3. QED
  BY <1>2, SchedulePlays DEF Schedules

LEMMA Screen ==
  ASSUME ConstantsOK, PlaybackTypeOK
  PROVE  /\ OnScreen
         /\ clockMs \in Nat /\ schedule.duration \in Nat /\ clockMs <= schedule.duration
         /\ PoolSize \in Nat /\ rate \in Nat /\ hold \in Nat
         /\ \A i \in Events : /\ schedule.starts[i] \in Nat /\ schedule.lives[i] \in 520..1050
                              /\ End(i) \in Nat /\ End(i) <= schedule.duration
                              /\ i \in Nat /\ i # 0
<1>1. OnScreen
  BY ReceiptPlays DEF PlaybackTypeOK, OnScreen
<1>2. schedule.duration \in Nat /\ rate \in Nat /\ PoolSize \in Nat
  BY <1>1 DEF OnScreen, Plays, PlaybackTypeOK, ConstantsOK
<1>3. clockMs \in Nat /\ clockMs <= schedule.duration
  <2> DEFINE n == schedule.duration
  <2>1. clockMs \in 0..n /\ n \in Nat
    BY <1>2 DEF PlaybackTypeOK
  <2> HIDE DEF n
  <2>2. clockMs \in Nat /\ clockMs <= n
    BY <2>1
  <2>3. QED
    BY <2>2 DEF n
<1>4. hold \in Nat
  BY DEF PlaybackTypeOK, FAILED_TRACE_LOOP_HOLD_MS
<1>5. ASSUME NEW i \in Events
      PROVE  /\ schedule.starts[i] \in Nat /\ schedule.lives[i] \in 520..1050
             /\ End(i) \in Nat /\ End(i) <= schedule.duration
             /\ i \in Nat /\ i # 0
  <2>1. /\ schedule.starts[i] \in Nat /\ schedule.lives[i] \in 520..1050
        /\ End(i) <= schedule.duration
    BY <1>1, <1>5 DEF OnScreen, Plays, Events, End
  <2>2. \A m \in 520..1050 : m \in Nat
    OBVIOUS
  <2>3. ASSUME NEW a \in Nat, NEW b \in Nat PROVE a + b \in Nat
    OBVIOUS
  <2>4. End(i) \in Nat
    <3> DEFINE start == schedule.starts[i]
               life == schedule.lives[i]
    <3>1. start \in Nat /\ life \in 520..1050 /\ End(i) = start + life
      BY <2>1 DEF End
    <3> HIDE DEF start, life
    <3>2. life \in Nat
      BY <2>2, <3>1
    <3>3. QED
      BY <2>3, <3>1, <3>2
  <2>5. Events = 1..Len(trace) /\ Len(trace) \in Nat
    BY <1>1, ReceiptFacts DEF OnScreen, Events
  <2>6. i \in Nat /\ i # 0
    BY <2>5
  <2>7. QED
    BY <2>1, <2>4, <2>6
<1>6. QED
  BY <1>1, <1>2, <1>3, <1>4, <1>5

LEMMA LastOfIs ==
  ASSUME ConstantsOK, PlaybackTypeOK, NEW S \in SUBSET Events, S # {}
  PROVE  LastOf(S) \in S
<1> DEFINE f == schedule.starts
<1>1. Len(trace) \in Nat /\ S \in SUBSET (1..Len(trace))
  BY Screen, ReceiptFacts DEF OnScreen, Events
<1>2. \A i \in S : f[i] \in Int
  BY Screen
<1> HIDE DEF f
<1>3. PICK i \in S : LastIn(f, S, i)
  BY <1>1, <1>2, LastExists
<1>4. \A j \in S \ {i} : Precedes(f, j, i)
  BY <1>3 DEF LastIn, Precedes
<1>5. QED
  BY <1>4 DEF LastOf, f

LEMMA InvShows ==
  ASSUME ConstantsOK, PlaybackInv
  PROVE  PlaybackValid
<1>1. PlaybackTypeOK /\ PoolAt(pool, clockMs) /\ HoldsAtEnd
  BY DEF PlaybackInv
<1>2. Active = ActiveAt(clockMs) /\ Started = StartedBy(clockMs)
  BY DEF Active, ActiveAt, Started, StartedBy
<1>3. FlightsFollowClock
  <2>1. pool.flying = {} \/ pool.dropped \/ pool.flying = Active
    BY <1>1, <1>2 DEF PoolAt
  <2>2. QED
    BY <1>1, <1>2 DEF PoolAt, FlightsFollowClock
<1>4. \A i \in Active : i \in Events /\ clockMs < schedule.duration /\ ~ AtEnd
  <2>1. ASSUME NEW i \in Active PROVE i \in Events /\ clockMs < End(i)
    BY <2>1 DEF Active, Started
  <2>2. ASSUME NEW a \in Nat, NEW b \in Nat, NEW c \in Nat, a < b, b <= c
        PROVE  a < c /\ ~ (a >= c)
    BY <2>2
  <2>3. QED
    BY <1>1, <2>1, <2>2, Screen DEF AtEnd
<1>5. SoughtStaysShown
  <2>1. SUFFICES ASSUME selected # 0
                 PROVE  paused /\ Shown = selected /\ RailState(selected) = "current"
    BY DEF SoughtStaysShown
  <2>2. paused /\ selected \in Active
    BY <2>1 DEF PlaybackInv
  <2>3. Shown = selected
    BY <2>2 DEF Shown
  <2>4. trace # <<>>
    <3>1. selected \in Events
      BY <1>4, <2>2
    <3>2. QED
      BY <3>1 DEF Events
  <2>5. Phase = "paused"
    BY <2>2, <2>4 DEF Phase
  <2>6. ~ AtEnd /\ ~ (selected < selected)
    <3>1. selected \in Nat
      BY <1>1, <1>4, <2>2, Screen
    <3>2. QED
      BY <1>4, <2>2, <3>1
  <2>7. QED
    BY <2>2, <2>3, <2>5, <2>6 DEF RailState
<1>6. DockFollowsPlayback
  <2>1. ASSUME trace # <<>> PROVE Headline.item \in Started
    <3>1. Started # {}
      <4>1. PICK e \in Events : schedule.starts[e] = 0
        BY <1>1, <2>1, Screen DEF OnScreen, Plays, Events
      <4>2. schedule.starts[e] <= clockMs
        BY <1>1, <4>1, Screen
      <4>3. QED
        BY <4>1, <4>2 DEF Started
    <3>2. Current \in Started
      <4>1. Started \in SUBSET Events
        BY DEF Started
      <4>2. LastOf(Started) \in Started
        BY <1>1, <3>1, <4>1, LastOfIs
      <4>3. QED
        BY <3>1, <4>2 DEF Current
    <3>3. Shown \in Started
      BY <3>2 DEF Shown, Active
    <3>4. QED
      BY <3>3 DEF Headline
  <2>2. ASSUME Headline.iteration = 0 PROVE iteration <= 1
    <3>1. iteration \in Nat
      BY <1>1 DEF PlaybackTypeOK, ConstantsOK
    <3>2. Headline.iteration = IF iteration > 0 /\ (looping \/ iteration > 1) THEN iteration ELSE 0
      BY DEF Headline
    <3>3. QED
      BY <2>2, <3>1, <3>2
  <2>3. ASSUME trace # <<>>, "toggle" \notin Enabled
        PROVE  /\ pool.flying = {} /\ ~OffersPause
               /\ \A i \in Events : clockMs >= End(i) /\ RailMark(i) # "none"
    <3>1. Phase = "complete"
      BY <2>3 DEF Enabled
    <3>2. AtEnd
      BY <2>3, <3>1 DEF Phase
    <3>3. pool.flying = {}
      BY <1>1, <1>2, <1>4, <3>2 DEF PoolAt
    <3>4. ~ OffersPause
      BY <3>1 DEF OffersPause
    <3>5. ASSUME NEW i \in Events PROVE clockMs >= End(i)
      <4>1. clockMs >= schedule.duration
        BY <3>2 DEF AtEnd
      <4>2. QED
        BY <1>1, <3>5, <4>1, Screen
    <3>6. ASSUME NEW i \in Events PROVE RailMark(i) # "none"
      <4>1. RailState(i) = "complete"
        BY <3>2 DEF RailState
      <4>2. RailMark(i) = IF trace[i].status \in {"failed", "warning"} THEN trace[i].status ELSE "success"
        BY <4>1 DEF RailMark
      <4>3. QED
        BY <4>2
    <3>7. QED
      BY <3>3, <3>4, <3>5, <3>6
  <2>4. QED
    BY <2>1, <2>2, <2>3 DEF DockFollowsPlayback
<1>7. QED
  BY <1>1, <1>3, <1>5, <1>6 DEF PlaybackValid

LEMMA InitHolds ==
  ASSUME ConstantsOK, PlaybackInit
  PROVE  PlaybackInv
<1>1. Plays(<<>>, Schedules[<<>>])
  BY ReceiptPlays
<1>2. schedule.duration = 0
  BY <1>1 DEF Plays, PlaybackInit
<1>3. PoolAt(pool, clockMs)
  <2>1. Len(trace) = 0 /\ PoolSize \in Nat
    BY DEF PlaybackInit, ConstantsOK
  <2>2. Len(trace) \notin 1..PoolSize
    BY <2>1
  <2>3. PoolAt(EmptyPool(FALSE), 0)
    BY <2>1, <2>2, FreshPool
  <2>4. QED
    BY <2>3 DEF PlaybackInit
<1>4. pool.free \in 0..PoolSize
  BY <1>3 DEF PoolAt, Pools
<1>5. PlaybackTypeOK
  <2>1. /\ trace = <<>> /\ schedule = Schedules[<<>>] /\ clockMs = 0 /\ hold = 0 /\ rate = 1
        /\ paused = FALSE /\ looping \in BOOLEAN /\ iteration = 0 /\ selected = 0 /\ dockInputs = 0
    BY DEF PlaybackInit
  <2>2. /\ 0 \in 0..schedule.duration /\ 0 \in 0..FAILED_TRACE_LOOP_HOLD_MS
        /\ 0 \in 0..MaxIterations /\ 0 \in 0..MaxDockInputs
    BY <1>2 DEF ConstantsOK, FAILED_TRACE_LOOP_HOLD_MS
  <2>3. QED
    BY <1>4, <2>1, <2>2 DEF PlaybackTypeOK
<1>6. hold = 0 /\ selected = 0
  BY DEF PlaybackInit
<1>7. QED
  BY <1>3, <1>5, <1>6 DEF PlaybackInv, HoldsAtEnd

(* A step that leaves the receipt on the screen: what is to be shown.      *)
LEMMA SameScreen ==
  ASSUME UNCHANGED <<trace, schedule>>, PoolAt(pool', clockMs')
  PROVE  /\ PoolAt(pool, clockMs)'
         /\ pool'.free \in 0..PoolSize
<1>1. PoolAt(pool, clockMs)'
  BY DEF PoolAt, ActiveAt, StartedBy, Events, End
<1>2. pool' \in Pools
  BY DEF PoolAt
<1>3. QED
  BY <1>1, <1>2 DEF Pools

(* A new iteration, or a jump in time, begins with an empty pool.          *)
LEMMA PoolRestarts ==
  ASSUME ConstantsOK, PlaybackInv
  PROVE  /\ PoolAt(EmptyPool(pool.dropped), 0)
         /\ \A u \in Nat : PoolAt(Settled(EmptyPool(pool.dropped), u), u)
<1>1. PoolSize \in Nat /\ OnScreen
  BY Screen DEF PlaybackInv
<1>2. pool.dropped \in BOOLEAN /\ (Len(trace) \in 1..PoolSize => ~ pool.dropped)
  BY DEF PlaybackInv, PoolAt, Pools
<1>3. PoolAt(EmptyPool(pool.dropped), 0)
  BY <1>1, <1>2, FreshPool
<1>4. ASSUME NEW u \in Nat PROVE PoolAt(Settled(EmptyPool(pool.dropped), u), u)
  <2>1. 0 \in Nat /\ 0 <= u
    OBVIOUS
  <2>2. QED
    BY <1>1, <1>3, <2>1, PoolSettles
<1>5. QED
  BY <1>3, <1>4

LEMMA AdvanceKeeps ==
  ASSUME ConstantsOK, PlaybackInv, NEW d \in FrameMs, Advance(d),
         UNCHANGED <<trace, schedule, rate, paused, looping, dockInputs>>
  PROVE  PlaybackInv'
<1> DEFINE n == schedule.duration
           step == d * EffectiveRate
<1>1. PlaybackTypeOK /\ PoolAt(pool, clockMs) /\ HoldsAtEnd
  BY DEF PlaybackInv
<1>2. step \in Nat /\ (paused => step = 0)
  <2>1. d \in Nat /\ rate \in Nat
    BY <1>1, Screen DEF ConstantsOK
  <2>2. EffectiveRate \in Nat /\ (paused => EffectiveRate = 0)
    BY <2>1 DEF EffectiveRate
  <2>3. ASSUME NEW a \in Nat, NEW b \in Nat PROVE a * b \in Nat /\ (b = 0 => a * b = 0)
    BY SMTT(30)
  <2>4. QED
    BY <2>1, <2>2, <2>3
<1>3. clockMs \in Nat /\ n \in Nat /\ clockMs < n
  BY <1>1, Screen DEF Advance
<1> HIDE DEF step
<1>4. clockMs' = IF n <= clockMs + step THEN n ELSE clockMs + step
  <2>1. clockMs' = Min({n, clockMs + step})
    BY DEF Advance, step
  <2>2. n \in Int /\ clockMs + step \in Int
    BY <1>2, <1>3
  <2> HIDE DEF n
  <2>3. QED
    BY <2>1, <2>2, LesserOfTwo
<1>5. clockMs' \in Nat /\ clockMs <= clockMs' /\ clockMs' \in 0..n /\ (paused => clockMs' = clockMs)
  <2> HIDE DEF n
  <2>1. QED
    BY <1>2, <1>3, <1>4
<1>6. PoolAt(pool', clockMs')
  <2>1. pool' = Settled(pool, clockMs') /\ PoolSize \in Nat /\ OnScreen
    BY <1>1, Screen DEF Advance
  <2>2. QED
    BY <1>1, <1>3, <1>5, <2>1, PoolSettles
<1>7. PoolAt(pool, clockMs)' /\ pool'.free \in 0..PoolSize
  BY <1>6, SameScreen
<1>8. hold = 0
  <2>1. ~ AtEnd
    BY <1>3 DEF AtEnd
  <2>2. hold \in Nat
    BY <1>1, Screen
  <2>3. QED
    BY <1>1, <2>1, <2>2 DEF HoldsAtEnd
<1>9. PlaybackTypeOK'
  BY <1>1, <1>5, <1>7 DEF PlaybackTypeOK, Advance, Events
<1>10. HoldsAtEnd'
  BY <1>8 DEF HoldsAtEnd, Advance
<1>11. ASSUME selected' # 0 PROVE paused' /\ selected' \in Active'
  <2>1. selected' = selected /\ paused /\ selected \in Active
    BY <1>11 DEF Advance, PlaybackInv
  <2>2. Active' = Active
    BY <1>5, <2>1 DEF Active, Started, Events, End
  <2>3. QED
    BY <2>1, <2>2
<1>12. QED
  BY <1>7, <1>9, <1>10, <1>11 DEF PlaybackInv

LEMMA WaitKeeps ==
  ASSUME ConstantsOK, PlaybackInv, NEW d \in FrameMs, Wait(d) \/ Rest,
         UNCHANGED <<trace, schedule, rate, paused, looping, dockInputs>>
  PROVE  PlaybackInv'
<1>1. PlaybackTypeOK /\ PoolAt(pool, clockMs) /\ HoldsAtEnd
  BY DEF PlaybackInv
<1>2. UNCHANGED <<clockMs, iteration, selected>> /\ pool' = Settled(pool, clockMs)
  BY DEF Wait, Rest
<1>3. clockMs \in Nat /\ PoolSize \in Nat /\ OnScreen /\ clockMs <= clockMs
  BY <1>1, Screen
<1>4. PoolAt(pool', clockMs')
  BY <1>1, <1>2, <1>3, PoolSettles
<1>5. PoolAt(pool, clockMs)' /\ pool'.free \in 0..PoolSize
  BY <1>4, SameScreen
<1>6. hold' \in 0..FAILED_TRACE_LOOP_HOLD_MS
  <2>1. CASE Rest
    BY <1>1, <2>1 DEF Rest, PlaybackTypeOK
  <2>2. CASE Wait(d)
    <3>1. d \in Nat /\ hold \in Nat
      <4>1. d \in Nat
        BY DEF ConstantsOK
      <4>2. hold \in Nat
        BY <1>1 DEF PlaybackTypeOK, FAILED_TRACE_LOOP_HOLD_MS
      <4>3. QED
        BY <4>1, <4>2
    <3>2. hold' = hold + d /\ hold + d < HoldDuration
      BY <2>2 DEF Wait
    <3>3. HoldDuration \in {1800, 2600}
      BY DEF HoldDuration, FAILED_TRACE_LOOP_HOLD_MS, TRACE_LOOP_HOLD_MS
    <3>4. QED
      BY <3>1, <3>2, <3>3 DEF FAILED_TRACE_LOOP_HOLD_MS
  <2>3. QED
    BY <2>1, <2>2
<1>7. PlaybackTypeOK'
  BY <1>1, <1>2, <1>5, <1>6 DEF PlaybackTypeOK, Events
<1>8. HoldsAtEnd'
  <2>1. AtEnd' = AtEnd /\ looping' = looping
    BY <1>2 DEF AtEnd
  <2>2. CASE Rest
    BY <1>1, <2>1, <2>2 DEF Rest, HoldsAtEnd
  <2>3. CASE Wait(d)
    BY <2>1, <2>3 DEF Wait, Holding, HoldsAtEnd
  <2>4. QED
    BY <2>2, <2>3
<1>9. Active' = Active
  BY <1>2 DEF Active, Started, Events, End
<1>10. QED
  BY <1>2, <1>5, <1>7, <1>8, <1>9 DEF PlaybackInv

LEMMA LoopAgainKeeps ==
  ASSUME ConstantsOK, PlaybackInv, NEW d \in FrameMs, LoopAgain(d),
         UNCHANGED <<trace, schedule, rate, paused, looping, dockInputs>>
  PROVE  PlaybackInv'
<1>1. PlaybackTypeOK
  BY DEF PlaybackInv
<1>2. clockMs' = 0 /\ hold' = 0 /\ selected' = 0 /\ pool' = Settled(EmptyPool(pool.dropped), 0)
  BY DEF LoopAgain
<1>3. PoolAt(pool', clockMs')
  BY <1>2, PoolRestarts
<1>4. PoolAt(pool, clockMs)' /\ pool'.free \in 0..PoolSize
  BY <1>3, SameScreen
<1>5. iteration' \in 0..MaxIterations
  <2>1. iteration + 1 \in Nat /\ MaxIterations \in Nat
    BY <1>1 DEF PlaybackTypeOK, ConstantsOK
  <2>2. iteration' = IF iteration + 1 <= MaxIterations THEN iteration + 1 ELSE MaxIterations
    BY <2>1, LesserOfTwo DEF LoopAgain
  <2>3. QED
    BY <2>1, <2>2
<1>6. schedule.duration \in Nat
  BY <1>1, Screen
<1>7. PlaybackTypeOK'
  BY <1>1, <1>2, <1>4, <1>5, <1>6 DEF PlaybackTypeOK, FAILED_TRACE_LOOP_HOLD_MS
<1>8. QED
  BY <1>2, <1>4, <1>7 DEF PlaybackInv, HoldsAtEnd

LEMMA PlayKeeps ==
  ASSUME ConstantsOK, PlaybackInv, NEW r \in Receipts, Play(r), dockInputs' \in 0..MaxDockInputs
  PROVE  PlaybackInv'
<1>1. PlaybackTypeOK
  BY DEF PlaybackInv
<1>2. Plays(r, Schedules[r])
  BY ReceiptPlays
<1>3. PoolSize \in Nat /\ MaxIterations \in Nat \ {0}
  BY DEF ConstantsOK
<1>4. PoolAt(pool, clockMs)' /\ pool'.free \in 0..PoolSize
  <2>1. pool' = EmptyPool(FALSE) /\ clockMs' = 0
    BY DEF Play
  <2>2. IsFiniteSet({}) /\ Cardinality({}) = 0
    BY FS_EmptySet
  <2>3. QED
    BY <1>3, <2>1, <2>2 DEF PoolAt, EmptyPool, Pools
<1>5. schedule'.duration \in Nat
  BY <1>2 DEF Plays, Play
<1>6. iteration' \in 0..MaxIterations
  BY <1>3 DEF Play
<1>7. PlaybackTypeOK'
  <2>1. /\ trace' = r /\ schedule' = Schedules[r] /\ clockMs' = 0 /\ hold' = 0 /\ rate' = rate
        /\ paused' = FALSE /\ looping' = looping /\ selected' = 0
    BY DEF Play
  <2>2. 0 \in 0..schedule'.duration /\ 0 \in 0..FAILED_TRACE_LOOP_HOLD_MS
    BY <1>5 DEF FAILED_TRACE_LOOP_HOLD_MS
  <2>3. QED
    BY <1>1, <1>4, <1>6, <2>1, <2>2 DEF PlaybackTypeOK
<1>8. hold' = 0 /\ selected' = 0
  BY DEF Play
<1>9. QED
  BY <1>4, <1>7, <1>8 DEF PlaybackInv, HoldsAtEnd

(* The speed, pause and loop controls touch neither time nor particles.    *)
LEMMA SettingKeeps ==
  ASSUME ConstantsOK, PlaybackInv, dockInputs' \in 0..MaxDockInputs,
         \/ \E x \in Rates : SetPlaybackRate(x)
         \/ \E p \in BOOLEAN : SetPresentationPaused(p)
         \/ \E enabled \in BOOLEAN : SetLooping(enabled)
  PROVE  PlaybackInv'
<1>1. PlaybackTypeOK /\ PoolAt(pool, clockMs) /\ HoldsAtEnd /\ (selected # 0 => paused /\ selected \in Active)
  BY DEF PlaybackInv
<1>2. UNCHANGED <<trace, schedule, clockMs, iteration, pool>>
  BY DEF SetPlaybackRate, SetPresentationPaused, SetLooping
<1>3. PoolAt(pool, clockMs)'
  BY <1>1, <1>2, SameScreen
<1>4. Active' = Active /\ AtEnd' = AtEnd /\ Events' = Events
  BY <1>2 DEF Active, Started, Events, End, AtEnd
<1>5. selected' \in {selected, 0} /\ (selected' # 0 => paused')
  BY <1>1 DEF SetPlaybackRate, SetPresentationPaused, SetLooping
<1>6. hold' \in {hold, 0} /\ (hold' # 0 => looping' = looping \/ looping')
  BY DEF SetPlaybackRate, SetPresentationPaused, SetLooping
<1>7. rate' \in Rates \cup {1} /\ paused' \in BOOLEAN /\ looping' \in BOOLEAN
  BY <1>1 DEF SetPlaybackRate, SetPresentationPaused, SetLooping, PlaybackTypeOK
<1>8. hold' \in 0..FAILED_TRACE_LOOP_HOLD_MS
  <2>1. hold \in 0..2600 /\ 0 \in 0..2600
    BY <1>1 DEF PlaybackTypeOK, FAILED_TRACE_LOOP_HOLD_MS
  <2>2. QED
    BY <1>6, <2>1 DEF FAILED_TRACE_LOOP_HOLD_MS
<1>9. PlaybackTypeOK'
  BY <1>1, <1>2, <1>4, <1>5, <1>7, <1>8 DEF PlaybackTypeOK
<1>10. HoldsAtEnd'
  BY <1>1, <1>4, <1>6 DEF HoldsAtEnd
<1>11. QED
  BY <1>1, <1>3, <1>4, <1>5, <1>9, <1>10 DEF PlaybackInv

(* A jump lands on an event that begins at s: before it, or another that   *)
(* begins with it, is over.                                                *)
LEMMA JumpKeeps ==
  ASSUME ConstantsOK, PlaybackInv, dockInputs' \in 0..MaxDockInputs,
         NEW i \in Events, NEW life, \E j \in Events : /\ schedule.starts[j] = schedule.starts[i]
                                                       /\ schedule.lives[j] = life,
         schedule.lives[i] = life \/ selected' = 0, selected' \in {i, 0},
         JumpTo(schedule.starts[i] + (life * 55) \div 100)
  PROVE  PlaybackInv'
<1> DEFINE s == schedule.starts[i]
           t == s + (life * 55) \div 100
           n == schedule.duration
<1>1. PlaybackTypeOK
  BY DEF PlaybackInv
<1>2. s \in Nat /\ n \in Nat /\ life \in 520..1050 /\ s + life <= n
  <2>1. PICK j \in Events : schedule.starts[j] = s /\ schedule.lives[j] = life
    OBVIOUS
  <2>2. End(j) = s + life
    BY <2>1 DEF End
  <2>3. QED
    BY <1>1, <2>1, <2>2, Screen
<1> HIDE DEF s, n
<1>3. t \in Nat /\ t \in 0..n /\ s <= t /\ t < s + life
  <2>1. (life * 55) \div 100 \in 0..(life - 1)
    BY <1>2, SMTT(30)
  <2> DEFINE a == (life * 55) \div 100
  <2> HIDE DEF a
  <2>2. a \in 0..(life - 1) /\ t = s + a
    BY <2>1 DEF a
  <2>3. QED
    BY <1>2, <2>2
<1>4. clockMs' = t /\ hold' = 0 /\ iteration' = 1 /\ paused' = TRUE
      /\ pool' = Settled(EmptyPool(pool.dropped), t) /\ UNCHANGED <<trace, schedule, rate, looping>>
  BY DEF JumpTo, s
<1> HIDE DEF t
<1>5. PoolAt(pool', clockMs')
  BY <1>3, <1>4, PoolRestarts
<1>6. PoolAt(pool, clockMs)' /\ pool'.free \in 0..PoolSize
  BY <1>4, <1>5, SameScreen
<1>7. MaxIterations \in Nat \ {0}
  BY DEF ConstantsOK
<1>8. PlaybackTypeOK'
  BY <1>1, <1>3, <1>4, <1>6, <1>7 DEF PlaybackTypeOK, Events, FAILED_TRACE_LOOP_HOLD_MS, n
<1>9. ASSUME selected' # 0 PROVE selected' \in Active'
  <2>1. selected' = i /\ End(i) = s + life
    BY <1>9 DEF End, s
  <2>2. i \in Events' /\ schedule'.starts[i] <= clockMs' /\ clockMs' < End(i)'
    BY <1>3, <1>4, <2>1 DEF Events, End, s
  <2>3. QED
    BY <2>1, <2>2 DEF Active, Started
<1>10. QED
  BY <1>4, <1>6, <1>8, <1>9 DEF PlaybackInv, HoldsAtEnd

(* A step of the dock goes to a start, and stays for the shortest event    *)
(* that begins there.                                                      *)
LEMMA StepKeeps ==
  ASSUME ConstantsOK, PlaybackInv, dockInputs' \in 0..MaxDockInputs,
         NEW direction \in {-1, 1}, Step(direction)
  PROVE  PlaybackInv'
<1> DEFINE s == TargetStart(direction)
           there == {j \in Events : schedule.starts[j] = s}
           f == schedule.lives
           life == Min({schedule.lives[j] : j \in there})
<1>1. PlaybackTypeOK /\ PlaybackValid
  BY InvShows DEF PlaybackInv
<1>2. Shown \in Events
  <2>1. trace # <<>>
    BY DEF Step, Enabled
  <2>2. Headline.item \in Started
    BY <1>1, <2>1 DEF PlaybackValid, DockFollowsPlayback
  <2>3. QED
    BY <2>2 DEF Headline, Started
<1>3. PICK i \in Events : schedule.starts[i] = s
  <2> DEFINE begins == {schedule.starts[i] : i \in Events}
  <2>1. Beyond(direction) \in SUBSET begins
    BY DEF Beyond
  <2>2. s \in begins
    <3>1. CASE Beyond(direction) = {}
      BY <1>2, <3>1 DEF TargetStart
    <3>2. CASE Beyond(direction) # {}
      <4> DEFINE J == {j \in Events : schedule.starts[j] \in Beyond(direction)}
                 g == schedule.starts
      <4>1. Beyond(direction) = {g[j] : j \in J} /\ J # {}
        BY <2>1, <3>2
      <4>2. J \in SUBSET (1..Len(trace)) /\ Len(trace) \in Nat
        BY <1>1, Screen, ReceiptFacts DEF OnScreen, Events
      <4>3. \A j \in J : g[j] \in Int
        BY <1>1, Screen
      <4>4. J \subseteq Events
        OBVIOUS
      <4> HIDE DEF J, g
      <4>5. PICK a \in J : Min({g[j] : j \in J}) = g[a]
        BY <4>1, <4>2, <4>3, LeastOf
      <4>6. PICK b \in J : Max({g[j] : j \in J}) = g[b]
        BY <4>1, <4>2, <4>3, GreatestOf
      <4>7. s \in {g[a], g[b]}
        BY <3>2, <4>1, <4>5, <4>6 DEF TargetStart
      <4>8. QED
        BY <4>4, <4>5, <4>6, <4>7 DEF g
    <3>3. QED
      BY <3>1, <3>2
  <2>3. QED
    BY <2>2
<1>4. PICK j \in there : life = f[j]
  <2>1. there # {}
    BY <1>3
  <2>2. there \in SUBSET (1..Len(trace)) /\ Len(trace) \in Nat
    BY <1>1, Screen, ReceiptFacts DEF OnScreen, Events
  <2>3. \A j \in there : f[j] \in Int
    <3>1. \A j \in there : f[j] \in 520..1050
      BY <1>1, Screen
    <3> HIDE DEF there, f, life
    <3>2. \A m \in 520..1050 : m \in Int
      OBVIOUS
    <3>3. QED
      BY <3>1, <3>2
  <2>4. life = Min({f[j] : j \in there})
    OBVIOUS
  <2> HIDE DEF there, f, life
  <2> DEFINE n == Len(trace)
  <2>5. n \in Nat /\ there \in SUBSET (1..n)
    BY <2>2
  <2> HIDE DEF n
  <2>6. \E j \in there : /\ Min({f[k] : k \in there}) = f[j]
                        /\ \A k \in there : f[j] <= f[k]
    BY <2>1, <2>3, <2>5, LeastOf
  <2>7. QED
    BY <2>4, <2>6
<1>5. JumpTo(s + (life * 55) \div 100) /\ selected' = 0
  BY DEF Step
<1> HIDE DEF life, s
<1>6. \E m \in Events : schedule.starts[m] = schedule.starts[i] /\ schedule.lives[m] = life
  BY <1>3, <1>4
<1>7. JumpTo(schedule.starts[i] + (life * 55) \div 100)
  BY <1>3, <1>5
<1>8. QED
  BY <1>5, <1>6, <1>7, JumpKeeps

LEMMA SeekKeeps ==
  ASSUME ConstantsOK, PlaybackInv, dockInputs' \in 0..MaxDockInputs,
         NEW i \in Events, Seek(i)
  PROVE  PlaybackInv'
<1> DEFINE life == schedule.lives[i]
<1>1. JumpTo(schedule.starts[i] + (life * 55) \div 100) /\ selected' = i
  BY DEF Seek
<1>2. \E m \in Events : schedule.starts[m] = schedule.starts[i] /\ schedule.lives[m] = life
  OBVIOUS
<1>3. schedule.lives[i] = life
  OBVIOUS
<1> HIDE DEF life
<1>4. QED
  BY <1>1, <1>2, <1>3, JumpKeeps

LEMMA ReplayKeeps ==
  ASSUME ConstantsOK, PlaybackInv, dockInputs' \in 0..MaxDockInputs, Replay
  PROVE  PlaybackInv'
<1>1. PlaybackTypeOK
  BY DEF PlaybackInv
<1>2. clockMs' = 0 /\ hold' = 0 /\ selected' = 0 /\ iteration' = 1 /\ paused' = FALSE
      /\ pool' = EmptyPool(pool.dropped) /\ UNCHANGED <<trace, schedule, rate, looping>>
  BY DEF Replay
<1>3. PoolAt(pool', clockMs')
  BY <1>2, PoolRestarts
<1>4. PoolAt(pool, clockMs)' /\ pool'.free \in 0..PoolSize
  BY <1>2, <1>3, SameScreen
<1>5. 0 \in 0..schedule.duration /\ 1 \in 0..MaxIterations
  BY <1>1, Screen DEF ConstantsOK
<1>6. PlaybackTypeOK'
  <2>1. 0 \in 0..FAILED_TRACE_LOOP_HOLD_MS /\ Events' = Events
    BY <1>2 DEF Events, FAILED_TRACE_LOOP_HOLD_MS
  <2>2. clockMs' \in 0..schedule'.duration /\ selected' \in Events' \cup {0}
    BY <1>2, <1>5
  <2>3. QED
    BY <1>1, <1>2, <1>4, <1>5, <2>1, <2>2 DEF PlaybackTypeOK
<1>7. QED
  BY <1>2, <1>4, <1>6 DEF PlaybackInv, HoldsAtEnd

LEMMA StopKeeps ==
  ASSUME ConstantsOK, PlaybackInv, dockInputs' \in 0..MaxDockInputs, Stop
  PROVE  PlaybackInv'
<1>1. PlaybackTypeOK /\ pool.dropped \in BOOLEAN /\ pool.scheduled \in SUBSET Nat
  BY DEF PlaybackInv, PoolAt, Pools
<1>2. clockMs' = 0 /\ hold' = 0 /\ selected' = 0 /\ iteration' = 0 /\ paused' = FALSE
      /\ trace' = <<>> /\ schedule' = Schedules[<<>>] /\ rate' = rate /\ looping' = looping
  BY DEF Stop
<1>3. schedule'.duration = 0
  BY <1>2, ReceiptPlays DEF Plays
<1>4. pool' = [scheduled |-> pool.scheduled, flying |-> {}, free |-> PoolSize, dropped |-> pool.dropped]
  BY DEF Stop, EmptyPool
<1>5. PoolSize \in Nat /\ IsFiniteSet({}) /\ Cardinality({}) = 0
  BY FS_EmptySet DEF ConstantsOK
<1>6. pool' \in Pools
  BY <1>1, <1>4, <1>5 DEF Pools
<1>7. pool'.free \in 0..PoolSize
  BY <1>6 DEF Pools
<1>8. PoolAt(pool, clockMs)'
  <2>1. Len(trace') = 0 /\ DOMAIN trace' = {}
    BY <1>2
  <2>2. ActiveAt(clockMs)' = {}
    BY <2>1 DEF ActiveAt, StartedBy, Events
  <2>3. pool'.flying = {} /\ pool'.free = PoolSize
    BY <1>4
  <2>4. Len(trace') \notin 1..PoolSize
    BY <1>5, <2>1
  <2>5. PoolSize + 0 = PoolSize
    BY <1>5
  <2>6. QED
    BY <1>2, <1>5, <1>6, <2>2, <2>3, <2>4, <2>5 DEF PoolAt, Pools
<1>9. PlaybackTypeOK'
  <2>1. /\ 0 \in 0..schedule'.duration /\ 0 \in 0..FAILED_TRACE_LOOP_HOLD_MS
        /\ 0 \in 0..MaxIterations
    BY <1>3 DEF ConstantsOK, FAILED_TRACE_LOOP_HOLD_MS
  <2>2. QED
    BY <1>1, <1>2, <1>7, <2>1 DEF PlaybackTypeOK
<1>10. QED
  BY <1>2, <1>8, <1>9 DEF PlaybackInv, HoldsAtEnd

LEMMA PlaybackStep ==
  ASSUME ConstantsOK, PlaybackInv, [PlaybackNext]_playVars
  PROVE  PlaybackInv'
<1>1. CASE UNCHANGED playVars
  <2>1. PoolAt(pool, clockMs)' /\ Active' = Active /\ AtEnd' = AtEnd /\ Events' = Events
    BY <1>1, SameScreen DEF playVars, PlaybackInv, Active, Started, Events, End, AtEnd
  <2>2. QED
    BY <1>1, <2>1 DEF playVars, PlaybackInv, PlaybackTypeOK, HoldsAtEnd
<1>2. ASSUME NEW d \in FrameMs, AnimationFrame(d) PROVE PlaybackInv'
  BY <1>2, AdvanceKeeps, WaitKeeps, LoopAgainKeeps DEF AnimationFrame
<1>3. CASE DockInput
  <2>1. dockInputs' \in 0..MaxDockInputs
    <3>1. dockInputs \in Nat /\ MaxDockInputs \in Nat /\ dockInputs < MaxDockInputs /\ dockInputs' = dockInputs + 1
      BY <1>3 DEF DockInput, PlaybackInv, PlaybackTypeOK, ConstantsOK
    <3>2. QED
      BY <3>1
  <2>2. ASSUME NEW r \in Receipts \cup Handled, Play(r) PROVE PlaybackInv'
    <3>1. r \in Receipts
      BY DEF ConstantsOK
    <3>2. QED
      BY <2>1, <2>2, <3>1, PlayKeeps
  <2>3. QED
    BY <1>3, <2>1, <2>2, SettingKeeps, StepKeeps, SeekKeeps, ReplayKeeps, StopKeeps DEF DockInput
<1>4. QED
  BY <1>1, <1>2, <1>3 DEF PlaybackNext

(* The particles are those of the events that are on and none is lost, a    *)
(* sought event stays on the dock, time is only held at the end, and the   *)
(* dock shows an event that has started, whatever the receipts, the size   *)
(* of the pool and the order of frames and controls (spawn, update, seek,  *)
(* setPaused, setLooping of trace-flows.ts).                               *)
THEOREM PlaybackValidHolds ==
  PlaybackSpec => []PlaybackValid
<1> USE PlaybackAssumption
<1>1. PlaybackInit => PlaybackInv
  BY InitHolds
<1>2. PlaybackInv /\ [PlaybackNext]_playVars => PlaybackInv'
  BY PlaybackStep
<1>3. PlaybackInv => PlaybackValid
  BY InvShows
<1>4. QED
  BY <1>1, <1>2, <1>3, PTL DEF PlaybackSpec

(* An event is only on the screen when all its dependencies have been      *)
(* there ("starts only after all known parents finish").                   *)
THEOREM DependenciesComeFirst ==
  PlaybackSpec => []DependenciesFirst
<1> USE PlaybackAssumption
<1>1. ASSUME PlaybackInv PROVE DependenciesFirst
  <2>1. PlaybackTypeOK
    BY <1>1 DEF PlaybackInv
  <2>2. SUFFICES ASSUME NEW i \in Active, NEW d \in trace[i].deps PROVE clockMs >= End(d)
    BY DEF DependenciesFirst
  <2>3. i \in Events /\ schedule.starts[i] <= clockMs
    BY DEF Active, Started
  <2>4. d \in Events /\ End(d) <= schedule.starts[i]
    BY <2>1, <2>3, Screen DEF OnScreen, Plays, Events, End
  <2>5. End(d) \in Nat /\ schedule.starts[i] \in Nat /\ clockMs \in Nat
    BY <2>1, <2>3, <2>4, Screen
  <2>6. QED
    BY <2>3, <2>4, <2>5
<1>2. PlaybackInit => PlaybackInv
  BY InitHolds
<1>3. PlaybackInv /\ [PlaybackNext]_playVars => PlaybackInv'
  BY PlaybackStep
<1>4. PlaybackInv => DependenciesFirst
  BY <1>1
<1>5. QED
  BY <1>2, <1>3, <1>4, PTL DEF PlaybackSpec

(* The schedule keeps what the comment above it promises: parents first,   *)
(* and of two events that overlap on the model's clock one passes the      *)
(* other or parts from it on the screen only while a dependency of its own *)
(* puts it off.  Times are whole milliseconds here: two events could be    *)
(* rounded to touch if the first one lasted longer than it is shown.       *)
THEOREM ScheduleStaysFaithful ==
  ASSUME \A r \in Receipts : ShownInFull(r)
  PROVE  PlaybackSpec => []ScheduleIsFaithful
<1> USE PlaybackAssumption
<1>1. ASSUME PlaybackInv PROVE OverlapsStay
  <2>1. trace \in Receipts \cup {<<>>} /\ schedule = Schedules[trace] /\ PlaybackTypeOK
    BY <1>1 DEF PlaybackInv, PlaybackTypeOK
  <2>2. schedule = Schedule(trace)
    BY <2>1 DEF Schedules
  <2>3. IsReceipt(trace)
    BY <2>1, ReceiptPlays
  <2>4. ShownInFull(trace)
    <3>1. CASE trace = <<>>
      BY <3>1 DEF ShownInFull
    <3>2. CASE trace \in Receipts
      BY <3>2
    <3>3. QED
      BY <2>1, <3>1, <3>2
  <2>5. OverlapsKept(trace, schedule)
    BY <2>2, <2>3, <2>4, ScheduleOverlaps
  <2>6. QED
    BY <2>5 DEF OverlapsKept, BeginsDuring, HeldBack, PutOff, OverlapsStay, Events, End
<1>2. PlaybackSpec => []DependenciesFirst
  BY DependenciesComeFirst
<1>3. PlaybackInit => PlaybackInv
  BY InitHolds
<1>4. PlaybackInv /\ [PlaybackNext]_playVars => PlaybackInv'
  BY PlaybackStep
<1>5. PlaybackInv => OverlapsStay
  BY <1>1
<1>6. DependenciesFirst /\ OverlapsStay => ScheduleIsFaithful
  BY DEF ScheduleIsFaithful
<1>7. QED
  BY <1>2, <1>3, <1>4, <1>5, <1>6, PTL DEF PlaybackSpec
=============================================================================
