---------------------------- MODULE UnitsProofs ----------------------------
(***************************************************************************)
(* Theorems of the units beside the processor's pipeline.                  *)
(*                                                                         *)
(* The Count / Compare timer, for every counter width and every stall      *)
(* shorter than a turn of the counter.                                     *)
(*                                                                         *)
(* The MMU with its exceptions, for every number of TLB entries, every set *)
(* of addresses and every sequence of privileged instructions.             *)
(*                                                                         *)
(* The caches: that the data cache loses no store and puts none somewhere  *)
(* else, and that what is written back is what a load, and then a fetch,   *)
(* sees, for any words of memory and values, whatever loads, stores, CACHE *)
(* instructions and transfers behind the caches go before.  The lines'     *)
(* number and size are those of the model.                                 *)
(*                                                                         *)
(* The FPU: that an instruction traps with nothing done or commits, for    *)
(* any formats, operands, enables and rounding modes.                      *)
(***************************************************************************)
EXTENDS CountTimer, Mmu, Caches, Fpu, Integers, FiniteSetTheorems, WellFoundedInduction, TLAPS

-----------------------------------------------------------------------------
(* The timer.                                                              *)

\* Wrapping arithmetic stays in the word.
LEMMA WordClosed ==
  ASSUME NEW a \in Word, NEW b \in Word
  PROVE  Add(a, b) \in Word /\ Sub(a, b) \in Word
  BY TimerAssumption DEF Word, Add, Sub

\* The affine Count mapping moves by one when the position does.
LEMMA CountMovesByOne ==
  ASSUME NEW e \in Word, NEW t \in Word, NEW n \in Word
  PROVE  Add(e, Sub(Add(n, 1), t)) = Add(Add(e, Sub(n, t)), 1)
  BY TimerAssumption DEF Word, Add, Sub

\* Moving Count one further opens timer_edge's window by exactly the value
\* moved to, as long as less than a whole turn is covered.
LEMMA WindowOpensByOne ==
  ASSUME NEW prev \in Word, NEW count \in Word, NEW comp \in Word,
         Sub(count, prev) < Modulus - 1
  PROVE  /\ Sub(Add(count, 1), prev) = Sub(count, prev) + 1
         /\ TimerEdge(prev, Add(count, 1), comp)
              <=> (TimerEdge(prev, count, comp) \/ comp = Add(count, 1))
  BY TimerAssumption DEF Word, Add, Sub, TimerEdge

\* A window that has just been re-based is shut.
LEMMA RebasedIsShut ==
  ASSUME NEW count \in Word, NEW comp \in Word
  PROVE  Sub(count, count) = 0 /\ ~TimerEdge(count, count, comp)
  BY DEF Word, Sub, TimerEdge

\* A Count re-based at a position reads as written there.
LEMMA RebasedReadsBack ==
  ASSUME NEW v \in Word, NEW n \in Word
  PROVE  Add(v, Sub(n, n)) = v
  BY TimerAssumption DEF Word, Add, Sub

-----------------------------------------------------------------------------
\* The timer starts typed.
LEMMA InitTyped ==
  ASSUME Init PROVE TypeOK
<1>1. 0 \in Word /\ 0 \in 0 .. MaxStall
  BY TimerAssumption DEF Word
<1>2. {now, epochValue, epochTick, lastCount, compare} \subseteq Word
  BY <1>1 DEF Init
<1> QED
  BY <1>1, <1>2 DEF Init, TypeOK

\* Count is a word and timer_edge's registers are too, in every reachable state.
THEOREM TypeCorrect == Spec => []TypeOK
<1>1. ASSUME Init PROVE TypeOK
  BY <1>1, InitTyped
<1>2. ASSUME TypeOK, [Next]_vars PROVE TypeOK'
  <2> USE <1>2
  <2>1. /\ NextNow \in Word /\ CountAt(NextNow) \in Word
        /\ NextHalf \in {0, 1} /\ HwSees \in BOOLEAN
    <3>1. 1 \in Word  BY TimerAssumption DEF Word
    <3> QED
      BY <3>1, WordClosed DEF TypeOK, NextNow, CountAt, NextHalf, HwSees
  <2>2. 0 \in 0 .. MaxStall  BY TimerAssumption
  <2>3. CASE Stall
    <3>1. stalled' \in 0 .. MaxStall
      BY <2>3, TimerAssumption DEF Stall, TypeOK
    <3> QED  BY <2>1, <2>3, <3>1 DEF Stall, TypeOK
  <2>4. CASE RunPoll
    BY <2>1, <2>2, <2>4 DEF RunPoll, TypeOK, TimerEdge
  <2>5. ASSUME NEW v \in Word, RunWriteCompare(v) PROVE TypeOK'
    BY <2>1, <2>2, <2>5 DEF RunWriteCompare, TypeOK, TimerEdge
  <2>6. ASSUME NEW v \in Word, RunWriteCount(v) PROVE TypeOK'
    <3>1. Add(v, Sub(NextNow, EpochTick(NextNow))) \in Word
      BY <2>1, WordClosed DEF EpochTick
    <3> QED
      BY <2>1, <2>2, <2>6, <3>1 DEF RunWriteCount, TypeOK, TimerEdge, EpochTick
  <2>7. CASE UNCHANGED vars  BY <2>7 DEF vars, TypeOK
  <2> QED  BY <2>3, <2>4, <2>5, <2>6, <2>7 DEF Next
<1> QED  BY <1>1, <1>2, PTL DEF Spec

\* What timer_edge would report if it were polled now.
Pending == TimerEdge(lastCount, Count, compare)

\* The strengthening: the window never covers more ticks than cycles stalled,
\* so never a whole turn, and IP7 together with the window is exactly what the
\* part that compares at every tick has latched, but for dropped matches.
TimerInv ==
  /\ TypeOK
  /\ Sub(Count, lastCount) <= stalled
  /\ ip7 \/ Pending => hwIp7
  /\ dropped = "no" /\ hwIp7 => ip7 \/ Pending

\* One PClock's worth of Count, seen by both detectors.
LEMMA PClock ==
  ASSUME TimerInv
  PROVE  /\ Sub(CountAt(NextNow), lastCount) <= stalled + 1
         /\ ip7 \/ TimerEdge(lastCount, CountAt(NextNow), compare) => HwSees
         /\ dropped = "no" /\ HwSees =>
              ip7 \/ TimerEdge(lastCount, CountAt(NextNow), compare)
<1> USE DEF TimerInv, TypeOK
<1>1. Count \in Word /\ stalled + 1 < Modulus - 1 /\ stalled \in Nat
  BY WordClosed, TimerAssumption DEF Count, CountAt
<1>2. CASE half = 1
  <2>1. CountAt(NextNow) = Add(Count, 1)
    BY <1>2, CountMovesByOne DEF Count, CountAt, NextNow
  <2>2. Sub(Count, lastCount) \in Nat /\ Sub(Count, lastCount) < Modulus - 1
    <3>1. lastCount \in Word  OBVIOUS
    <3>2. Sub(Count, lastCount) \in Word  BY <1>1, <3>1, WordClosed
    <3>3. Sub(Count, lastCount) \in Nat  BY <3>2, TimerAssumption DEF Word
    <3> QED  BY <1>1, <3>3, TimerAssumption
  <2>3. /\ Sub(Add(Count, 1), lastCount) = Sub(Count, lastCount) + 1
        /\ TimerEdge(lastCount, Add(Count, 1), compare)
             <=> (Pending \/ compare = Add(Count, 1))
    BY <1>1, <2>2, WindowOpensByOne DEF Pending
  <2> QED
    BY <1>1, <1>2, <2>1, <2>2, <2>3 DEF HwSees
<1>3. CASE half = 0
  <2>1. CountAt(NextNow) = Count
    BY <1>3 DEF Count, CountAt, NextNow
  <2>2. Sub(Count, lastCount) \in Nat
    BY <1>1, WordClosed DEF Word
  <2> QED
    BY <1>1, <1>3, <2>1, <2>2 DEF HwSees, Pending
<1> QED  BY <1>2, <1>3

\* Every PClock, with or without a write to the timer, keeps its invariant.
LEMMA TimerInvInductive ==
  ASSUME TimerInv, TypeOK', [Next]_vars
  PROVE  TimerInv'
<1> USE TimerInv, TypeOK'
<1>1. /\ Sub(CountAt(NextNow), lastCount) <= stalled + 1
      /\ ip7 \/ TimerEdge(lastCount, CountAt(NextNow), compare) => HwSees
      /\ dropped = "no" /\ HwSees =>
           ip7 \/ TimerEdge(lastCount, CountAt(NextNow), compare)
  BY PClock
<1>2. CountAt(NextNow) \in Word /\ compare \in Word /\ NextNow \in Word
  <2>1. 1 \in Word  BY TimerAssumption DEF Word
  <2> QED  BY <2>1, WordClosed DEF TimerInv, TypeOK, NextNow, CountAt
<1>3. CASE Stall
  <2>1. Count' = CountAt(NextNow) /\ lastCount' = lastCount /\ compare' = compare
    BY <1>3 DEF Stall, Count, CountAt
  <2> QED
    BY <1>1, <1>3, <2>1 DEF Stall, TimerInv, Pending
<1>4. CASE RunPoll
  <2>1. Count' = CountAt(NextNow) /\ lastCount' = Count' /\ compare' = compare
    BY <1>4 DEF RunPoll, Count, CountAt
  <2>2. Sub(Count', lastCount') = 0 /\ ~Pending'
    BY <1>2, <2>1, RebasedIsShut DEF Pending
  <2>3. /\ stalled' = 0 /\ dropped' = dropped /\ hwIp7' = HwSees
        /\ ip7' = (ip7 \/ TimerEdge(lastCount, CountAt(NextNow), compare))
    BY <1>4 DEF RunPoll
  <2>4. ip7' \/ Pending' => hwIp7'
    BY <1>1, <2>2, <2>3
  <2>5. dropped' = "no" /\ hwIp7' => ip7' \/ Pending'
    BY <1>1, <2>3
  <2> QED
    BY <2>2, <2>3, <2>4, <2>5 DEF TimerInv
<1>5. ASSUME NEW v \in Word, RunWriteCompare(v) PROVE TimerInv'
  <2>1. Count' = CountAt(NextNow) /\ lastCount' = Count' /\ compare' = v
    BY <1>5 DEF RunWriteCompare, Count, CountAt
  <2>2. Sub(Count', lastCount') = 0 /\ ~Pending'
    BY <1>2, <2>1, RebasedIsShut DEF Pending
  <2>3. ~ip7' /\ ~hwIp7' /\ stalled' = 0
    BY <1>2, <1>5, RebasedIsShut DEF RunWriteCompare, Rebased
  <2> QED
    BY <2>2, <2>3 DEF TimerInv
<1>6. ASSUME NEW v \in Word, RunWriteCount(v) PROVE TimerInv'
  <2>1. Count' = v /\ lastCount' = v /\ compare' = compare
    BY <1>2, <1>6, RebasedReadsBack
       DEF RunWriteCount, Count, CountAt, EpochTick
  <2>2. Sub(Count', lastCount') = 0 /\ ~Pending'
    BY <1>2, <2>1, RebasedIsShut DEF Pending
  <2>3. (ip7' <=> ip7) /\ hwIp7' = HwSees /\ stalled' = 0
    BY <1>2, <1>6, RebasedReadsBack, RebasedIsShut
       DEF RunWriteCount, Rebased, EpochTick, TimerInv, TypeOK
  <2>4. dropped' = "no" => ip7 \/ ~HwSees
    BY <1>6 DEF RunWriteCount
  <2> QED
    BY <1>1, <2>2, <2>3, <2>4 DEF TimerInv
<1>7. CASE UNCHANGED vars
  BY <1>7 DEF vars, TimerInv, Pending, Count, CountAt
<1> QED  BY <1>3, <1>4, <1>5, <1>6, <1>7 DEF Next

\* The edge detector invents no interrupt, and loses none to a stall: IP7 is
\* what comparing at every tick would have made it, but for a match a Count
\* write has discarded.
THEOREM TimerCorrect == Spec => []TimerExact
<1>1. ASSUME Init PROVE TimerInv
  <2>1. TypeOK
    BY <1>1, InitTyped
  <2>2. Count = 0 /\ lastCount = 0 /\ compare = 0 /\ 0 \in Word
    BY <1>1, TimerAssumption DEF Init, Count, CountAt, Add, Sub, Word
  <2> QED
    BY <1>1, <2>1, <2>2, RebasedIsShut DEF Init, TimerInv, Pending
<1>2. TimerInv /\ TypeOK' /\ [Next]_vars => TimerInv'
  BY TimerInvInductive
<1>3. TimerInv => TimerExact
  <2> SUFFICES ASSUME TimerInv PROVE TimerExact
    OBVIOUS
  <2>1. Count \in Word
    BY WordClosed DEF TimerInv, TypeOK, Count, CountAt
  <2>2. stalled = 0 => ~Pending
    BY <2>1, TimerAssumption DEF TimerInv, TypeOK, Pending, TimerEdge, Word, Sub
  <2> QED
    BY <2>2 DEF TimerInv, TypeOK, NoSpuriousTimer, TimerExact
<1> QED  BY <1>1, <1>2, <1>3, TypeCorrect, PTL DEF Spec

-----------------------------------------------------------------------------
(* The MMU: the count of Random.                                           *)

\* What is over after so many whole turns is the remainder.
LEMMA Remainder ==
  ASSUME NEW n \in Nat, NEW q \in Nat, NEW r \in 0 .. n - 1
  PROVE  (q * n + r) % n = r
  OBVIOUS

\* Less than two turns of a counter are undone by taking off one.
LEMMA WrapOnce ==
  ASSUME NEW n \in Nat, n > 0, NEW x \in Int, 0 <= x, x <= 2 * n - 1
  PROVE  x % n = IF x < n THEN x ELSE x - n
<1>1. CASE x < n
  BY <1>1
<1>2. CASE x >= n
  <2>1. x = 1 * n + (x - n) /\ x - n \in 0 .. n - 1
    BY <1>2
  <2>2. (1 * n + (x - n)) % n = x - n
    BY <2>1, Remainder
  <2> QED  BY <1>2, <2>1, <2>2
<1> QED  BY <1>1, <1>2

\* One more, modulo a number.
LEMMA NextRemainder ==
  ASSUME NEW n \in Nat, n > 0, NEW a \in Nat
  PROVE  /\ a % n \in Nat /\ a % n < n
         /\ (a + 1) % n = IF a % n = n - 1 THEN 0 ELSE (a % n) + 1
<1> DEFINE q == a \div n
           r == a % n
<1>1. q \in Nat /\ r \in 0 .. n - 1 /\ a = q * n + r /\ q * n \in Nat
  OBVIOUS
<1> HIDE DEF q, r
<1>2. CASE r = n - 1
  <2>1. a + 1 = (q + 1) * n + 0 /\ q + 1 \in Nat /\ 0 \in 0 .. n - 1
    BY <1>1, <1>2
  <2>2. ((q + 1) * n + 0) % n = 0
    BY <2>1, Remainder
  <2> QED  BY <1>1, <1>2, <2>1, <2>2 DEF r
<1>3. CASE r # n - 1
  <2>1. a + 1 = q * n + (r + 1) /\ r + 1 \in 0 .. n - 1
    BY <1>1, <1>3
  <2>2. (q * n + (r + 1)) % n = r + 1
    BY <1>1, <2>1, Remainder
  <2> QED  BY <1>1, <1>3, <2>1, <2>2 DEF r
<1> QED  BY <1>2, <1>3

\* Random after one instruction and, in closed form, after so many, as numbers.
Ticked(x, w) == IF x = w THEN N - 1 ELSE (x + 2 * N - 1) % (2 * N)
ToWired(x, w) == (x + 2 * N - w) % (2 * N)
Cycle(w) == ((N - 1 + 2 * N - w) % (2 * N)) + 1
Counted(x, w, n) ==
  IF n <= ToWired(x, w) THEN (x + 2 * N - n) % (2 * N)
  ELSE (N - 1 + 2 * N - ((n - ToWired(x, w) - 1) % Cycle(w))) % (2 * N)

\* A count past zero goes on at the top.
LEMMA WrapRandom ==
  ASSUME NEW y \in Int, 0 <= y, y <= 4 * N - 1
  PROVE  y % (2 * N) = IF y < 2 * N THEN y ELSE y - 2 * N
<1> DEFINE M == 2 * N
<1>1. M \in Nat /\ M > 0 /\ y <= 2 * M - 1
  BY MmuAssumption
<1> HIDE DEF M
<1>2. y % M = IF y < M THEN y ELSE y - M
  BY <1>1, WrapOnce
<1> QED  BY <1>2 DEF M

\* One instruction moves Random down by one, to the last entry from Wired.
LEMMA TickedIs ==
  ASSUME NEW w, NEW y \in 0 .. 2 * N - 1
  PROVE  Ticked(y, w) = IF y = w THEN N - 1 ELSE IF y = 0 THEN 2 * N - 1 ELSE y - 1
<1> DEFINE z == y + 2 * N - 1
<1>1. z \in Int /\ 0 <= z /\ z <= 4 * N - 1 /\ N \in Nat
  BY MmuAssumption
<1>2. z % (2 * N) = IF z < 2 * N THEN z ELSE z - 2 * N
  <2> HIDE DEF z
  <2> QED  BY <1>1, WrapRandom
<1> QED  BY <1>1, <1>2 DEF Ticked

\* The closed form of Random goes on as the count does, for every Wired and Random and
\* however long the batch.
LEMMA ClosedForm ==
  ASSUME NEW x \in 0 .. 2 * N - 1, NEW w \in 0 .. 2 * N - 1, NEW n \in Nat
  PROVE  /\ Counted(x, w, 0) = x
         /\ Counted(x, w, n) \in 0 .. 2 * N - 1
         /\ Counted(x, w, n + 1) = Ticked(Counted(x, w, n), w)
<1> DEFINE d == ToWired(x, w)
           L == Cycle(w)
<1>1. N \in Nat /\ N > 0 /\ 2 * N \in Nat /\ 2 * N > 0
  BY MmuAssumption
<1>2. ASSUME NEW y \in Int, 0 <= y, y <= 4 * N - 1
      PROVE  y % (2 * N) = IF y < 2 * N THEN y ELSE y - 2 * N
  BY <1>2, WrapRandom
<1>3. d \in Int /\ 0 <= d /\ d < 2 * N /\ d = IF x >= w THEN x - w ELSE x + 2 * N - w
  <2> DEFINE y == x + 2 * N - w
  <2>1. y \in Int /\ 0 <= y /\ y <= 4 * N - 1
    BY <1>1
  <2>2. d = IF y < 2 * N THEN y ELSE y - 2 * N
    <3> HIDE DEF y
    <3>1. y % (2 * N) = IF y < 2 * N THEN y ELSE y - 2 * N
      BY <1>2, <2>1
    <3> QED  BY <3>1 DEF y, ToWired
  <2> QED  BY <1>1, <2>2
<1>4. L \in Nat /\ L > 0 /\ L <= 2 * N /\ L = IF w <= N - 1 THEN N - w ELSE 3 * N - w
  <2> DEFINE y == N - 1 + 2 * N - w
  <2>1. y \in Int /\ 0 <= y /\ y <= 4 * N - 1
    BY <1>1
  <2>2. L = (IF y < 2 * N THEN y ELSE y - 2 * N) + 1
    <3> HIDE DEF y
    <3>1. y % (2 * N) = IF y < 2 * N THEN y ELSE y - 2 * N
      BY <1>2, <2>1
    <3> QED  BY <3>1 DEF y, Cycle
  <2> QED  BY <1>1, <2>2
<1>5. ASSUME NEW j \in Nat, j <= d
      PROVE  Counted(x, w, j) = IF x >= j THEN x - j ELSE x + 2 * N - j
  <2> DEFINE y == x + 2 * N - j
  <2>1. y \in Int /\ 0 <= y /\ y <= 4 * N - 1
    BY <1>1, <1>3, <1>5
  <2>2. Counted(x, w, j) = y % (2 * N)
    BY <1>5 DEF Counted
  <2>3. y % (2 * N) = IF y < 2 * N THEN y ELSE y - 2 * N
    <3> HIDE DEF y
    <3> QED  BY <1>2, <2>1
  <2> QED  BY <1>1, <2>2, <2>3
<1>6. ASSUME NEW j \in Nat, j > d, NEW i \in Nat, i < L, i = (j - d - 1) % L
      PROVE  Counted(x, w, j) = IF i <= N - 1 THEN N - 1 - i ELSE 3 * N - 1 - i
  <2> DEFINE y == N - 1 + 2 * N - i
  <2>1. y \in Int /\ 0 <= y /\ y <= 4 * N - 1
    BY <1>1, <1>4, <1>6
  <2>2. Counted(x, w, j) = y % (2 * N)
    BY <1>3, <1>6 DEF Counted
  <2>3. y % (2 * N) = IF y < 2 * N THEN y ELSE y - 2 * N
    <3> HIDE DEF y
    <3> QED  BY <1>2, <2>1
  <2> QED  BY <1>1, <2>2, <2>3
<1>7. ASSUME NEW y \in 0 .. 2 * N - 1
      PROVE  Ticked(y, w) = IF y = w THEN N - 1 ELSE IF y = 0 THEN 2 * N - 1 ELSE y - 1
  BY TickedIs
<1>8. ASSUME NEW j \in Nat, j > d
      PROVE  LET i == (j - d - 1) % L
             IN  /\ i \in Nat /\ i < L
                 /\ ((j + 1) - d - 1) % L = IF i = L - 1 THEN 0 ELSE i + 1
  <2> DEFINE a == j - d - 1
  <2>1. a \in Nat /\ ((j + 1) - d - 1) = a + 1
    BY <1>3, <1>8
  <2> HIDE DEF L, d, a
  <2>2. a % L \in Nat /\ a % L < L /\ (a + 1) % L = IF a % L = L - 1 THEN 0 ELSE (a % L) + 1
    BY <1>4, <2>1, NextRemainder
  <2> QED  BY <2>1, <2>2 DEF a
<1>9. 0 % L = 0 /\ 0 < L
  BY <1>4
<1> HIDE DEF d, L
<1>10. Counted(x, w, 0) = x
  BY <1>1, <1>3, <1>5
<1>11. Counted(x, w, n) \in 0 .. 2 * N - 1
  <2>1. CASE n <= d
    BY <1>1, <1>3, <1>5, <2>1
  <2>2. CASE n > d
    <3> DEFINE i == (n - d - 1) % L
    <3>1. i \in Nat /\ i < L
      BY <1>8, <2>2
    <3> HIDE DEF i
    <3>2. Counted(x, w, n) = IF i <= N - 1 THEN N - 1 - i ELSE 3 * N - 1 - i
      BY <1>6, <2>2, <3>1 DEF i
    <3> QED  BY <1>1, <1>4, <3>1, <3>2
  <2> QED  BY <1>3, <2>1, <2>2
<1>12. Counted(x, w, n + 1) = Ticked(Counted(x, w, n), w)
  <2>1. CASE n < d
    <3>1. Counted(x, w, n) = IF x >= n THEN x - n ELSE x + 2 * N - n
      BY <1>3, <1>5, <2>1
    <3>2. n + 1 \in Nat /\ n + 1 <= d
      BY <1>3, <2>1
    <3>3. Counted(x, w, n + 1) = IF x >= n + 1 THEN x - (n + 1) ELSE x + 2 * N - (n + 1)
      BY <1>5, <3>2
    <3> QED  BY <1>1, <1>3, <1>7, <1>11, <2>1, <3>1, <3>3
  <2>2. CASE n = d
    <3>1. Counted(x, w, n) = w
      BY <1>1, <1>3, <1>5, <2>2
    <3> DEFINE p == n + 1
    <3>2. p \in Nat /\ p > d /\ p - d - 1 = 0
      BY <1>3, <2>2
    <3> HIDE DEF p
    <3>3. Counted(x, w, p) = N - 1
      BY <1>1, <1>6, <1>9, <3>2
    <3> USE DEF p
    <3> QED  BY <1>7, <1>11, <3>1, <3>3
  <2>3. CASE n > d
    <3> DEFINE k == (n - d - 1) % L
               p == n + 1
               m == (p - d - 1) % L
    <3>1. k \in Nat /\ k < L /\ m = IF k = L - 1 THEN 0 ELSE k + 1
      <4> HIDE DEF p, m, k
      <4>1. k \in Nat /\ k < L /\ ((n + 1) - d - 1) % L = IF k = L - 1 THEN 0 ELSE k + 1
        BY <1>8, <2>3 DEF k
      <4>2. m = ((n + 1) - d - 1) % L
        BY DEF m, p
      <4> QED  BY <4>1, <4>2
    <3>2. p \in Nat /\ p > d /\ m \in Nat /\ m < L
      BY <1>3, <1>4, <2>3, <3>1
    <3> HIDE DEF k, m, p
    <3>3. Counted(x, w, n) = IF k <= N - 1 THEN N - 1 - k ELSE 3 * N - 1 - k
      BY <1>6, <2>3, <3>1 DEF k
    <3>4. Counted(x, w, p) = IF m <= N - 1 THEN N - 1 - m ELSE 3 * N - 1 - m
      BY <1>6, <3>2 DEF m
    <3> USE DEF p
    <3>5. CASE k = L - 1
      <4>1. Counted(x, w, n) = w
        BY <1>1, <1>4, <3>3, <3>5
      <4> QED  BY <1>1, <1>7, <1>11, <3>1, <3>4, <3>5, <4>1
    <3>6. CASE k # L - 1
      <4>1. Counted(x, w, n) # w
        BY <1>1, <1>4, <3>1, <3>3, <3>6
      <4> QED  BY <1>1, <1>4, <1>7, <1>11, <3>1, <3>3, <3>4, <3>6, <4>1
    <3> QED  BY <3>5, <3>6
  <2> QED  BY <1>3, <2>1, <2>2, <2>3
<1> QED  BY <1>1, <1>10, <1>11, <1>12

-----------------------------------------------------------------------------
(***************************************************************************)
(* What the registers and the entries look like.  An entry holds a         *)
(* canonical mask, a page aligned to the pair it maps, and its global bit   *)
(* only once, outside the two halves.                                      *)
(***************************************************************************)
EntryHi == [region : 0 .. 3, page : Int, asid : Nat]

Cop0 ==
  [ksu : 0 .. 3, exl : BOOLEAN, erl : BOOLEAN, wide : BOOLEAN, ts : BOOLEAN,
   hi : EntryHi, mask : 0 .. 3, lo0 : EntryLo, lo1 : EntryLo, index : Nat,
   random : 0 .. 2 * N - 1, wired : 0 .. 2 * N - 1]

Half == {p \in EntryLo : p.global = FALSE}

Entry ==
  {e \in [mask : {0, 3}, region : 0 .. 3, vpn2 : Int, asid : Nat, global : BOOLEAN,
          lo0 : Half, lo1 : Half] : Vpn2Of(e.vpn2, e.mask) = e.vpn2}

Faults ==
  [kind : {"none", "refill", "invalid", "modified"}, v : [region : 0 .. 3, page : 0 .. 15],
   filled : BOOLEAN]

MmuTypeOK ==
  /\ c \in Cop0
  /\ tlb \in [0 .. N - 1 -> Entry]
  /\ shutdown \in BOOLEAN
  /\ fault \in Faults
  /\ writes \in Nat

\* TLBWR spares the wired entries.
AboveWired(r) == r.wired < N => r.random \in r.wired .. N - 1

\* While a fault is pending EntryHi names the page that faulted.
HiNamesFault ==
  fault.kind # "none" =>
    c.hi.region = fault.v.region /\ c.hi.page = Vpn2Of(fault.v.page, 0)

\* The entries that match what faulted.
Faulting == Matching(fault.v, c.hi.asid)

\* One entry after Invalid and Modified; none after a refill, and one once it is filled.
Repairable ==
  /\ fault.kind \in {"invalid", "modified"} => Faulting # {}
  /\ fault.kind = "refill" /\ ~shutdown =>
       IF fault.filled THEN \E i \in 0 .. N - 1 : Faulting = {i} ELSE Faulting = {}

MmuInv == MmuTypeOK /\ AboveWired(c) /\ HiNamesFault /\ Repairable

-----------------------------------------------------------------------------
\* A page aligned to a pair is aligned; aligned to the smallest pair first, it is the
\* same page of the larger one.
LEMMA PairsAligned ==
  ASSUME NEW p \in Int, NEW m
  PROVE  /\ Vpn2Of(p, m) \in Int
         /\ Vpn2Of(Vpn2Of(p, m), m) = Vpn2Of(p, m)
         /\ Vpn2Of(Vpn2Of(p, 0), m) = Vpn2Of(p, m)
<1>1. CASE m = 3
  BY <1>1 DEF Vpn2Of, PairSize
<1>2. CASE m # 3
  <2>1. Vpn2Of(p, m) = p - (p % 2) /\ Vpn2Of(p, 0) = p - (p % 2)
    BY <1>2 DEF Vpn2Of, PairSize
  <2>2. p - (p % 2) \in Int /\ (p - (p % 2)) % 2 = 0
    OBVIOUS
  <2>3. Vpn2Of(p - (p % 2), m) = (p - (p % 2)) - ((p - (p % 2)) % 2)
    BY <1>2 DEF Vpn2Of, PairSize
  <2> QED  BY <2>1, <2>2, <2>3
<1> QED  BY <1>1, <1>2

\* The lowest of some entries is one of them.
LEMMA LowestIsOne ==
  ASSUME NEW S, S \subseteq 0 .. N - 1, S # {}
  PROVE  Lowest(S) \in S
<1> DEFINE R == OpToRel(<, Nat)
<1>1. S \subseteq Nat
  BY MmuAssumption
<1>2. \A i, j \in Nat : i < j => <<i, j>> \in R
  BY DEF OpToRel
<1>3. IsWellFoundedOn(R, Nat)
  BY NatLessThanWellFounded
<1> HIDE DEF R
<1>4. \E i \in S : \A j \in S : ~ (<<j, i>> \in R)
  BY <1>1, <1>3, WFMin
<1>5. \E i \in S : \A j \in S : i <= j
  <2>1. PICK i \in S : \A j \in S : ~ (<<j, i>> \in R)
    BY <1>4
  <2>2. ASSUME NEW j \in S PROVE i <= j
    <3>1. i \in Nat /\ j \in Nat /\ ~ (j < i)
      BY <1>1, <1>2, <2>1
    <3> QED  BY <3>1
  <2> QED  BY <2>2
<1> QED  BY <1>5 DEF Lowest

\* How many entries match, as the set that they are.
LEMMA MatchingCounted ==
  ASSUME NEW v, NEW a
  PROVE  /\ Matching(v, a) \subseteq 0 .. N - 1
         /\ Cardinality(Matching(v, a)) \in Nat
         /\ Cardinality(Matching(v, a)) = 0 <=> Matching(v, a) = {}
         /\ Cardinality(Matching(v, a)) = 1 <=> \E i \in 0 .. N - 1 : Matching(v, a) = {i}
<1> DEFINE S == Matching(v, a)
<1>1. S \subseteq 0 .. N - 1
  BY DEF Matching
<1>2. IsFiniteSet(0 .. N - 1)
  <2>1. 0 \in Int /\ N - 1 \in Int
    BY MmuAssumption
  <2> QED  BY <2>1, FS_Interval
<1> HIDE DEF S
<1>3. IsFiniteSet(S)
  BY <1>1, <1>2, FS_Subset
<1>4. Cardinality(S) \in Nat
  BY <1>3, FS_CardinalityType
<1>5. Cardinality(S) = 0 <=> S = {}
  BY <1>3, FS_EmptySet
<1>6. Cardinality(S) = 1 <=> \E i : S = {i}
  BY <1>3, FS_Singleton
<1>7. (\E i : S = {i}) <=> (\E i \in 0 .. N - 1 : S = {i})
  BY <1>1
<1> QED  BY <1>1, <1>4, <1>5, <1>6, <1>7 DEF S

\* TLBP finds an entry if one matches.
LEMMA ProbeFinds ==
  ASSUME NEW r
  PROVE  /\ Probe(r) \in 0 .. N
         /\ Probe(r) = N <=> Matching(r.hi, r.hi.asid) = {}
<1> DEFINE S == Matching(r.hi, r.hi.asid)
<1>1. S \subseteq 0 .. N - 1
  BY DEF Matching
<1>2. Probe(r) = IF S = {} THEN N ELSE Lowest(S)
  BY DEF Probe
<1> HIDE DEF S
<1>3. S # {} => Lowest(S) \in 0 .. N - 1
  BY <1>1, LowestIsOne
<1>4. N \in Nat
  BY MmuAssumption
<1>5. Probe(r) \in 0 .. N /\ (Probe(r) = N <=> S = {})
  BY <1>2, <1>3, <1>4
<1> QED  BY <1>5 DEF S

\* An entry read with TLBR and written back is the entry it was.
LEMMA ReadsBack ==
  ASSUME NEW r \in Cop0, NEW e \in Entry
  PROVE  ReadEntry(r, e) \in Cop0 /\ EntryFrom(ReadEntry(r, e)) = e
<1>1. e \in [mask : {0, 3}, region : 0 .. 3, vpn2 : Int, asid : Nat, global : BOOLEAN,
             lo0 : Half, lo1 : Half] /\ Vpn2Of(e.vpn2, e.mask) = e.vpn2
  BY DEF Entry
<1>2. CanonicalPageMask(e.mask) = e.mask /\ e.mask \in 0 .. 3
  BY <1>1 DEF CanonicalPageMask
<1> DEFINE h0 == [e.lo0 EXCEPT !.global = e.global]
           h1 == [e.lo1 EXCEPT !.global = e.global]
<1>3. h0 \in EntryLo /\ h1 \in EntryLo /\ h0.global = e.global /\ h1.global = e.global
  BY <1>1 DEF Half, EntryLo
<1>4. PageFrom(h0) = e.lo0 /\ PageFrom(h1) = e.lo1
  BY <1>1 DEF PageFrom, Half, EntryLo
<1> HIDE DEF h0, h1
<1> DEFINE h == [region |-> e.region, page |-> e.vpn2, asid |-> e.asid]
           m == e.mask
           q == ReadEntry(r, e)
<1>5. q = [r EXCEPT !.mask = m, !.hi = h, !.lo0 = h0, !.lo1 = h1]
  BY DEF ReadEntry, h0, h1
<1>6. h \in EntryHi /\ m \in 0 .. 3
  BY <1>1, <1>2 DEF EntryHi
<1>7. q \in Cop0 /\ q.mask = m /\ q.hi = h /\ q.lo0 = h0 /\ q.lo1 = h1
  <2> HIDE DEF h, m, q
  <2> QED  BY <1>3, <1>5, <1>6 DEF Cop0
<1> HIDE DEF q
<1>8. EntryFrom(q) = [mask |-> e.mask, region |-> e.region, vpn2 |-> e.vpn2, asid |-> e.asid,
                      global |-> e.global, lo0 |-> e.lo0, lo1 |-> e.lo1]
  BY <1>1, <1>2, <1>3, <1>4, <1>7 DEF EntryFrom
<1> QED  BY <1>1, <1>7, <1>8 DEF q

\* What TLBWI and TLBWR write is an entry, and it maps the page in EntryHi.
LEMMA EntryWritten ==
  ASSUME NEW r \in Cop0
  PROVE  /\ EntryFrom(r) \in Entry
         /\ EntryFrom(r).region = r.hi.region /\ EntryFrom(r).asid = r.hi.asid
         /\ EntryFrom(r).vpn2 = Vpn2Of(r.hi.page, EntryFrom(r).mask)
<1> DEFINE mask == CanonicalPageMask(r.mask)
           e == EntryFrom(r)
<1>1. mask \in {0, 3}
  BY DEF CanonicalPageMask
<1>2. PageFrom(r.lo0) \in Half /\ PageFrom(r.lo1) \in Half
  BY DEF Cop0, PageFrom, Half, EntryLo
<1>3. /\ r.hi.region \in 0 .. 3 /\ r.hi.page \in Int /\ r.hi.asid \in Nat
      /\ r.lo0.global \in BOOLEAN /\ r.lo1.global \in BOOLEAN
  BY DEF Cop0, EntryHi, EntryLo
<1>4. e = [mask |-> mask, region |-> r.hi.region, vpn2 |-> Vpn2Of(r.hi.page, mask), asid |-> r.hi.asid,
           global |-> r.lo0.global /\ r.lo1.global, lo0 |-> PageFrom(r.lo0), lo1 |-> PageFrom(r.lo1)]
  BY DEF EntryFrom
<1> HIDE DEF mask, e
<1>5. Vpn2Of(r.hi.page, mask) \in Int /\ Vpn2Of(Vpn2Of(r.hi.page, mask), mask) = Vpn2Of(r.hi.page, mask)
  BY <1>3, PairsAligned
<1>6. e \in Entry /\ e.region = r.hi.region /\ e.asid = r.hi.asid /\ e.mask = mask
      /\ e.vpn2 = Vpn2Of(r.hi.page, mask)
  BY <1>1, <1>2, <1>3, <1>4, <1>5 DEF Entry
<1> QED  BY <1>6 DEF e

\* One instruction moves Random and nothing else, and not below Wired.
LEMMA Retires ==
  ASSUME NEW r \in Cop0, AboveWired(r)
  PROVE  /\ TickRandom(r) \in Cop0 /\ AboveWired(TickRandom(r))
         /\ TickRandom(r).hi = r.hi
<1> DEFINE t == Ticked(r.random, r.wired)
<1>1. r.random \in 0 .. 2 * N - 1 /\ r.wired \in 0 .. 2 * N - 1 /\ N \in Nat /\ N > 0
  BY MmuAssumption DEF Cop0
<1>2. TickRandom(r) = [r EXCEPT !.random = t]
  BY DEF TickRandom, Ticked
<1>3. t = IF r.random = r.wired THEN N - 1 ELSE IF r.random = 0 THEN 2 * N - 1 ELSE r.random - 1
  BY <1>1, TickedIs
<1> HIDE DEF t
<1>4. t \in 0 .. 2 * N - 1 /\ (r.wired < N => t \in r.wired .. N - 1)
  BY <1>1, <1>3 DEF AboveWired
<1>5. [r EXCEPT !.random = t] \in Cop0 /\ [r EXCEPT !.random = t].random = t
      /\ [r EXCEPT !.random = t].wired = r.wired /\ [r EXCEPT !.random = t].hi = r.hi
  BY <1>4 DEF Cop0
<1> QED  BY <1>2, <1>4, <1>5 DEF AboveWired

\* Random stays above Wired, and its closed form is the count.
LEMMA RandomIsExact ==
  ASSUME c \in Cop0, AboveWired(c) PROVE RandomExact
<1>1. c.random \in 0 .. 2 * N - 1 /\ c.wired \in 0 .. 2 * N - 1
  BY DEF Cop0
<1>2. ASSUME NEW n \in Nat
      PROVE  TickRandomBy(c, n) = [c EXCEPT !.random = Counted(c.random, c.wired, n)]
  BY DEF TickRandomBy, Counted, ToWired, Cycle
<1>3. ASSUME NEW x, x \in 0 .. 2 * N - 1
      PROVE  TickRandom([c EXCEPT !.random = x]) = [c EXCEPT !.random = Ticked(x, c.wired)]
  BY DEF TickRandom, Ticked, Cop0
<1>4. TickRandomBy(c, 0) = c
  <2>1. Counted(c.random, c.wired, 0) = c.random
    BY <1>1, ClosedForm
  <2> QED  BY <1>2, <2>1 DEF Cop0
<1>5. ASSUME NEW n \in Nat PROVE TickRandomBy(c, n + 1) = TickRandom(TickRandomBy(c, n))
  <2> DEFINE p == n + 1
             x == Counted(c.random, c.wired, n)
  <2>1. x \in 0 .. 2 * N - 1 /\ Counted(c.random, c.wired, p) = Ticked(x, c.wired) /\ p \in Nat
    <3> DEFINE y == c.random
               w == c.wired
    <3>1. y \in 0 .. 2 * N - 1 /\ w \in 0 .. 2 * N - 1
      BY <1>1
    <3> HIDE DEF y, w
    <3>2. Counted(y, w, n) \in 0 .. 2 * N - 1 /\ Counted(y, w, n + 1) = Ticked(Counted(y, w, n), w)
      BY <3>1, ClosedForm
    <3> QED  BY <3>2 DEF y, w
  <2> HIDE DEF p, x
  <2>2. TickRandomBy(c, p) = [c EXCEPT !.random = Ticked(x, c.wired)]
    BY <1>2, <2>1
  <2>3. TickRandomBy(c, n) = [c EXCEPT !.random = x]
    BY <1>2 DEF x
  <2> QED  BY <1>3, <2>1, <2>2, <2>3 DEF p
<1> QED  BY <1>4, <1>5 DEF RandomExact, AboveWired

-----------------------------------------------------------------------------
\* What the program starts with.
LEMMA MmuInitHolds ==
  ASSUME MmuInit PROVE MmuInv
<1>1. N \in Nat /\ N > 0
  BY MmuAssumption
<1>2. c \in Cop0 /\ AboveWired(c)
  <2>1. PICK lo \in LoPairs :
          c = [ksu |-> 0, exl |-> FALSE, erl |-> TRUE, wide |-> FALSE, ts |-> FALSE,
               hi |-> [region |-> 0, page |-> 0, asid |-> 0], mask |-> 0, lo0 |-> lo[1], lo1 |-> lo[2],
               index |-> 0, random |-> N - 1, wired |-> 0]
    BY DEF MmuInit
  <2>2. lo[1] \in EntryLo /\ lo[2] \in EntryLo
    BY MmuAssumption
  <2> QED  BY <1>1, <2>1, <2>2 DEF Cop0, EntryHi, AboveWired
<1>3. tlb \in [0 .. N - 1 -> Entry]
  <2> DEFINE none == [dirty |-> FALSE, valid |-> FALSE, global |-> FALSE]
             first(i) == [mask |-> 0, region |-> 0, vpn2 |-> 14 - 2 * i, asid |-> 0,
                          global |-> FALSE, lo0 |-> none, lo1 |-> none]
  <2>1. none \in Half
    BY DEF Half, EntryLo
  <2>2. ASSUME NEW i \in 0 .. N - 1 PROVE first(i) \in Entry
    <3>1. 14 - 2 * i \in Int /\ Vpn2Of(14 - 2 * i, 0) = 14 - 2 * i
      BY <1>1 DEF Vpn2Of, PairSize
    <3> HIDE DEF none
    <3> QED  BY <2>1, <3>1 DEF Entry
  <2>3. tlb = [i \in 0 .. N - 1 |-> first(i)]
    BY DEF MmuInit
  <2> HIDE DEF first
  <2> QED  BY <2>2, <2>3
<1>4. fault \in Faults /\ fault.kind = "none"
  BY DEF MmuInit, NoFault, Faults
<1> QED  BY <1>2, <1>3, <1>4 DEF MmuInit, MmuInv, MmuTypeOK, HiNamesFault, Repairable

\* EntryHi stands for the page it names.
LEMMA HiMatches ==
  ASSUME NEW h, NEW v \in [region : 0 .. 3, page : 0 .. 15], NEW a,
         h.region = v.region, h.page = Vpn2Of(v.page, 0)
  PROVE  Matching(h, a) = Matching(v, a)
<1>1. \A m : Vpn2Of(h.page, m) = Vpn2Of(v.page, m)
  BY PairsAligned
<1> QED  BY <1>1 DEF Matching, Matches

\* A step that keeps the entries, and either keeps the fault and EntryHi or drops the
\* fault, keeps what the handler needs.
LEMMA Undisturbed ==
  ASSUME MmuInv, tlb' = tlb, shutdown' \in BOOLEAN, shutdown => shutdown', writes' \in Nat,
         c' \in Cop0, AboveWired(c)',
         fault' = NoFault \/ (fault' = fault /\ c'.hi = c.hi)
  PROVE  MmuInv'
<1>1. CASE fault' = NoFault
  <2>1. fault' \in Faults /\ fault'.kind = "none"
    BY <1>1 DEF NoFault, Faults
  <2> QED  BY <2>1 DEF MmuInv, MmuTypeOK, HiNamesFault, Repairable
<1>2. CASE fault' = fault /\ c'.hi = c.hi
  <2>1. Faulting' = Faulting
    BY <1>2 DEF Faulting, Matching
  <2> QED  BY <1>2, <2>1 DEF MmuInv, MmuTypeOK, HiNamesFault, Repairable
<1> QED  BY <1>1, <1>2

\* A TLB write after a refill leaves exactly one entry for what faulted.
LEMMA EntryHolds ==
  ASSUME MmuInv, NEW i \in Nat, WriteEntry(i) PROVE MmuInv'
<1>1. c \in Cop0 /\ AboveWired(c) /\ tlb \in [0 .. N - 1 -> Entry] /\ fault \in Faults
  BY DEF MmuInv, MmuTypeOK
<1>2. c' \in Cop0 /\ AboveWired(c)' /\ c'.hi = c.hi
  BY <1>1, Retires DEF WriteEntry, Retire, AboveWired
<1>3. i % N \in 0 .. N - 1
  BY MmuAssumption
<1> DEFINE k == i % N
           e == EntryFrom(c)
<1>4. tlb' = [tlb EXCEPT ![k] = e] /\ shutdown' = shutdown /\ writes' = writes + 1
  BY DEF WriteEntry, Privileged
<1>5. e \in Entry /\ e.region = c.hi.region /\ e.asid = c.hi.asid /\ e.vpn2 = Vpn2Of(c.hi.page, e.mask)
  BY <1>1, EntryWritten
<1> HIDE DEF k, e
<1>6. tlb' \in [0 .. N - 1 -> Entry] /\ tlb'[k] = e /\ \A j \in 0 .. N - 1 : j # k => tlb'[j] = tlb[j]
  BY <1>1, <1>3, <1>4, <1>5 DEF k
<1>7. CASE fault.kind = "refill" /\ ~fault.filled
  <2>1. fault' = [fault EXCEPT !.filled = TRUE]
    BY <1>7 DEF WriteEntry
  <2>2. fault' \in Faults /\ fault'.kind = "refill" /\ fault'.filled /\ fault'.v = fault.v
    BY <1>1, <1>7, <2>1 DEF Faults
  <2>3. HiNamesFault'
    BY <1>2, <1>7, <2>2 DEF HiNamesFault, MmuInv
  <2>4. ASSUME ~shutdown PROVE Faulting' = {k}
    <3>1. Faulting = {}
      BY <1>7, <2>4 DEF MmuInv, Repairable
    <3>2. \A j \in 0 .. N - 1 : ~ Matches(tlb[j], fault.v, c.hi.asid)
      BY <3>1 DEF Faulting, Matching
    <3>3. Matches(e, fault.v, c.hi.asid)
      <4>1. fault.v.page \in Int /\ c.hi.region = fault.v.region /\ c.hi.page = Vpn2Of(fault.v.page, 0)
        BY <1>1, <1>7 DEF MmuInv, HiNamesFault, Faults
      <4> QED  BY <1>5, <4>1, PairsAligned DEF Matches
    <3>4. Faulting' = {j \in 0 .. N - 1 : Matches(tlb'[j], fault.v, c.hi.asid)}
      BY <1>2, <2>2 DEF Faulting, Matching, Matches
    <3> QED  BY <1>3, <1>6, <3>2, <3>3, <3>4 DEF k
  <2>5. Repairable'
    BY <1>3, <1>4, <2>2, <2>4 DEF Repairable, k
  <2> QED  BY <1>2, <1>4, <1>6, <2>2, <2>3, <2>5 DEF MmuInv, MmuTypeOK
<1>8. CASE ~ (fault.kind = "refill" /\ ~fault.filled)
  <2>1. fault' = NoFault
    BY <1>8 DEF WriteEntry
  <2>2. fault' \in Faults /\ fault'.kind = "none"
    BY <2>1 DEF NoFault, Faults
  <2> QED  BY <1>2, <1>4, <1>6, <2>2 DEF MmuInv, MmuTypeOK, HiNamesFault, Repairable
<1> QED  BY <1>7, <1>8

\* An access that faults leaves the page in EntryHi; Invalid and Modified come from the one
\* entry that matches, and a refill, but for a shutdown, from there being none.
LEMMA AccessHolds ==
  ASSUME MmuInv, Access PROVE MmuInv'
<1>1. c \in Cop0 /\ AboveWired(c) /\ shutdown \in BOOLEAN /\ writes \in Nat
  BY DEF MmuInv, MmuTypeOK
<1>2. PICK v \in Va, store \in BOOLEAN, fetch \in BOOLEAN :
        LET seg == Segment(v, AccessMode(c))
            res == IF seg = "mapped" THEN Lookup(v, c.hi.asid, store) ELSE seg
            sd  == shutdown \/ (seg = "mapped" /\ ShutsDown(v, c.hi.asid))
            r   == [c EXCEPT !.ts = @ \/ (sd /\ ~fetch)]
        IN  /\ fetch => ~store
            /\ shutdown' = sd /\ UNCHANGED <<tlb, writes>>
            /\ \/ /\ res \in {"hit", "direct"}
                  /\ Retire(c) /\ UNCHANGED fault
               \/ /\ res = "invalid" /\ seg = "invalid"
                  /\ c' = Dispatch(r, "address", v) /\ fault' = NoFault
               \/ /\ seg = "mapped" /\ res # "hit"
                  /\ c' = Dispatch(r, res, v)
                  /\ fault' = [kind |-> res, v |-> v, filled |-> FALSE]
  BY DEF Access
<1> DEFINE seg == Segment(v, AccessMode(c))
           look == Lookup(v, c.hi.asid, store)
           res == IF seg = "mapped" THEN look ELSE seg
           sd  == shutdown \/ (seg = "mapped" /\ ShutsDown(v, c.hi.asid))
           r   == [c EXCEPT !.ts = @ \/ (sd /\ ~fetch)]
           S   == Matching(v, c.hi.asid)
<1>3. v \in [region : 0 .. 3, page : 0 .. 15]
  BY MmuAssumption
<1>4. shutdown' = sd /\ sd \in BOOLEAN /\ (shutdown => sd) /\ tlb' = tlb /\ writes' = writes
  BY <1>1, <1>2
<1>5. r \in Cop0 /\ r.hi = c.hi /\ r.wired = c.wired /\ r.random = c.random
  BY <1>1, <1>4 DEF Cop0
<1>6. ASSUME NEW exc \in {"address", "refill", "invalid", "modified"}
      PROVE  /\ Dispatch(r, exc, v) \in Cop0 /\ AboveWired(Dispatch(r, exc, v))
             /\ Dispatch(r, exc, v).hi = [region |-> v.region, page |-> Vpn2Of(v.page, 0), asid |-> c.hi.asid]
  <2> HIDE DEF r
  <2>1. Vpn2Of(v.page, 0) \in Int
    BY <1>3, PairsAligned
  <2>2. r.hi \in EntryHi
    BY <1>5 DEF Cop0
  <2>3. Dispatch(r, exc, v) = [r EXCEPT !.exl = TRUE, !.hi = EntryHiFor(r.hi, v)]
    BY DEF Dispatch, WritesBadVaddr
  <2>4. EntryHiFor(r.hi, v) = [region |-> v.region, page |-> Vpn2Of(v.page, 0), asid |-> c.hi.asid]
    BY <1>5 DEF EntryHiFor
  <2>5. EntryHiFor(r.hi, v) \in EntryHi
    BY <1>3, <1>5, <2>1, <2>2, <2>4 DEF EntryHi
  <2> HIDE DEF S
  <2> QED  BY <1>1, <1>5, <2>3, <2>4, <2>5 DEF Cop0, AboveWired
<1>7. CASE res \in {"hit", "direct"} /\ Retire(c) /\ UNCHANGED fault
  <2>1. c' \in Cop0 /\ AboveWired(c)' /\ c'.hi = c.hi
    BY <1>1, <1>7, Retires DEF Retire, AboveWired
  <2> HIDE DEF sd
  <2> QED  BY <1>1, <1>4, <1>7, <2>1, Undisturbed
<1>8. CASE c' = Dispatch(r, "address", v) /\ fault' = NoFault
  <2> HIDE DEF sd, r
  <2>1. c' \in Cop0 /\ AboveWired(c)'
    BY <1>6, <1>8 DEF AboveWired
  <2> QED  BY <1>1, <1>4, <1>8, <2>1, Undisturbed
<1>9. CASE /\ seg = "mapped" /\ res # "hit"
           /\ c' = Dispatch(r, res, v)
           /\ fault' = [kind |-> res, v |-> v, filled |-> FALSE]
  <2>1. res = look /\ look \in {"refill", "invalid", "modified"}
        /\ sd = (shutdown \/ ShutsDown(v, c.hi.asid))
    BY <1>9 DEF Lookup
  <2>2. /\ Cardinality(S) \in Nat /\ (Cardinality(S) = 0 <=> S = {})
        /\ (Cardinality(S) = 1 <=> \E i \in 0 .. N - 1 : S = {i})
    BY MatchingCounted
  <2>3. look = "refill" => shutdown \/ Cardinality(S) # 1
    BY DEF Lookup
  <2>4. look # "refill" => Cardinality(S) = 1
    BY DEF Lookup
  <2>5. ShutsDown(v, c.hi.asid) <=> ~shutdown /\ Cardinality(S) > 1
    BY DEF ShutsDown
  <2> HIDE DEF seg, look, S, r
  <2>6. c' \in Cop0 /\ AboveWired(c)'
        /\ c'.hi = [region |-> v.region, page |-> Vpn2Of(v.page, 0), asid |-> c.hi.asid]
    BY <1>6, <1>9, <2>1 DEF AboveWired
  <2>7. fault' = [kind |-> look, v |-> v, filled |-> FALSE]
    BY <1>9, <2>1
  <2>8. fault' \in Faults /\ fault'.kind = look /\ fault'.v = v /\ ~fault'.filled
    BY <1>3, <2>1, <2>7 DEF Faults
  <2>9. Faulting' = S
    BY <1>4, <2>6, <2>8 DEF Faulting, Matching, S
  <2>10. HiNamesFault'
    BY <2>6, <2>8 DEF HiNamesFault
  <2>11. look \in {"invalid", "modified"} => S # {}
    BY <2>2, <2>4
  <2>12. look = "refill" /\ ~sd => S = {}
    BY <2>1, <2>2, <2>3, <2>5
  <2> HIDE DEF sd
  <2>13. Repairable'
    BY <1>4, <2>8, <2>9, <2>11, <2>12 DEF Repairable
  <2> QED  BY <1>1, <1>4, <2>6, <2>8, <2>10, <2>13 DEF MmuInv, MmuTypeOK
<1> QED  BY <1>2, <1>7, <1>8, <1>9

\* Every instruction keeps the invariant.
LEMMA MmuStepHolds ==
  ASSUME MmuInv, [MmuNext]_mmuVars PROVE MmuInv'
<1>1. /\ c \in Cop0 /\ AboveWired(c) /\ tlb \in [0 .. N - 1 -> Entry] /\ shutdown \in BOOLEAN
      /\ fault \in Faults /\ writes \in Nat /\ N \in Nat /\ N > 0
  BY MmuAssumption DEF MmuInv, MmuTypeOK
<1>2. ASSUME NEW r \in Cop0, AboveWired(r), Retire(r), Privileged,
             tlb' = tlb, shutdown' = shutdown,
             fault' = NoFault \/ (fault' = fault /\ r.hi = c.hi)
      PROVE  MmuInv'
  <2>1. c' \in Cop0 /\ AboveWired(c)' /\ c'.hi = r.hi
    BY <1>2, Retires DEF Retire, AboveWired
  <2>2. writes' \in Nat
    BY <1>1, <1>2 DEF Privileged
  <2> QED  BY <1>1, <1>2, <2>1, <2>2, Undisturbed
<1>3. CASE WriteHi
  <2>1. PICK v \in Va, a \in Asid :
          /\ Privileged /\ fault' = NoFault /\ UNCHANGED <<tlb, shutdown>>
          /\ Retire([c EXCEPT !.hi = [region |-> v.region, page |-> Vpn2Of(v.page, 0), asid |-> a]])
    BY <1>3 DEF WriteHi
  <2> DEFINE h == [region |-> v.region, page |-> Vpn2Of(v.page, 0), asid |-> a]
             r == [c EXCEPT !.hi = h]
  <2>2. v \in [region : 0 .. 3, page : 0 .. 15] /\ a \in Nat
    BY MmuAssumption
  <2>3. h \in EntryHi
    BY <2>2, PairsAligned DEF EntryHi
  <2> HIDE DEF h
  <2>4. r \in Cop0 /\ AboveWired(r)
    BY <1>1, <2>3 DEF Cop0, AboveWired
  <2> QED  BY <1>2, <2>1, <2>4 DEF h
<1>4. CASE WriteLoAndMask
  <2>1. PICK lo \in LoPairs, m \in {0, 2} :
          /\ Privileged /\ UNCHANGED <<tlb, shutdown, fault>>
          /\ Retire([c EXCEPT !.lo0 = lo[1], !.lo1 = lo[2], !.mask = m])
    BY <1>4 DEF WriteLoAndMask
  <2> DEFINE a == lo[1]
             b == lo[2]
             r == [c EXCEPT !.lo0 = a, !.lo1 = b, !.mask = m]
  <2>2. a \in EntryLo /\ b \in EntryLo /\ m \in 0 .. 3
    BY MmuAssumption
  <2> HIDE DEF a, b
  <2>3. r \in Cop0 /\ r.wired = c.wired /\ r.random = c.random /\ r.hi = c.hi
    BY <1>1, <2>2 DEF Cop0
  <2> HIDE DEF r
  <2>4. Retire(r)
    BY <2>1 DEF r, a, b
  <2> QED  BY <1>1, <1>2, <2>1, <2>3, <2>4 DEF AboveWired
<1>5. CASE WriteWired
  <2>1. PICK w \in Wireds :
          /\ Privileged /\ UNCHANGED <<tlb, shutdown, fault>>
          /\ Retire([c EXCEPT !.wired = w, !.random = N - 1])
    BY <1>5 DEF WriteWired
  <2> DEFINE x == N - 1
             r == [c EXCEPT !.wired = w, !.random = x]
  <2>2. w \in 0 .. 2 * N - 1 /\ x \in 0 .. 2 * N - 1 /\ (w < N => x \in w .. N - 1)
    BY <1>1, MmuAssumption
  <2>3. r \in Cop0 /\ r.wired = w /\ r.random = x /\ r.hi = c.hi
    <3> HIDE DEF x
    <3> QED  BY <1>1, <2>2 DEF Cop0
  <2>4. Retire(r)
    BY <2>1
  <2> HIDE DEF r, x
  <2>5. AboveWired(r)
    BY <2>2, <2>3 DEF AboveWired
  <2> QED  BY <1>2, <2>1, <2>3, <2>4, <2>5
<1>6. CASE WriteStatus
  <2>1. PICK m \in Modes :
          /\ Privileged /\ UNCHANGED <<tlb, shutdown, fault>>
          /\ Retire([c EXCEPT !.ksu = m.ksu, !.exl = m.exl, !.erl = FALSE, !.wide = m.wide])
    BY <1>6 DEF WriteStatus
  <2> DEFINE r == [c EXCEPT !.ksu = m.ksu, !.exl = m.exl, !.erl = FALSE, !.wide = m.wide]
  <2>2. m \in [ksu : 0 .. 3, exl : BOOLEAN, wide : BOOLEAN]
    BY MmuAssumption
  <2>3. r \in Cop0 /\ AboveWired(r) /\ r.hi = c.hi
    BY <1>1, <2>2 DEF Cop0, AboveWired
  <2> HIDE DEF r
  <2> QED  BY <1>2, <2>1, <2>3 DEF r
<1>7. CASE TlbRead
  <2> DEFINE e == tlb[c.index % N]
             r == ReadEntry(c, e)
  <2>1. Privileged /\ fault' = NoFault /\ tlb' = tlb /\ shutdown' = shutdown /\ Retire(r)
    BY <1>7 DEF TlbRead
  <2>2. c.index % N \in 0 .. N - 1
    BY <1>1 DEF Cop0
  <2>3. e \in Entry
    BY <1>1, <2>2
  <2> HIDE DEF e
  <2>4. r \in Cop0
    BY <1>1, <2>3, ReadsBack
  <2>5. r.wired = c.wired /\ r.random = c.random
    BY <1>1 DEF ReadEntry, Cop0
  <2> HIDE DEF r
  <2> QED  BY <1>1, <1>2, <2>1, <2>4, <2>5 DEF AboveWired
<1>8. CASE TlbWriteIndexed \/ TlbWriteRandom
  <2>1. c.index \in Nat /\ c.random \in Nat
    BY <1>1 DEF Cop0
  <2> QED  BY <1>8, <2>1, EntryHolds DEF TlbWriteIndexed, TlbWriteRandom
<1>9. CASE TlbProbe
  <2> DEFINE r == [c EXCEPT !.index = Probe(c)]
  <2>1. Privileged /\ UNCHANGED <<tlb, shutdown, fault>> /\ Retire(r)
    BY <1>9 DEF TlbProbe
  <2>2. Probe(c) \in Nat
    BY <1>1, ProbeFinds
  <2>3. r \in Cop0 /\ AboveWired(r) /\ r.hi = c.hi
    BY <1>1, <2>2 DEF Cop0, AboveWired
  <2> HIDE DEF r
  <2> QED  BY <1>2, <2>1, <2>3
<1>10. CASE Access
  BY <1>10, AccessHolds
<1>11. CASE Eret
  <2>1. EretFrom(c) \in Cop0 /\ AboveWired(EretFrom(c)) /\ EretFrom(c).hi = c.hi
    BY <1>1 DEF EretFrom, Cop0, AboveWired
  <2> QED  BY <1>2, <1>11, <2>1 DEF Eret
<1>12. CASE TakeNmi
  <2>1. c' \in Cop0 /\ AboveWired(c)' /\ c'.hi = c.hi
    BY <1>1, <1>12 DEF TakeNmi, Nmi, Cop0, AboveWired
  <2> QED  BY <1>1, <1>12, <2>1, Undisturbed DEF TakeNmi
<1>13. CASE UNCHANGED mmuVars
  <2>1. c' = c /\ tlb' = tlb /\ shutdown' = shutdown /\ fault' = fault /\ writes' = writes
    BY <1>13 DEF mmuVars
  <2> QED  BY <1>1, <2>1, Undisturbed DEF AboveWired
<1> QED  BY <1>3, <1>4, <1>5, <1>6, <1>7, <1>8, <1>9, <1>10, <1>11, <1>12, <1>13 DEF MmuNext

\* The handlers of the kernel find what they rely on: a TLB exception leaves in EntryHi what
\* TLBP and TLBWR need, TLBR and TLBWI round-trip, and Random spares the wired entries and
\* is exact when a batch of idle loops is retired at once (exception.rs, tlb.rs, cop0.rs).
THEOREM HandlersServed == MmuSpec => []ServesHandler
<1>1. MmuInit => MmuInv
  BY MmuInitHolds
<1>2. MmuInv /\ [MmuNext]_mmuVars => MmuInv'
  BY MmuStepHolds
<1>3. ASSUME MmuInv PROVE ServesHandler
  <2>1. c \in Cop0 /\ AboveWired(c) /\ tlb \in [0 .. N - 1 -> Entry] /\ fault \in Faults
    BY <1>3 DEF MmuInv, MmuTypeOK
  <2>2. ReadBack
    BY <2>1, ReadsBack DEF ReadBack
  <2>3. RandomExact
    BY <2>1, RandomIsExact
  <2>4. HandlerCanRepair
    <3>1. fault.kind # "none" => Matching(c.hi, c.hi.asid) = Faulting
      <4>1. fault.v \in [region : 0 .. 3, page : 0 .. 15]
        BY <2>1 DEF Faults
      <4> QED  BY <1>3, <4>1, HiMatches DEF MmuInv, HiNamesFault, Faulting
    <3>2. Probe(c) = N <=> Matching(c.hi, c.hi.asid) = {}
      BY ProbeFinds
    <3>3. Cardinality(Faulting) = 1 <=> \E i \in 0 .. N - 1 : Faulting = {i}
      BY MatchingCounted DEF Faulting
    <3> QED  BY <1>3, <3>1, <3>2, <3>3 DEF HandlerCanRepair, MmuInv, Repairable, Faulting
  <2> QED  BY <2>2, <2>3, <2>4 DEF ServesHandler
<1> QED  BY <1>1, <1>2, <1>3, PTL DEF MmuSpec

-----------------------------------------------------------------------------
(* The caches.                                                             *)

DKeys == 0 .. DLines - 1
IKeys == 0 .. ILines - 1
DLineType == [tag : Nat, valid : BOOLEAN, dirty : BOOLEAN, data : [0 .. DLine - 1 -> Value]]
ILineType == [tag : Nat, valid : BOOLEAN, dirty : BOOLEAN, data : [0 .. ILine - 1 -> Value]]

CacheTypeOK ==
    /\ ram \in [Words -> Value]
    /\ dcache \in [DKeys -> DLineType] /\ icache \in [IKeys -> ILineType]
    /\ dOff \in [Words -> BOOLEAN] /\ iOff \in [Words -> BOOLEAN]

(* A dirty line is the line of some word, so that its index and its tag name the same    *)
(* place: IndexStoreTag may pair any two, and leaves the line clean.                     *)
Named == \A k \in DKeys : DDirty(k) => \E y \in Nat : DIndex(y) = k /\ PageOf(y) = dcache[k].tag

(* A clean line is what memory holds, unless memory changed behind it.                   *)
DClean == \A w \in Words :
    DHits(w) /\ ~dcache[DIndex(w)].dirty /\ ~dOff[w] =>
        ram[w] = dcache[DIndex(w)].data[w % DLine]

IClean == \A w \in Words :
    IHits(w) /\ ~iOff[w] => ram[w] = icache[IIndex(w)].data[w % ILine]

CacheInv == CacheTypeOK /\ Named /\ DClean /\ IClean

-----------------------------------------------------------------------------
(* Where a word is kept.                                                                 *)
LEMMA Places ==
    ASSUME NEW w \in Nat
    PROVE  /\ DIndex(w) \in DKeys /\ IIndex(w) \in IKeys /\ PageOf(w) \in Nat
           /\ w % DLine \in 0 .. DLine - 1 /\ w % ILine \in 0 .. ILine - 1
           /\ Base(w, DLine) \in Nat /\ Base(w, DLine) + (w % DLine) = w
           /\ Base(w, ILine) \in Nat /\ Base(w, ILine) + (w % ILine) = w
           /\ w - Base(w, DLine) = w % DLine /\ w - Base(w, ILine) = w % ILine
BY DEF DIndex, IIndex, PageOf, Base, DLine, DLines, ILine, ILines, PageWords, DKeys, IKeys

(* The index and the tag together name a line.                                           *)
LEMMA SameLine ==
    ASSUME NEW w \in Nat, NEW x \in Nat
    PROVE  /\ DIndex(w) = DIndex(x) /\ PageOf(w) = PageOf(x)
                  <=> Base(w, DLine) = Base(x, DLine)
           /\ IIndex(w) = IIndex(x) /\ PageOf(w) = PageOf(x)
                  <=> Base(w, ILine) = Base(x, ILine)
           /\ x \in Base(w, DLine) .. Base(w, DLine) + DLine - 1
                  <=> Base(w, DLine) = Base(x, DLine)
           /\ x \in Base(w, ILine) .. Base(w, ILine) + ILine - 1
                  <=> Base(w, ILine) = Base(x, ILine)
BY DEF DIndex, IIndex, PageOf, Base, DLine, DLines, ILine, ILines, PageWords

(* Only part of the index is added to the tag, because the two overlap.                  *)
LEMMA Resident ==
    ASSUME NEW w \in Nat
    PROVE  /\ PageOf(w) * PageWords + ((DIndex(w) * DLine) % PageWords) = Base(w, DLine)
           /\ PageOf(w) * PageWords + ((IIndex(w) * ILine) % PageWords) = Base(w, ILine)
BY DEF DIndex, IIndex, PageOf, Base, DLine, DLines, ILine, ILines, PageWords

(* The line a CACHE instruction names is that of a word looked at.                       *)
LEMMA LinesAreWords == Lines \subseteq Words /\ Stored \subseteq Words /\ Words \subseteq Nat
BY CachesAssumption DEF Lines, Base

-----------------------------------------------------------------------------
(* A write-back changes memory at the words that hit its line, and nowhere else.         *)
LEMMA FlushedIs ==
    ASSUME CacheInv, NEW k \in DKeys
    PROVE  /\ Flushed(k) \in [Words -> Value]
           /\ \A x \in Words :
                Flushed(k)[x] = IF DDirty(k) /\ DIndex(x) = k /\ DHits(x)
                                THEN dcache[k].data[x % DLine] ELSE ram[x]
<1>0. CacheTypeOK /\ Named
  BY DEF CacheInv
<1>1. CASE ~DDirty(k)
  BY <1>0, <1>1 DEF Flushed, CacheTypeOK
<1>2. CASE DDirty(k)
  <2>1. PICK y \in Nat : DIndex(y) = k /\ PageOf(y) = dcache[k].tag
    BY <1>0, <1>2 DEF Named
  <2>2. DResident(k) = Base(y, DLine)
    BY <2>1, Resident DEF DResident
  <2>3. Flushed(k) = Push(ram, Base(y, DLine), dcache[k].data, DLine)
    BY <1>2, <2>2 DEF Flushed
  <2>4. ASSUME NEW x \in Words
        PROVE  /\ Flushed(k)[x] \in Value
               /\ Flushed(k)[x] = IF DIndex(x) = k /\ DHits(x)
                                  THEN dcache[k].data[x % DLine] ELSE ram[x]
    <3>1. x \in Nat
      BY LinesAreWords
    <3>2. DIndex(x) = k /\ DHits(x) <=> Base(x, DLine) = Base(y, DLine)
      BY <1>2, <2>1, <3>1, SameLine DEF DHits, DDirty
    <3>3. x \in Base(y, DLine) .. Base(y, DLine) + DLine - 1
             <=> Base(x, DLine) = Base(y, DLine)
      BY <2>1, <3>1, SameLine
    <3>4. Flushed(k)[x] = IF x \in Base(y, DLine) .. Base(y, DLine) + DLine - 1
                          THEN dcache[k].data[x - Base(y, DLine)] ELSE ram[x]
      BY <2>3 DEF Push
    <3>5. x - Base(x, DLine) = x % DLine /\ x % DLine \in 0 .. DLine - 1
      BY <3>1, Places
    <3>6. dcache[k].data \in [0 .. DLine - 1 -> Value] /\ ram[x] \in Value
      BY <1>0 DEF CacheTypeOK, DLineType
    <3>7. CASE Base(x, DLine) = Base(y, DLine)
      BY <3>2, <3>3, <3>4, <3>5, <3>6, <3>7
    <3>8. CASE Base(x, DLine) # Base(y, DLine)
      BY <3>2, <3>3, <3>4, <3>6, <3>8
    <3> QED  BY <3>7, <3>8
  <2>5. DOMAIN Flushed(k) = Words /\ Flushed(k) = [x \in Words |-> Flushed(k)[x]]
    BY <2>3 DEF Push
  <2> QED  BY <1>2, <2>4, <2>5
<1> QED  BY <1>1, <1>2

(* What a fill finds in memory.                                                          *)
LEMMA DInstalled ==
    ASSUME NEW m \in [Words -> Value], NEW w \in Words
    PROVE  LET line == Installed(m, w, DLine) IN
           /\ line \in DLineType /\ line.tag = PageOf(w) /\ line.valid /\ ~line.dirty
           /\ \A x \in Words : Base(x, DLine) = Base(w, DLine) => line.data[x % DLine] = m[x]
<1> DEFINE line == Installed(m, w, DLine)
<1>1. w \in Nat /\ PageOf(w) \in Nat /\ Base(w, DLine) \in Nat
  BY LinesAreWords, Places
<1>2. Pull(m, Base(w, DLine), DLine) \in [0 .. DLine - 1 -> Value]
  BY <1>1, CachesAssumption DEF Pull
<1>3. line \in DLineType /\ line.tag = PageOf(w) /\ line.valid /\ ~line.dirty
      /\ line.data = Pull(m, Base(w, DLine), DLine)
  BY <1>1, <1>2 DEF Installed, DLineType
<1>4. ASSUME NEW x \in Words, Base(x, DLine) = Base(w, DLine)
      PROVE  line.data[x % DLine] = m[x]
  <2>1. x % DLine \in 0 .. DLine - 1 /\ Base(w, DLine) + (x % DLine) = x
    BY <1>4, LinesAreWords, Places
  <2> QED  BY <1>3, <2>1 DEF Pull
<1> QED  BY <1>3, <1>4

\* The same of an instruction line: it holds the words of memory around the address, under
\* its tag.
LEMMA IInstalled ==
    ASSUME NEW m \in [Words -> Value], NEW w \in Words
    PROVE  LET line == Installed(m, w, ILine) IN
           /\ line \in ILineType /\ line.tag = PageOf(w) /\ line.valid
           /\ \A x \in Words : Base(x, ILine) = Base(w, ILine) => line.data[x % ILine] = m[x]
<1> DEFINE line == Installed(m, w, ILine)
<1>1. w \in Nat /\ PageOf(w) \in Nat /\ Base(w, ILine) \in Nat
  BY LinesAreWords, Places
<1>2. Pull(m, Base(w, ILine), ILine) \in [0 .. ILine - 1 -> Value]
  BY <1>1, CachesAssumption DEF Pull
<1>3. line \in ILineType /\ line.tag = PageOf(w) /\ line.valid
      /\ line.data = Pull(m, Base(w, ILine), ILine)
  BY <1>1, <1>2 DEF Installed, ILineType
<1>4. ASSUME NEW x \in Words, Base(x, ILine) = Base(w, ILine)
      PROVE  line.data[x % ILine] = m[x]
  <2>1. x % ILine \in 0 .. ILine - 1 /\ Base(w, ILine) + (x % ILine) = x
    BY <1>4, LinesAreWords, Places
  <2> QED  BY <1>3, <2>1 DEF Pull
<1> QED  BY <1>3, <1>4

-----------------------------------------------------------------------------
(* A step that replaces the line of one index, and touches memory at the words of that   *)
(* index alone, keeps the invariant if the new line is named, and clean wherever it      *)
(* promises to be; and it changes what the processor sees at that index alone.           *)
LEMMA LineStep ==
    ASSUME CacheInv,
           NEW k \in DKeys, NEW line \in DLineType, NEW m \in [Words -> Value],
           NEW stale, NEW fresh,
           DStep(m, SetD(k, line), stale, fresh),
           \A x \in Words : DIndex(x) # k => m[x] = ram[x] /\ x \notin fresh,
           line.valid /\ line.dirty => \E y \in Nat : DIndex(y) = k /\ PageOf(y) = line.tag,
           \A x \in Words :
               /\ DIndex(x) = k /\ line.valid /\ line.tag = PageOf(x) /\ ~line.dirty
               /\ x \in fresh \/ (~dOff[x] /\ x \notin stale)
               => m[x] = line.data[x % DLine]
    PROVE  /\ CacheInv'
           /\ \A x \in Words :
                View(x)' = IF DIndex(x) = k
                           THEN IF line.valid /\ line.tag = PageOf(x)
                                THEN line.data[x % DLine] ELSE m[x]
                           ELSE View(x)
<1>0. CacheTypeOK /\ Named /\ DClean /\ IClean
  BY DEF CacheInv
<1>1. /\ ram' = m /\ dcache' \in [DKeys -> DLineType] /\ icache' = icache
      /\ dcache'[k] = line /\ \A j \in DKeys : j # k => dcache'[j] = dcache[j]
  BY <1>0 DEF DStep, SetD, CacheTypeOK
<1>2. \A x \in Words : x \in Nat /\ DIndex(x) \in DKeys /\ IIndex(x) \in IKeys
  BY LinesAreWords, Places
<1>3. \A x \in Words : dOff'[x] = (DHits(x)' /\ x \notin fresh /\ (dOff[x] \/ x \in stale))
  BY DEF DStep
<1>4. \A x \in Words : iOff'[x] = (IHits(x) /\ (iOff[x] \/ m[x] # ram[x]))
  BY DEF DStep
<1>5. CacheTypeOK'
  <2>1. dOff' \in [Words -> BOOLEAN] /\ iOff' \in [Words -> BOOLEAN]
    BY DEF DStep, DHits, IHits
  <2> QED  BY <1>0, <1>1, <2>1 DEF CacheTypeOK
<1>6. Named'
  BY <1>0, <1>1 DEF Named, DDirty
<1>7. DClean'
  <2> SUFFICES ASSUME NEW x \in Words, DHits(x)', ~dcache'[DIndex(x)].dirty, ~dOff'[x]
               PROVE  m[x] = dcache'[DIndex(x)].data[x % DLine]
    BY <1>1 DEF DClean
  <2>1. x \in fresh \/ (~dOff[x] /\ x \notin stale)
    BY <1>3
  <2>2. CASE DIndex(x) = k
    BY <1>1, <2>1, <2>2 DEF DHits
  <2>3. CASE DIndex(x) # k
    <3>1. DHits(x) /\ ~dcache[DIndex(x)].dirty /\ ~dOff[x]
      BY <1>1, <1>2, <2>1, <2>3 DEF DHits
    <3>2. ram[x] = dcache[DIndex(x)].data[x % DLine]
      BY <1>0, <3>1 DEF DClean
    <3> QED  BY <1>1, <1>2, <2>3, <3>2
  <2> QED  BY <2>2, <2>3
<1>8. IClean'
  BY <1>0, <1>1, <1>2, <1>4 DEF IClean, IHits
<1>9. ASSUME NEW x \in Words
      PROVE  View(x)' = IF DIndex(x) = k
                        THEN IF line.valid /\ line.tag = PageOf(x)
                             THEN line.data[x % DLine] ELSE m[x]
                        ELSE View(x)
  BY <1>1, <1>2, <1>9 DEF View, DHits
<1> QED  BY <1>5, <1>6, <1>7, <1>8, <1>9 DEF CacheInv

(* A step that changes memory behind the data cache.                                     *)
LEMMA MemoryStep ==
    ASSUME CacheInv, NEW m \in [Words -> Value], NEW stale,
           DStep(m, dcache, stale, {}),
           \A x \in Words : x \notin stale => m[x] = ram[x]
    PROVE  /\ CacheInv'
           /\ \A x \in Words : View(x)' = IF DHits(x) THEN View(x) ELSE m[x]
<1>0. CacheTypeOK /\ Named /\ DClean /\ IClean
  BY DEF CacheInv
<1>1. ram' = m /\ dcache' = dcache /\ icache' = icache
  BY DEF DStep
<1>2. \A x \in Words : dOff'[x] = (DHits(x) /\ (dOff[x] \/ x \in stale))
  BY <1>1 DEF DStep, DHits
<1>3. \A x \in Words : iOff'[x] = (IHits(x) /\ (iOff[x] \/ m[x] # ram[x]))
  BY DEF DStep
<1>4. CacheTypeOK'
  <2>1. dOff' \in [Words -> BOOLEAN] /\ iOff' \in [Words -> BOOLEAN]
    BY DEF DStep, DHits, IHits
  <2> QED  BY <1>0, <1>1, <2>1 DEF CacheTypeOK
<1>5. Named'
  BY <1>0, <1>1 DEF Named, DDirty
<1>6. DClean'
  BY <1>0, <1>1, <1>2 DEF DClean, DHits
<1>7. IClean'
  BY <1>0, <1>1, <1>3 DEF IClean, IHits
<1>8. \A x \in Words : View(x)' = IF DHits(x) THEN View(x) ELSE m[x]
  BY <1>1 DEF View, DHits
<1> QED  BY <1>4, <1>5, <1>6, <1>7, <1>8 DEF CacheInv

(* A step of the instruction cache: one line, filled from memory or given up.            *)
LEMMA FetchStep ==
    ASSUME CacheInv, NEW k \in IKeys, NEW line \in ILineType, NEW fresh,
           IStep(SetI(k, line), fresh),
           \A x \in Words : IIndex(x) # k => x \notin fresh,
           \A x \in Words :
               /\ IIndex(x) = k /\ line.valid /\ line.tag = PageOf(x)
               /\ x \in fresh \/ ~iOff[x]
               => ram[x] = line.data[x % ILine]
    PROVE  CacheInv' /\ \A x \in Words : View(x)' = View(x)
<1>0. CacheTypeOK /\ Named /\ DClean /\ IClean
  BY DEF CacheInv
<1>1. /\ ram' = ram /\ dcache' = dcache /\ dOff' = dOff
      /\ icache' \in [IKeys -> ILineType]
      /\ icache'[k] = line /\ \A j \in IKeys : j # k => icache'[j] = icache[j]
  BY <1>0 DEF IStep, SetI, CacheTypeOK
<1>2. \A x \in Words : x \in Nat /\ IIndex(x) \in IKeys
  BY LinesAreWords, Places
<1>3. \A x \in Words : iOff'[x] = (IHits(x)' /\ x \notin fresh /\ iOff[x])
  BY DEF IStep
<1>4. CacheTypeOK'
  <2>1. iOff' \in [Words -> BOOLEAN]
    BY DEF IStep, IHits
  <2> QED  BY <1>0, <1>1, <2>1 DEF CacheTypeOK
<1>5. Named' /\ DClean'
  BY <1>0, <1>1 DEF Named, DDirty, DClean, DHits
<1>6. IClean'
  <2> SUFFICES ASSUME NEW x \in Words, IHits(x)', ~iOff'[x]
               PROVE  ram[x] = icache'[IIndex(x)].data[x % ILine]
    BY <1>1 DEF IClean
  <2>1. x \in fresh \/ ~iOff[x]
    BY <1>3
  <2>2. CASE IIndex(x) = k
    BY <1>1, <2>1, <2>2 DEF IHits
  <2>3. CASE IIndex(x) # k
    <3>1. IHits(x) /\ ~iOff[x]
      BY <1>1, <1>2, <2>1, <2>3 DEF IHits
    <3> QED  BY <1>0, <1>1, <1>2, <2>3, <3>1 DEF IClean
  <2> QED  BY <2>2, <2>3
<1>7. \A x \in Words : View(x)' = View(x)
  BY <1>1 DEF View, DHits
<1> QED  BY <1>4, <1>5, <1>6, <1>7 DEF CacheInv

-----------------------------------------------------------------------------
(* What a load or a store leaves in memory and in the line, before the store's word: the *)
(* processor still sees what it saw.                                                     *)
LEMMA FillIs ==
    ASSUME CacheInv, NEW w \in Words
    PROVE  LET line == FillLine(w)
               m == FillRam(w)
               k == DIndex(w)
           IN  /\ k \in DKeys /\ line \in DLineType /\ m \in [Words -> Value]
               /\ line.valid /\ line.tag = PageOf(w)
               /\ \A x \in Words : DIndex(x) # k => m[x] = ram[x]
               /\ \A x \in Words :
                    DIndex(x) = k /\ x \notin DWords(w) /\ ~dOff[x] => m[x] = View(x)
               /\ \A x \in DWords(w) : line.data[x % DLine] = View(x)
               /\ ~DHits(w) => ~line.dirty /\ \A x \in DWords(w) : line.data[x % DLine] = m[x]
               /\ DHits(w) => line = dcache[k] /\ m = ram
<1> DEFINE line == FillLine(w)
           m == FillRam(w)
           k == DIndex(w)
<1>0. CacheTypeOK /\ Named /\ DClean
  BY DEF CacheInv
<1>1. k \in DKeys /\ w \in Nat
  BY LinesAreWords, Places
<1>2. \A x \in Words : x \in DWords(w) <=> DIndex(x) = k /\ PageOf(x) = PageOf(w)
  BY LinesAreWords, SameLine DEF DWords
<1>3. CASE DHits(w)
  <2>1. line = dcache[k] /\ m = ram /\ line \in DLineType /\ m \in [Words -> Value]
    BY <1>0, <1>1, <1>3 DEF FillLine, FillRam, CacheTypeOK
  <2>2. line.valid /\ line.tag = PageOf(w)
    BY <1>3, <2>1 DEF DHits
  <2>3. \A x \in DWords(w) : line.data[x % DLine] = View(x)
    BY <1>2, <2>1, <2>2 DEF View, DHits, DWords
  <2>4. \A x \in Words : DIndex(x) = k /\ x \notin DWords(w) => m[x] = View(x)
    BY <1>2, <2>1, <2>2 DEF View, DHits
  <2> QED  BY <1>1, <1>3, <2>1, <2>2, <2>3, <2>4
<1>4. CASE ~DHits(w)
  <2>1. m = Flushed(k) /\ line = Installed(m, w, DLine)
    BY <1>4 DEF FillLine, FillRam
  <2>2. /\ m \in [Words -> Value]
        /\ \A x \in Words :
             m[x] = IF DDirty(k) /\ DIndex(x) = k /\ DHits(x)
                    THEN dcache[k].data[x % DLine] ELSE ram[x]
    BY <1>1, <2>1, FlushedIs
  <2>3. /\ line \in DLineType /\ line.tag = PageOf(w) /\ line.valid /\ ~line.dirty
        /\ \A x \in Words : Base(x, DLine) = Base(w, DLine) => line.data[x % DLine] = m[x]
    BY <2>1, <2>2, DInstalled
  <2>4. \A x \in Words : DIndex(x) = k /\ ~dOff[x] => m[x] = View(x)
    BY <1>0, <2>2 DEF View, DHits, DDirty, DClean
  <2>5. \A x \in DWords(w) : ~DHits(x) /\ m[x] = ram[x] /\ View(x) = ram[x]
    BY <1>2, <1>4, <2>2 DEF DHits, View, DWords
  <2>6. \A x \in DWords(w) : line.data[x % DLine] = m[x]
    BY <2>3 DEF DWords
  <2>7. \A x \in DWords(w) : line.data[x % DLine] = View(x)
    BY <2>5, <2>6
  <2>8. \A x \in Words : DIndex(x) # k => m[x] = ram[x]
    BY <2>2
  <2> QED  BY <1>1, <1>4, <2>2, <2>3, <2>4, <2>6, <2>7, <2>8
<1> QED  BY <1>3, <1>4

\* A cached load may evict and fill; it changes what no word reads as, but for discarded
\* ones.
LEMMA LoadStep ==
    ASSUME CacheInv, NEW w \in Stored, CachedLoad(w)
    PROVE  CacheInv' /\ \A x \in Words : View(x)' # View(x) => dOff[x]
<1> DEFINE line == FillLine(w)
           m == FillRam(w)
           k == DIndex(w)
           fresh == IF DHits(w) THEN {} ELSE DWords(w)
<1>1. w \in Words /\ w \in Nat
  BY LinesAreWords
<1>2. /\ k \in DKeys /\ line \in DLineType /\ m \in [Words -> Value]
      /\ line.valid /\ line.tag = PageOf(w)
      /\ \A x \in Words : DIndex(x) # k => m[x] = ram[x]
      /\ \A x \in Words :
           DIndex(x) = k /\ x \notin DWords(w) /\ ~dOff[x] => m[x] = View(x)
      /\ \A x \in DWords(w) : line.data[x % DLine] = View(x)
      /\ ~DHits(w) => ~line.dirty /\ \A x \in DWords(w) : line.data[x % DLine] = m[x]
      /\ DHits(w) => line = dcache[k] /\ m = ram
  BY <1>1, FillIs
<1>3. \A x \in Words : x \in DWords(w) <=> DIndex(x) = k /\ PageOf(x) = PageOf(w)
  BY <1>1, LinesAreWords, SameLine DEF DWords
<1>4. DStep(m, SetD(k, line), {}, fresh)
  BY DEF CachedLoad
<1> HIDE DEF line, m
<1>5. \A x \in Words : DIndex(x) # k => m[x] = ram[x] /\ x \notin fresh
  BY <1>2, <1>3
<1>6. ASSUME NEW x \in Words,
             DIndex(x) = k, line.tag = PageOf(x), ~line.dirty,
             x \in fresh \/ ~dOff[x]
      PROVE  m[x] = line.data[x % DLine]
  <2>1. x \in DWords(w)
    BY <1>2, <1>3, <1>6
  <2>2. CASE DHits(w)
    BY <1>2, <1>6, <2>2 DEF CacheInv, DClean, DHits
  <2>3. CASE ~DHits(w)
    BY <1>2, <2>1, <2>3
  <2> QED  BY <2>2, <2>3
<1>7. /\ CacheInv'
      /\ \A x \in Words :
           View(x)' = IF DIndex(x) = k
                      THEN IF line.valid /\ line.tag = PageOf(x)
                           THEN line.data[x % DLine] ELSE m[x]
                      ELSE View(x)
  <2>1. line.valid /\ line.dirty => \E y \in Nat : DIndex(y) = k /\ PageOf(y) = line.tag
    BY <1>1, <1>2
  <2>2. \A x \in Words :
            /\ DIndex(x) = k /\ line.valid /\ line.tag = PageOf(x) /\ ~line.dirty
            /\ x \in fresh \/ (~dOff[x] /\ x \notin {})
            => m[x] = line.data[x % DLine]
    BY <1>6
  <2>3. k \in DKeys /\ line \in DLineType /\ m \in [Words -> Value]
    BY <1>2
  <2> HIDE DEF k, fresh
  <2> QED  BY <1>4, <1>5, <2>1, <2>2, <2>3, LineStep
<1>8. \A x \in Words : View(x)' # View(x) => dOff[x]
  BY <1>2, <1>3, <1>7
<1> QED  BY <1>7, <1>8

\* A cached store changes what its own word reads as, and of others only words
\* changed behind their line.
LEMMA StoreStep ==
    ASSUME CacheInv, NEW w \in Stored, NEW v \in Value, CachedStore(w, v)
    PROVE  CacheInv' /\ \A x \in Words : View(x)' # View(x) => dOff[x] \/ x = w
<1> DEFINE line == FillLine(w)
           kept == [line EXCEPT !.data[w % DLine] = v, !.dirty = TRUE]
           m == FillRam(w)
           k == DIndex(w)
           fresh == IF DHits(w) THEN {} ELSE DWords(w)
<1>1. w \in Words /\ w \in Nat /\ w % DLine \in 0 .. DLine - 1
  BY LinesAreWords, Places
<1>2. /\ k \in DKeys /\ line \in DLineType /\ m \in [Words -> Value]
      /\ line.valid /\ line.tag = PageOf(w)
      /\ \A x \in Words : DIndex(x) # k => m[x] = ram[x]
      /\ \A x \in Words :
           DIndex(x) = k /\ x \notin DWords(w) /\ ~dOff[x] => m[x] = View(x)
      /\ \A x \in DWords(w) : line.data[x % DLine] = View(x)
  BY <1>1, FillIs
<1>3. \A x \in Words : x \in DWords(w) <=> DIndex(x) = k /\ PageOf(x) = PageOf(w)
  BY <1>1, LinesAreWords, SameLine DEF DWords
<1>4. DStep(m, SetD(k, kept), {}, fresh)
  BY DEF CachedStore
<1> HIDE DEF line, m
<1>5. /\ kept \in DLineType /\ kept.valid /\ kept.dirty /\ kept.tag = PageOf(w)
      /\ \A j \in 0 .. DLine - 1 : j # w % DLine => kept.data[j] = line.data[j]
  BY <1>1, <1>2 DEF DLineType
<1> HIDE DEF kept
<1>6. \A x \in Words : DIndex(x) # k => m[x] = ram[x] /\ x \notin fresh
  BY <1>2, <1>3
<1>7. /\ CacheInv'
      /\ \A x \in Words :
           View(x)' = IF DIndex(x) = k
                      THEN IF kept.valid /\ kept.tag = PageOf(x)
                           THEN kept.data[x % DLine] ELSE m[x]
                      ELSE View(x)
  <2>1. kept.valid /\ kept.dirty => \E y \in Nat : DIndex(y) = k /\ PageOf(y) = kept.tag
    BY <1>1, <1>5
  <2>2. \A x \in Words :
            /\ DIndex(x) = k /\ kept.valid /\ kept.tag = PageOf(x) /\ ~kept.dirty
            /\ x \in fresh \/ (~dOff[x] /\ x \notin {})
            => m[x] = kept.data[x % DLine]
    BY <1>5
  <2>3. k \in DKeys /\ kept \in DLineType /\ m \in [Words -> Value]
    BY <1>2, <1>5
  <2> HIDE DEF k, fresh
  <2> QED  BY <1>4, <1>6, <2>1, <2>2, <2>3, LineStep
<1>8. ASSUME NEW x \in Words, x # w, ~dOff[x] PROVE View(x)' = View(x)
  <2>1. x \in Nat /\ x % DLine \in 0 .. DLine - 1 /\ Base(x, DLine) + (x % DLine) = x
        /\ Base(w, DLine) + (w % DLine) = w
    BY <1>1, LinesAreWords, Places
  <2>2. CASE x \in DWords(w)
    <3>1. x % DLine # w % DLine
      BY <1>8, <2>1, <2>2 DEF DWords
    <3> QED  BY <1>2, <1>3, <1>5, <1>7, <2>1, <2>2, <3>1
  <2>3. CASE x \notin DWords(w)
    BY <1>2, <1>3, <1>5, <1>7, <1>8, <2>3
  <2> QED  BY <2>2, <2>3
<1> QED  BY <1>7, <1>8

\* A write past the caches changes its own word.
LEMMA WriteStep ==
    ASSUME CacheInv, NEW w \in Stored, NEW v \in Value, WriteMemory(w, v)
    PROVE  CacheInv' /\ \A x \in Words : View(x)' # View(x) => x = w
<1> DEFINE m == [ram EXCEPT ![w] = v]
<1>1. m \in [Words -> Value] /\ \A x \in Words : x \notin {w} => m[x] = ram[x]
  BY LinesAreWords DEF CacheInv, CacheTypeOK
<1>2. DStep(m, dcache, {w}, {})
  BY DEF WriteMemory
<1> HIDE DEF m
<1>3. CacheInv' /\ \A x \in Words : View(x)' = IF DHits(x) THEN View(x) ELSE m[x]
  BY <1>1, <1>2, MemoryStep
<1> QED  BY <1>1, <1>3 DEF View

-----------------------------------------------------------------------------
(* CACHE on the data cache.  A line that is written back leaves in memory what the       *)
(* processor saw of it.                                                                  *)
LEMMA FlushedSeen ==
    ASSUME CacheInv, NEW k \in DKeys, NEW x \in Words, DIndex(x) = k, ~dOff[x]
    PROVE  Flushed(k)[x] = View(x)
BY FlushedIs DEF View, DHits, DDirty, CacheInv, DClean

\* An invalidated line is a line and holds nothing.
LEMMA InvalidLine ==
    ASSUME CacheInv, NEW k \in DKeys
    PROVE  Invalid(dcache[k]) \in DLineType /\ ~Invalid(dcache[k]).valid
BY DEF CacheInv, CacheTypeOK, DLineType, Invalid

(* Writing a line back and giving it up.                                                 *)
LEMMA EvictStep ==
    ASSUME CacheInv, NEW w \in Lines,
           IndexWritebackInvalidate(w) \/ HitWritebackInvalidate(w)
    PROVE  CacheInv' /\ \A x \in Words : View(x)' # View(x) => dOff[x]
<1> DEFINE k == DIndex(w)
           line == Invalid(dcache[k])
           m == Flushed(k)
<1>1. k \in DKeys
  BY LinesAreWords, Places
<1>2. DStep(m, SetD(k, line), {}, {})
  BY DEF IndexWritebackInvalidate, HitWritebackInvalidate
<1>3. line \in DLineType /\ ~line.valid
  BY <1>1, InvalidLine
<1>4. m \in [Words -> Value] /\ \A x \in Words : DIndex(x) # k => m[x] = ram[x]
  BY <1>1, FlushedIs
<1> HIDE DEF k, line, m
<1>5. /\ CacheInv'
      /\ \A x \in Words :
           View(x)' = IF DIndex(x) = k
                      THEN IF line.valid /\ line.tag = PageOf(x)
                           THEN line.data[x % DLine] ELSE m[x]
                      ELSE View(x)
  BY <1>1, <1>2, <1>3, <1>4, LineStep
<1>6. \A x \in Words : DIndex(x) = k /\ ~dOff[x] => m[x] = View(x)
  BY <1>1, FlushedSeen DEF m
<1> QED  BY <1>3, <1>5, <1>6

\* A write-back that keeps the line changes what no word reads as, but for words
\* changed behind their line.
LEMMA WritebackStep ==
    ASSUME CacheInv, NEW w \in Lines, HitWriteback(w)
    PROVE  CacheInv' /\ \A x \in Words : View(x)' # View(x) => dOff[x]
<1> DEFINE k == DIndex(w)
           line == [dcache[k] EXCEPT !.dirty = FALSE]
           m == Flushed(k)
           fresh == IF DDirty(k) THEN DWords(w) ELSE {}
<1>0. CacheTypeOK /\ DClean /\ DHits(w)
  BY DEF CacheInv, HitWriteback
<1>1. k \in DKeys /\ w \in Words /\ w \in Nat
  BY LinesAreWords, Places
<1>2. DStep(m, SetD(k, line), {}, fresh)
  BY DEF HitWriteback, SetD
<1>3. /\ line \in DLineType /\ line.valid /\ ~line.dirty
      /\ line.tag = dcache[k].tag /\ line.data = dcache[k].data
  BY <1>0, <1>1 DEF CacheTypeOK, DLineType, DHits
<1>4. /\ m \in [Words -> Value]
      /\ \A x \in Words :
           m[x] = IF DDirty(k) /\ DIndex(x) = k /\ DHits(x)
                  THEN dcache[k].data[x % DLine] ELSE ram[x]
  BY <1>1, FlushedIs
<1>5. \A x \in Words : DIndex(x) = k /\ ~dOff[x] => m[x] = View(x)
  BY <1>1, FlushedSeen
<1>6. \A x \in Words : DIndex(x) # k => x \notin fresh
  BY <1>1, LinesAreWords, SameLine DEF DWords
<1> HIDE DEF line, m
<1>7. ASSUME NEW x \in Words, DIndex(x) = k, line.tag = PageOf(x),
             x \in fresh \/ ~dOff[x]
      PROVE  m[x] = line.data[x % DLine]
  <2>1. DHits(x)
    BY <1>3, <1>7, <1>0 DEF DHits
  <2>2. CASE DDirty(k)
    BY <1>3, <1>4, <1>7, <2>1, <2>2
  <2>3. CASE ~DDirty(k)
    BY <1>0, <1>3, <1>4, <1>7, <2>1, <2>3 DEF DClean, DDirty, DHits
  <2> QED  BY <2>2, <2>3
<1>8. /\ CacheInv'
      /\ \A x \in Words :
           View(x)' = IF DIndex(x) = k
                      THEN IF line.valid /\ line.tag = PageOf(x)
                           THEN line.data[x % DLine] ELSE m[x]
                      ELSE View(x)
  <2>1. \A x \in Words : DIndex(x) # k => m[x] = ram[x] /\ x \notin fresh
    BY <1>4, <1>6
  <2>2. \A x \in Words :
            /\ DIndex(x) = k /\ line.valid /\ line.tag = PageOf(x) /\ ~line.dirty
            /\ x \in fresh \/ (~dOff[x] /\ x \notin {})
            => m[x] = line.data[x % DLine]
    BY <1>7
  <2>3. ~line.dirty /\ line \in DLineType /\ m \in [Words -> Value]
    BY <1>3, <1>4
  <2> HIDE DEF k, fresh
  <2> QED  BY <1>1, <1>2, <2>1, <2>2, <2>3, LineStep
<1>9. ASSUME NEW x \in Words, ~dOff[x] PROVE View(x)' = View(x)
  <2>1. CASE DIndex(x) = k /\ line.tag = PageOf(x)
    BY <1>0, <1>3, <1>8, <2>1 DEF View, DHits
  <2>2. CASE ~(DIndex(x) = k /\ line.tag = PageOf(x))
    BY <1>5, <1>8, <1>9, <2>2
  <2> QED  BY <2>1, <2>2
<1> QED  BY <1>8, <1>9

(* Software gives a line up unwritten, or puts another tag on what it holds.             *)
LEMMA DiscardStep ==
    ASSUME CacheInv, NEW w \in Lines, Discards(w)
    PROVE  CacheInv' /\ \A x \in Words : View(x)' # View(x) => DIndex(x) = DIndex(w)
<1> DEFINE k == DIndex(w)
<1>0. CacheTypeOK /\ Named
  BY DEF CacheInv
<1>1. k \in DKeys /\ w \in Words /\ w \in Nat /\ PageOf(w) \in Nat
  BY LinesAreWords, Places
<1>2. \A x \in Words : x \in DWords(w) <=> DIndex(x) = k /\ PageOf(x) = PageOf(w)
  BY <1>1, LinesAreWords, SameLine DEF DWords
<1>3. ram \in [Words -> Value] /\ dcache[k] \in DLineType
  BY <1>0, <1>1 DEF CacheTypeOK
<1> HIDE DEF k
<1>4. CASE HitInvalidate(w)
  <2> DEFINE line == Invalid(dcache[k])
  <2>1. DStep(ram, SetD(k, line), {}, {})
    BY <1>4 DEF HitInvalidate, k
  <2>2. line \in DLineType /\ ~line.valid
    BY <1>1, InvalidLine
  <2> HIDE DEF line
  <2> QED  BY <1>1, <1>3, <2>1, <2>2, LineStep DEF k
<1>5. CASE CreateDirtyExclusive(w)
  <2> DEFINE line == [dcache[k] EXCEPT !.tag = PageOf(w), !.valid = TRUE, !.dirty = TRUE]
             m == IF dcache[k].tag # PageOf(w) THEN Flushed(k) ELSE ram
  <2>1. DStep(m, SetD(k, line), {}, DWords(w))
    BY <1>5 DEF CreateDirtyExclusive, k
  <2>2. line \in DLineType /\ line.dirty /\ line.tag = PageOf(w)
    BY <1>1, <1>3 DEF DLineType
  <2>3. m \in [Words -> Value] /\ \A x \in Words : DIndex(x) # k => m[x] = ram[x]
    BY <1>1, <1>3, FlushedIs
  <2>4. \E y \in Nat : DIndex(y) = k /\ PageOf(y) = line.tag
    BY <1>1, <2>2 DEF k
  <2> HIDE DEF line, m
  <2> QED  BY <1>1, <1>2, <2>1, <2>2, <2>3, <2>4, LineStep DEF k
<1>6. ASSUME NEW valid \in BOOLEAN, NEW tag \in Tags, IndexStoreTag(w, tag, valid)
      PROVE  CacheInv' /\ \A x \in Words : View(x)' # View(x) => DIndex(x) = k
  <2> DEFINE line == [dcache[k] EXCEPT !.tag = tag, !.valid = valid, !.dirty = FALSE]
             stale == {x \in Words : DIndex(x) = k}
  <2>1. DStep(ram, SetD(k, line), stale, {})
    BY <1>6 DEF IndexStoreTag, k
  <2>2. tag \in Nat
    BY LinesAreWords, Places DEF Tags
  <2>3. line \in DLineType /\ ~line.dirty
    BY <1>3, <2>2 DEF DLineType
  <2>4. \A x \in Words : DIndex(x) = k => x \in stale
    OBVIOUS
  <2> HIDE DEF line, stale
  <2> QED  BY <1>1, <1>3, <2>1, <2>3, <2>4, LineStep
<1> QED  BY <1>4, <1>5, <1>6 DEF Discards, k

-----------------------------------------------------------------------------
(* The instruction cache: its fills, and CACHE on it.                                    *)
LEMMA FillStep ==
    ASSUME CacheInv, NEW w \in Words, Fetch(w) \/ Fill(w)
    PROVE  CacheInv' /\ \A x \in Words : View(x)' = View(x)
<1> DEFINE k == IIndex(w)
           line == Installed(ram, w, ILine)
<1>1. k \in IKeys /\ w \in Nat /\ ram \in [Words -> Value]
  BY LinesAreWords, Places DEF CacheInv, CacheTypeOK
<1>2. IStep(SetI(k, line), IWords(w))
  BY DEF Fetch, Fill
<1>3. \A x \in Words : x \in IWords(w) <=> IIndex(x) = k /\ PageOf(x) = PageOf(w)
  BY <1>1, LinesAreWords, SameLine DEF IWords
<1>4. /\ line \in ILineType /\ line.tag = PageOf(w)
      /\ \A x \in Words : Base(x, ILine) = Base(w, ILine) => line.data[x % ILine] = ram[x]
  BY <1>1, IInstalled
<1>5. \A x \in IWords(w) : line.data[x % ILine] = ram[x]
  BY <1>4 DEF IWords
<1> HIDE DEF line, k
<1> QED  BY <1>1, <1>2, <1>3, <1>4, <1>5, FetchStep

\* Dropping an instruction line changes nothing: it is never dirty.
LEMMA ForgetStep ==
    ASSUME CacheInv, NEW w \in Lines, IndexInvalidateI(w) \/ HitInvalidateI(w)
    PROVE  CacheInv' /\ \A x \in Words : View(x)' = View(x)
<1> DEFINE k == IIndex(w)
           line == [icache[k] EXCEPT !.valid = FALSE]
<1>1. k \in IKeys
  BY LinesAreWords, Places
<1>2. IStep(SetI(k, line), {})
  BY DEF IndexInvalidateI, HitInvalidateI, SetI
<1>3. line \in ILineType /\ ~line.valid
  BY <1>1 DEF CacheInv, CacheTypeOK, ILineType
<1> HIDE DEF line, k
<1> QED  BY <1>1, <1>2, <1>3, FetchStep

\* Writing an instruction line to memory changes only words of that line.
LEMMA IWritebackStep ==
    ASSUME CacheInv, NEW w \in Lines, HitWritebackI(w)
    PROVE  CacheInv' /\ \A x \in Words : View(x)' # View(x) => IIndex(w) = IIndex(x)
<1> DEFINE line == icache[IIndex(w)]
           m == Push(ram, IResident(IIndex(w)), line.data, ILine)
<1>1. w \in Words /\ w \in Nat /\ IIndex(w) \in IKeys
  BY LinesAreWords, Places
<1>2. line \in ILineType /\ line.tag = PageOf(w)
  BY <1>1 DEF CacheInv, CacheTypeOK, HitWritebackI, IHits
<1>3. IResident(IIndex(w)) = Base(w, ILine)
  BY <1>1, <1>2, Resident DEF IResident
<1>4. DStep(m, dcache, IWords(w), {})
  BY DEF HitWritebackI
<1>5. m = [x \in Words |-> IF x \in Base(w, ILine) .. Base(w, ILine) + ILine - 1
                           THEN line.data[x - Base(w, ILine)] ELSE ram[x]]
  BY <1>3 DEF Push
<1> HIDE DEF m
<1>6. ASSUME NEW x \in Words
      PROVE  m[x] \in Value /\ (x \notin IWords(w) => m[x] = ram[x])
  <2>1. x \in Nat /\ x % ILine \in 0 .. ILine - 1 /\ x - Base(x, ILine) = x % ILine
    BY LinesAreWords, Places
  <2>2. x \in Base(w, ILine) .. Base(w, ILine) + ILine - 1 <=> x \in IWords(w)
    BY <1>1, <2>1, SameLine DEF IWords
  <2>3. x \in IWords(w) => m[x] = line.data[x % ILine]
    BY <1>5, <2>1, <2>2 DEF IWords
  <2>4. line.data[x % ILine] \in Value /\ ram[x] \in Value
    BY <1>2, <2>1 DEF ILineType, CacheInv, CacheTypeOK
  <2> QED  BY <1>5, <2>2, <2>3, <2>4
<1>7. m \in [Words -> Value]
  BY <1>5, <1>6
<1>8. CacheInv' /\ \A x \in Words : View(x)' = IF DHits(x) THEN View(x) ELSE m[x]
  BY <1>4, <1>6, <1>7, MemoryStep
<1>9. \A x \in Words : x \in IWords(w) => IIndex(w) = IIndex(x)
  BY <1>1, LinesAreWords, SameLine DEF IWords
<1> QED  BY <1>6, <1>8, <1>9 DEF View

-----------------------------------------------------------------------------
(* What may change what the processor sees at a word.                                    *)
Accounted(w) ==
    \/ dOff[w]
    \/ \E v \in Value : CachedStore(w, v) \/ WriteMemory(w, v)
    \/ \E x \in Lines : HitWritebackI(x) /\ IIndex(x) = IIndex(w)
    \/ \E x \in Lines : DIndex(x) = DIndex(w) /\ Discards(x)

\* The caches start empty.
LEMMA InitClean ==
    ASSUME CachesInit PROVE CacheInv
<1>1. CacheTypeOK
  BY CachesAssumption DEF CachesInit, CacheTypeOK, DKeys, IKeys, DLineType, ILineType
<1>2. \A k \in DKeys : ~dcache[k].valid
  BY DEF CachesInit, DKeys
<1>3. \A k \in IKeys : ~icache[k].valid
  BY DEF CachesInit, IKeys
<1>4. \A w \in Words : DIndex(w) \in DKeys /\ IIndex(w) \in IKeys
  BY LinesAreWords, Places
<1> QED
  BY <1>1, <1>2, <1>3, <1>4
     DEF CacheInv, Named, DDirty, DClean, DHits, IClean, IHits

\* Every operation keeps the invariant and changes no word it does not account for.
LEMMA StepClean ==
    ASSUME CacheInv, CachesNext
    PROVE  CacheInv' /\ \A x \in Words : View(x)' # View(x) => Accounted(x)
<1>0. Stored \subseteq Words
  BY LinesAreWords
<1>1. ASSUME NEW w \in Stored, CachedLoad(w) \/ Fetch(w)
      PROVE  CacheInv' /\ \A x \in Words : View(x)' # View(x) => Accounted(x)
  BY <1>0, <1>1, LoadStep, FillStep DEF Accounted
<1>2. ASSUME NEW w \in Stored, NEW v \in Value, CachedStore(w, v) \/ WriteMemory(w, v)
      PROVE  CacheInv' /\ \A x \in Words : View(x)' # View(x) => Accounted(x)
  BY <1>2, StoreStep, WriteStep DEF Accounted
<1>3. ASSUME NEW w \in Lines,
             \/ IndexWritebackInvalidate(w) \/ HitWritebackInvalidate(w)
             \/ HitWriteback(w) \/ Discards(w)
      PROVE  CacheInv' /\ \A x \in Words : View(x)' # View(x) => Accounted(x)
  BY <1>3, EvictStep, WritebackStep, DiscardStep DEF Accounted
<1>4. ASSUME NEW w \in Lines,
             IndexInvalidateI(w) \/ HitInvalidateI(w) \/ Fill(w) \/ HitWritebackI(w)
      PROVE  CacheInv' /\ \A x \in Words : View(x)' # View(x) => Accounted(x)
  BY <1>4, LinesAreWords, ForgetStep, FillStep, IWritebackStep DEF Accounted
<1> QED
  BY <1>1, <1>2, <1>3, <1>4 DEF CachesNext, Discards

\* The invariant of the caches holds in every reachable state.
LEMMA CachesCorrect == CachesSpec => []CacheInv
<1>1. CachesInit => CacheInv
  BY InitClean
<1>2. CacheInv /\ [CachesNext]_cachesVars => CacheInv'
  <2>1. CacheInv /\ UNCHANGED cachesVars => CacheInv'
    BY DEF cachesVars, CacheInv, CacheTypeOK, Named, DDirty, DClean, DHits, IClean, IHits
  <2> QED  BY <2>1, StepClean
<1> QED  BY <1>1, <1>2, PTL DEF CachesSpec

(* Memory holds what the processor sees, and a fetch sees it too, once the line is       *)
(* written back and nothing changed behind the caches.                                   *)
THEOREM VisibleCorrect == CachesSpec => []WrittenBackMeansVisible
<1>1. CacheInv => WrittenBackMeansVisible
  BY DEF CacheInv, DClean, IClean, WrittenBackMeansVisible, View, Code
<1> QED  BY <1>1, CachesCorrect, PTL

(* No eviction and no write-back loses a store, or puts it somewhere else.               *)
THEOREM StoresCorrect == CachesSpec => NoStoreLost
<1>1. CacheInv /\ [CachesNext]_cachesVars
        => [\A w \in Words : View(w)' # View(w) => Accounted(w)]_cachesVars
  BY StepClean
<1>2. CachesSpec => [][\A w \in Words : View(w)' # View(w) => Accounted(w)]_cachesVars
  BY <1>1, CachesCorrect, PTL DEF CachesSpec
<1> QED  BY <1>2 DEF NoStoreLost, Accounted

-----------------------------------------------------------------------------
(***************************************************************************)
(* The FPU.  What its arithmetic raises is a set of the five conditions of *)
(* IEEE 754: an instruction left to software is told apart from it by the  *)
(* sixth, which has no enable, and so a commit can be told from a trap.    *)
(***************************************************************************)

Raises(o) == o.flags \subseteq Conditions

\* Rounding raises conditions of IEEE 754 only.
LEMMA RoundPackRaises ==
  ASSUME NEW neg, NEW sig, NEW exp, NEW sticky, NEW f, NEW mode
  PROVE  Raises(RoundPack(neg, sig, exp, sticky, f, mode))
  BY DEF Raises, RoundPack, Overflowed, Done, Conditions

LEMMA AddFiniteRaises ==
  ASSUME NEW a, NEW b, NEW f, NEW mode
  PROVE  Raises(AddFinite(a, b, f, mode))
  BY RoundPackRaises DEF AddFinite, Raises, Done


LEMMA RepackRaises ==
  ASSUME NEW x, NEW f, NEW to, NEW mode
  PROVE  Raises(Repack(x, f, to, mode))
  BY RoundPackRaises DEF Repack

LEMMA DoneRaises ==
  ASSUME NEW x, NEW flags, flags \subseteq Conditions
  PROVE  Raises(Done(x, flags))
  BY DEF Raises, Done

LEMMA NanRaises ==
  ASSUME NEW args, NEW f
  PROVE  Raises(NanResult(args, f)) /\ Raises(InvalidResult(f))
  BY DEF Raises, Done, NanResult, InvalidResult, Conditions

LEMMA AddRaises ==
  ASSUME NEW a, NEW b, NEW f, NEW mode
  PROVE  Raises(AddUnpacked(a, b, f, mode))
  BY AddFiniteRaises, RepackRaises, DoneRaises, NanRaises DEF AddUnpacked

LEMMA MulRaises ==
  ASSUME NEW a, NEW b, NEW f, NEW mode
  PROVE  Raises(Mul(a, b, f, mode))
  BY RoundPackRaises, DoneRaises, NanRaises DEF Mul

LEMMA DivRaises ==
  ASSUME NEW a, NEW b, NEW f, NEW mode
  PROVE  Raises(Div(a, b, f, mode))
<1>1. {"div_by_zero"} \subseteq Conditions
  BY DEF Conditions
<1> QED BY <1>1, RoundPackRaises, DoneRaises, NanRaises DEF Div

LEMMA SqrtRaises ==
  ASSUME NEW a, NEW f, NEW mode
  PROVE  Raises(Sqrt(a, f, mode))
  BY RoundPackRaises, DoneRaises, NanRaises DEF Sqrt

LEMMA ConversionsRaise ==
  ASSUME NEW a, NEW from, NEW to, NEW mode, NEW v, NEW b, NEW cond, NEW bits
  PROVE  /\ Raises(Convert(a, from, to, mode))
         /\ Raises(FromInt(v, to, mode))
         /\ Raises(Compare(a, b, from, cond))
         /\ Raises(ToInt(a, from, bits, mode))
<1>1. {"invalid"} \subseteq Conditions /\ {"inexact"} \subseteq Conditions
  BY DEF Conditions
<1>2. Raises(Convert(a, from, to, mode)) /\ Raises(FromInt(v, to, mode))
  BY <1>1, RepackRaises, RoundPackRaises, DoneRaises DEF Convert, FromInt
<1>3. Raises(Compare(a, b, from, cond))
  BY <1>1, DoneRaises DEF Compare
<1>4. Raises(ToInt(a, from, bits, mode))
  BY <1>1, DoneRaises DEF ToInt
<1> QED BY <1>2, <1>3, <1>4

\* What an instruction hands to its commit: conditions of IEEE 754, or that it is left to
\* software; a comparison gives a truth value.
Honest(o) == o.flags \subseteq Conditions /\ o.unimplemented \in BOOLEAN

LEMMA GivenIsHonest ==
  ASSUME NEW o, Raises(o)
  PROVE  Honest(Given(o)) /\ Honest(NotDone)
  BY DEF Honest, Raises, Given, NotDone

LEMMA PolicyIsHonest ==
  ASSUME NEW o, NEW mode, Raises(o)
  PROVE  Honest(SubnormalPolicy(o, mode))
<1> DEFINE flushed == Done(IF Away(o.bits.neg, mode) THEN MinNormal(o.bits.neg) ELSE Zero(o.bits.neg),
                           o.flags \cup {"underflow", "inexact"})
<1>1. o.flags \cup {"underflow", "inexact"} \subseteq Conditions
  BY DEF Raises, Conditions
<1>2. Raises(flushed)
  BY <1>1, DoneRaises
<1> HIDE DEF flushed
<1>3. SubnormalPolicy(o, mode) \in {Given(o), NotDone, Given(flushed)}
  BY DEF SubnormalPolicy, flushed
<1> QED BY <1>2, <1>3, GivenIsHonest

LEMMA BinaryIsHonest ==
  ASSUME NEW i, NEW mode, i.op \in {"add", "sub", "mul", "div"}
  PROVE  Honest(Binary(i, mode))
<1> DEFINE o == CASE i.op = "add" -> AddUnpacked(i.a, i.b, F32, mode)
                  [] i.op = "sub" -> AddUnpacked(i.a, Negated(i.b), F32, mode)
                  [] i.op = "mul" -> Mul(i.a, i.b, F32, mode)
                  [] i.op = "div" -> Div(i.a, i.b, F32, mode)
<1>1. /\ i.op = "add" => o = AddUnpacked(i.a, i.b, F32, mode)
      /\ i.op = "sub" => o = AddUnpacked(i.a, Negated(i.b), F32, mode)
      /\ i.op = "mul" => o = Mul(i.a, i.b, F32, mode)
      /\ i.op = "div" => o = Div(i.a, i.b, F32, mode)
  BY Zenon
<1> HIDE DEF o
<1>2. Raises(o)
  BY <1>1, AddRaises, MulRaises, DivRaises
<1>3. Binary(i, mode) \in {NotDone, SubnormalPolicy(o, mode)}
  BY Zenon DEF Binary, o
<1> QED BY <1>2, <1>3, PolicyIsHonest, GivenIsHonest

LEMMA RegisterOpsAreHonest ==
  ASSUME NEW i, NEW mode
  PROVE  Honest(FpSqrt(i, mode)) /\ Honest(SignOp(i)) /\ Honest(ToInteger(i, mode))
<1>1. Honest(FpSqrt(i, mode))
  BY SqrtRaises, GivenIsHonest DEF FpSqrt
<1>2. Honest(SignOp(i))
  BY NanRaises, DoneRaises, GivenIsHonest DEF SignOp
<1>3. Honest(ToInteger(i, mode))
  BY ConversionsRaise, GivenIsHonest DEF ToInteger
<1> QED BY <1>1, <1>2, <1>3

LEMMA ConversionsAreHonest ==
  ASSUME NEW i, NEW mode
  PROVE  Honest(ConvertFloat(i, mode)) /\ Honest(ConvertInt(i, mode))
<1>1. Honest(ConvertFloat(i, mode))
  BY ConversionsRaise, PolicyIsHonest, GivenIsHonest DEF ConvertFloat
<1>2. Honest(ConvertInt(i, mode))
  BY ConversionsRaise, GivenIsHonest DEF ConvertInt
<1> QED BY <1>1, <1>2

\* Every instruction there is.
Operations == {"add", "sub", "mul", "div", "sqrt", "abs", "neg", "toint", "cvt", "fromint", "c"}

LEMMA OutcomeIsHonest ==
  ASSUME NEW i, i.op \in Operations
  PROVE  Honest(Outcome(i)) /\ (i.op = "c" => Outcome(i).bits \in BOOLEAN)
<1> DEFINE mode == Mode(fcsr.rm)
           o == Outcome(i)
<1>1. CASE i.op \in {"add", "sub", "mul", "div"}
  <2>1. o = Binary(i, mode)
    BY <1>1, Zenon DEF Outcome
  <2> HIDE DEF o, mode
  <2> QED BY <1>1, <2>1, BinaryIsHonest DEF o
<1>2. CASE i.op \in {"sqrt", "abs", "neg"}
  <2>1. i.op = "sqrt" => o = FpSqrt(i, mode)
    BY Zenon DEF Outcome
  <2>2. i.op \in {"abs", "neg"} => o = SignOp(i)
    BY Zenon DEF Outcome
  <2> HIDE DEF o, mode
  <2> QED BY <1>2, <2>1, <2>2, RegisterOpsAreHonest DEF o
<1>3. CASE i.op = "toint"
  <2>1. \E n : o = ToInteger(i, n)
    BY <1>3, Zenon DEF Outcome
  <2> HIDE DEF o, mode
  <2> QED BY <1>3, <2>1, RegisterOpsAreHonest DEF o
<1>4. CASE i.op \in {"cvt", "fromint"}
  <2>1. i.op = "cvt" => o = ConvertFloat(i, mode)
    BY Zenon DEF Outcome
  <2>2. i.op = "fromint" => o = ConvertInt(i, mode)
    BY Zenon DEF Outcome
  <2> HIDE DEF o, mode
  <2> QED BY <1>4, <2>1, <2>2, ConversionsAreHonest DEF o
<1>5. CASE i.op = "c"
  <2> DEFINE k == Compare(i.a, i.b, F32, i.cond)
  <2>1. o = Given(k)
    BY <1>5, Zenon DEF Outcome
  <2>2. k.bits \in BOOLEAN
    BY DEF Compare, Done
  <2> HIDE DEF o, mode
  <2>3. Honest(o)
    BY <2>1, ConversionsRaise, GivenIsHonest
  <2>4. o.bits = k.bits
    BY <2>1 DEF Given
  <2> QED BY <1>5, <2>2, <2>3, <2>4 DEF o
<1> QED BY <1>1, <1>2, <1>3, <1>4, <1>5 DEF Operations

LEMMA InstructionsAreKnown ==
  ASSUME NEW i \in Instructions
  PROVE  i.op \in Operations
  BY DEF Instructions, Single, FloatTo, IntegerTo, Operations

-----------------------------------------------------------------------------
FpuInv == fcsr \in ControlRegister /\ TrapOrCommit

LEMMA Ctc1Keeps ==
  ASSUME NEW w \in FcsrWrites, Ctc1(w)
  PROVE  FpuInv'
<1>1. w \in ControlRegister
  BY FpuAssumption
<1> QED BY <1>1 DEF FpuInv, TrapOrCommit, Ctc1

LEMMA CommitKeeps ==
  ASSUME FpuInv, NEW i, NEW o, Honest(o), i.op = "c" => o.bits \in BOOLEAN, Commit(i, o)
  PROVE  FpuInv'
<1> DEFINE raised == o.flags \cup (IF o.unimplemented THEN {"unimplemented"} ELSE {})
           trap == o.unimplemented \/ raised \cap fcsr.enables # {}
           cond == IF i.op = "c" THEN o.bits ELSE fcsr.c
<1>1. /\ fcsr \in ControlRegister /\ fcsr.c \in BOOLEAN /\ cond \in BOOLEAN
      /\ raised \subseteq Conditions \cup {"unimplemented"} /\ trap \in BOOLEAN
      /\ fcsr.enables \subseteq Conditions
  BY DEF FpuInv, ControlRegister, Honest
<1>2. o.unimplemented <=> "unimplemented" \in raised
  BY DEF Honest, Conditions
<1>3. last' = [instr |-> i, before |-> fcsr, trapped |-> trap, bits |-> IF trap THEN "old" ELSE o.bits]
  BY DEF Commit
<1>4. CASE trap
  <2>1. fcsr' = [fcsr EXCEPT !.cause = raised]
    BY <1>4 DEF Commit
  <2> HIDE DEF raised, trap, cond
  <2>2. /\ fcsr' \in ControlRegister /\ fcsr'.cause = raised /\ fcsr'.flags = fcsr.flags
        /\ fcsr'.c = fcsr.c /\ fcsr'.enables = fcsr.enables
        /\ [fcsr' EXCEPT !.cause = fcsr.cause, !.flags = fcsr.flags, !.c = fcsr.c] = fcsr
    BY <1>1, <2>1 DEF ControlRegister
  <2>3. trap <=> "unimplemented" \in raised \/ raised \cap fcsr.enables # {}
    BY <1>2 DEF trap
  <2> QED BY <1>3, <1>4, <2>2, <2>3 DEF FpuInv, TrapOrCommit
<1>5. CASE ~trap
  <2>1. fcsr' = [fcsr EXCEPT !.cause = raised, !.flags = fcsr.flags \cup raised, !.c = cond]
    BY <1>5 DEF Commit
  <2>2. raised \subseteq Conditions
    BY <1>5 DEF Honest
  <2> HIDE DEF raised, trap
  <2>3. /\ fcsr' \in ControlRegister /\ fcsr'.cause = raised /\ fcsr'.flags = fcsr.flags \cup raised
        /\ fcsr'.c = cond /\ fcsr'.enables = fcsr.enables
        /\ [fcsr' EXCEPT !.cause = fcsr.cause, !.flags = fcsr.flags, !.c = fcsr.c] = fcsr
    BY <1>1, <2>1, <2>2 DEF ControlRegister
  <2>4. trap <=> "unimplemented" \in raised \/ raised \cap fcsr.enables # {}
    BY <1>2 DEF trap
  <2> QED BY <1>3, <1>5, <2>3, <2>4 DEF FpuInv, TrapOrCommit
<1> QED BY <1>4, <1>5

\* An instruction of the FPU traps with nothing done or commits, whatever the formats, the
\* operands and what software has written to the control register (pipeline.rs fp_arith).
THEOREM CommitCorrect == FpuSpec => []TrapOrCommit
<1>1. FpuInit => FpuInv
  BY DEF FpuInit, FpuInv, TrapOrCommit, ControlRegister
<1>2. FpuInv /\ [FpuNext]_fpuVars => FpuInv'
  <2> SUFFICES ASSUME FpuInv, [FpuNext]_fpuVars PROVE FpuInv'
    OBVIOUS
  <2>1. ASSUME NEW w \in FcsrWrites, Ctc1(w) PROVE FpuInv'
    BY <2>1, Ctc1Keeps
  <2>2. ASSUME Execute PROVE FpuInv'
    <3>1. PICK i \in Instructions : Commit(i, Outcome(i))
      BY <2>2 DEF Execute, FpArith
    <3>2. Honest(Outcome(i)) /\ (i.op = "c" => Outcome(i).bits \in BOOLEAN)
      BY OutcomeIsHonest, InstructionsAreKnown
    <3> QED BY <3>1, <3>2, CommitKeeps
  <2>3. ASSUME UNCHANGED fpuVars PROVE FpuInv'
    BY <2>3 DEF fpuVars, FpuInv, TrapOrCommit
  <2> QED BY <2>1, <2>2, <2>3 DEF FpuNext
<1>3. FpuInv => TrapOrCommit
  BY DEF FpuInv
<1> QED BY <1>1, <1>2, <1>3, PTL DEF FpuSpec
=============================================================================
