-------------------------- MODULE AudioMixerProofs --------------------------
(***************************************************************************)
(* Proofs about the mixer, for every set of stream rates, every rate of    *)
(* the output, block and backlog: its rings stay bounded, ramps never      *)
(* overshoot, and each lane plays its stream as AudioLane says.            *)
(***************************************************************************)
EXTENDS AudioMixer, FiniteSetTheorems, TLAPS

(***************************************************************************)
(* Arithmetic.                                                             *)
(***************************************************************************)
LEMMA MaxOfTwo ==
  ASSUME NEW a \in Int, NEW b \in Int
  PROVE  Max({a, b}) = IF a >= b THEN a ELSE b
<1> DEFINE m == IF a >= b THEN a ELSE b
<1>1. m \in {a, b} /\ \A y \in {a, b} : m >= y
  OBVIOUS
<1>2. \A x \in {a, b} : (\A y \in {a, b} : x >= y) => x = m
  OBVIOUS
<1> HIDE DEF m
<1>3. Max({a, b}) = m
  BY <1>1, <1>2 DEF Max
<1> QED
  BY <1>3 DEF m

LEMMA MinOfTwo ==
  ASSUME NEW a \in Int, NEW b \in Int
  PROVE  Min({a, b}) = IF a <= b THEN a ELSE b
<1> DEFINE m == IF a <= b THEN a ELSE b
<1>1. m \in {a, b} /\ \A y \in {a, b} : m <= y
  OBVIOUS
<1>2. \A x \in {a, b} : (\A y \in {a, b} : x <= y) => x = m
  OBVIOUS
<1> HIDE DEF m
<1>3. Min({a, b}) = m
  BY <1>1, <1>2 DEF Min
<1> QED
  BY <1>3 DEF m

LEMMA Products ==
  ASSUME NEW a \in Int, NEW b \in Int, NEW n \in Nat \ {0}
  PROVE  /\ a * n \in Int
         /\ a >= 0 => a * n \in Nat
         /\ a < b => a * n + n <= b * n
         /\ a <= b => a * n <= b * n
         /\ (a + b) * n = a * n + b * n
         /\ (a - b) * n = a * n - b * n
BY SMT

LEMMA Division ==
  ASSUME NEW a \in Int, NEW n \in Nat \ {0}
  PROVE  /\ a \div n \in Int
         /\ (a \div n) * n <= a
         /\ a < (a \div n) * n + n
BY SMT

(***************************************************************************)
(* A lane.                                                                 *)
(***************************************************************************)
Lanes ==
  [open : BOOLEAN, head : 0..MaxFrames, tail : 0..MaxFrames, pos : Nat,
   gain : 0..Full, target : 0..Full, step : (-Full)..Full]

\* The read position has at most overrun the end of the ring by one step, and a
\* ramp leads to its target.
RingOK(l, r) ==
  /\ l.tail - l.head \in 0..Cap
  /\ l.pos < Max({OutRate, r})

RampOK(l) ==
  /\ l.step > 0 => l.gain <= l.target
  /\ l.step < 0 => l.gain >= l.target

LaneOK(l, r) == l \in Lanes /\ RingOK(l, r) /\ RampOK(l)

\* The output frames that find data are the first ones of the block.
LEMMA HeardFirst ==
  ASSUME NEW l \in Lanes, NEW r \in Rates
  PROVE  /\ Heard(l, r) \in 0..Block
         /\ \A i \in 0..(Block - 1) :
              i < Heard(l, r) <=> l.pos + i * r < (l.tail - l.head) * OutRate
<1>1. /\ r \in Nat \ {0} /\ OutRate \in Nat \ {0} /\ Block \in Nat \ {0}
      /\ l.pos \in Nat /\ l.tail - l.head \in Int
  BY RatesOK, SizesOK, BoundsOK DEF Lanes
<1> DEFINE m == (l.tail - l.head) * OutRate
           a == m - l.pos - 1
           q == a \div r
           k == IF q + 1 < 0 THEN 0 ELSE IF q + 1 > Block THEN Block ELSE q + 1
<1>2. m \in Int
  BY <1>1, Products
<1> HIDE DEF m
<1>3. q \in Int /\ q * r <= m - l.pos - 1 /\ m - l.pos - 1 < q * r + r
  <2>1. a \in Int
    BY <1>1, <1>2
  <2> HIDE DEF a
  <2>2. q \in Int /\ q * r <= a /\ a < q * r + r
    BY <1>1, <2>1, Division
  <2> QED
    BY <2>2 DEF a
<1>4. \A i \in Int : i * r \in Int /\ (l.pos + i * r < m <=> i <= q)
  <2> TAKE i \in Int
  <2>1. i * r \in Int /\ (i <= q => i * r <= q * r) /\ (q < i => q * r + r <= i * r)
        /\ q * r \in Int
    BY <1>1, <1>3, Products
  <2> HIDE DEF q
  <2> QED
    BY <1>1, <1>2, <1>3, <2>1
<1>5. k \in 0..Block
  BY <1>1, <1>3
<1> HIDE DEF q
<1>6. {i \in 0..(Block - 1) : l.pos + i * r < m} = 0..(k - 1)
  BY <1>1, <1>3, <1>4
<1>7. Heard(l, r) = k
  <2>1. Heard(l, r) = Cardinality(0..(k - 1))
    BY <1>6 DEF Heard, m
  <2> QED
    BY <1>5, <2>1, FS_Interval
<1>8. \A i \in 0..(Block - 1) : i < k <=> l.pos + i * r < m
  BY <1>1, <1>3, <1>4
<1> QED
  BY <1>5, <1>7, <1>8 DEF m

\* What is erased after a block, and what is left of the position.
LEMMA PassedWithin ==
  ASSUME NEW l \in Lanes, NEW r \in Rates, RingOK(l, r)
  PROVE  LET pos == l.pos + Heard(l, r) * r
         IN  /\ pos \in Nat
             /\ Passed(l, pos) \in 0..(l.tail - l.head)
             /\ Passed(l, pos) * OutRate \in Int
             /\ pos - Passed(l, pos) * OutRate \in Nat
             /\ pos - Passed(l, pos) * OutRate < Max({OutRate, r})
<1>1. /\ r \in Nat \ {0} /\ OutRate \in Nat \ {0} /\ Block \in Nat \ {0}
      /\ l.pos \in Nat /\ l.tail - l.head \in Nat
  BY RatesOK, SizesOK, BoundsOK DEF Lanes, RingOK
<1> DEFINE n == l.tail - l.head
           k == Heard(l, r)
           pos == l.pos + k * r
           q == pos \div OutRate
<1>2. /\ k \in 0..Block
      /\ \A i \in 0..(Block - 1) : i < k <=> l.pos + i * r < n * OutRate
  BY HeardFirst
<1>3. Max({OutRate, r}) = IF OutRate >= r THEN OutRate ELSE r
  BY <1>1, MaxOfTwo
<1> HIDE DEF k
<1>4. k * r \in Nat /\ n * OutRate \in Nat
  BY <1>1, <1>2, Products
<1>5. pos \in Nat
  BY <1>1, <1>4
<1> HIDE DEF pos
<1>6. q \in Int /\ q * OutRate <= pos /\ pos < q * OutRate + OutRate /\ q * OutRate \in Int
  BY <1>1, <1>5, Division, Products
<1>7. q \in Nat
  BY <1>1, <1>5, <1>6
<1> HIDE DEF q
<1>8. Passed(l, pos) = IF q <= n THEN q ELSE n
  BY <1>1, <1>7, MinOfTwo DEF Passed, q
<1>9. n < q => n * OutRate + OutRate <= q * OutRate
  BY <1>1, <1>6, Products
<1>10. k > 0 => pos < n * OutRate + r
  <2> SUFFICES ASSUME k > 0 PROVE pos < n * OutRate + r
    OBVIOUS
  <2>0. k - 1 \in 0..(Block - 1) /\ k - 1 < k
    BY <1>1, <1>2
  <2>1. l.pos + (k - 1) * r < n * OutRate
    BY <1>2, <2>0
  <2>2. (k - 1) * r = k * r - 1 * r
    BY <1>1, <1>2, Products
  <2> QED
    BY <1>1, <1>4, <2>1, <2>2 DEF pos
<1>11. k = 0 => pos = l.pos
  BY <1>1 DEF pos
<1>12. CASE q <= n
  BY <1>1, <1>3, <1>5, <1>6, <1>7, <1>8, <1>12 DEF pos, k
<1>13. CASE q > n
  <2>1. pos - n * OutRate \in Nat
    BY <1>1, <1>4, <1>5, <1>6, <1>9, <1>13
  <2>2. pos - n * OutRate < Max({OutRate, r})
    BY <1>1, <1>2, <1>3, <1>4, <1>5, <1>10, <1>11 DEF RingOK
  <2> QED
    BY <1>1, <1>4, <1>5, <1>7, <1>8, <1>13, <2>1, <2>2 DEF pos, k
<1> QED
  BY <1>6, <1>7, <1>1, <1>12, <1>13

\* The gain a lane has next lies between the one it has and its target.
Between(g, l) == g \in Min({l.gain, l.target})..Max({l.gain, l.target})

LEMMA GainMoves ==
  ASSUME NEW l \in Lanes, RampOK(l), NEW n \in Nat
  PROVE  LET g == GainAfter(l, n)
         IN  /\ g \in 0..Full
             /\ Between(g, l)
             /\ l.step > 0 => g <= l.target
             /\ l.step < 0 => g >= l.target
<1>1. l.gain \in 0..Full /\ l.target \in 0..Full /\ l.step \in Int /\ Full \in Nat
  BY SizesOK DEF Lanes
<1>2. /\ Max({l.gain, l.target}) = IF l.gain >= l.target THEN l.gain ELSE l.target
      /\ Min({l.gain, l.target}) = IF l.gain <= l.target THEN l.gain ELSE l.target
  BY <1>1, MaxOfTwo, MinOfTwo
<1> DEFINE d == n * l.step
<1>3. /\ d \in Int
      /\ l.step > 0 => d >= 0
      /\ l.step < 0 => d <= 0
      /\ l.step = 0 => d = 0
  BY <1>1, SMT
<1> HIDE DEF d
<1>4. CASE l.step > 0
  <2>1. GainAfter(l, n) = IF l.target <= l.gain + d THEN l.target ELSE l.gain + d
    BY <1>1, <1>3, <1>4, MinOfTwo DEF GainAfter, d
  <2> QED
    BY <1>1, <1>2, <1>3, <1>4, <2>1 DEF RampOK, Between
<1>5. CASE l.step < 0
  <2>1. GainAfter(l, n) = IF l.target >= l.gain + d THEN l.target ELSE l.gain + d
    BY <1>1, <1>3, <1>5, MaxOfTwo DEF GainAfter, d
  <2> QED
    BY <1>1, <1>2, <1>3, <1>5, <2>1 DEF RampOK, Between
<1>6. CASE l.step = 0
  <2>1. GainAfter(l, n) = l.gain
    BY <1>1, <1>3, <1>6, MaxOfTwo DEF GainAfter, d
  <2> QED
    BY <1>1, <1>2, <1>6, <2>1 DEF Between
<1> QED
  BY <1>1, <1>4, <1>5, <1>6

\* Where in its stream the lane reads next, in 1/OutRate frame.
At(l) == l.head * OutRate + l.pos

\* A block is mixed: the lane has moved by what was heard, and its ramp on.
LEMMA MixedStep ==
  ASSUME NEW r \in Rates, LaneOK(lane[r], r)
  PROVE  /\ LaneOK(Mixed(r), r)
         /\ Mixed(r).open = lane[r].open
         /\ Mixed(r).tail = lane[r].tail
         /\ Between(Mixed(r).gain, lane[r])
         /\ At(Mixed(r)) = At(lane[r]) + Heard(lane[r], r) * r
<1> DEFINE l == lane[r]
           h == Heard(l, r)
           pos == l.pos + h * r
           p == Passed(l, pos)
           n == Min({Block, h + 1})
           g == GainAfter(l, n)
<1>1. l \in Lanes /\ RingOK(l, r) /\ RampOK(l)
  BY DEF LaneOK
<1>2. /\ pos \in Nat /\ p \in 0..(l.tail - l.head) /\ p * OutRate \in Int
      /\ pos - p * OutRate \in Nat /\ pos - p * OutRate < Max({OutRate, r})
  BY <1>1, PassedWithin
<1>3. h \in 0..Block
  BY <1>1, HeardFirst
<1>4. n \in Nat
  BY <1>3, SizesOK, MinOfTwo
<1>5. g \in 0..Full /\ Between(g, l) /\ (l.step > 0 => g <= l.target)
      /\ (l.step < 0 => g >= l.target)
  BY <1>1, <1>4, GainMoves
<1>6. Mixed(r) = [l EXCEPT !.gain = g, !.head = @ + p, !.pos = pos - p * OutRate]
  BY DEF Mixed
<1>7. l.head \in Nat /\ l.tail \in 0..MaxFrames /\ l.head <= l.tail /\ MaxFrames \in Nat
      /\ OutRate \in Nat \ {0}
      /\ h * r \in Nat /\ l.pos \in Nat
  <2>1. r \in Nat \ {0}
    BY RatesOK
  <2>2. h \in Int /\ h >= 0
    BY <1>3, SizesOK
  <2>3. h * r \in Nat
    BY <2>1, <2>2, Products
  <2> QED
    BY <1>1, <2>3, BoundsOK, RatesOK DEF Lanes, RingOK
<1> HIDE DEF g, n, p, pos, h
<1>8. Mixed(r) \in Lanes /\ l.tail - (l.head + p) \in 0..Cap
  <2>1. l.tail - l.head \in 0..Cap /\ Cap \in Nat
    BY <1>1, SizesOK DEF RingOK
  <2>2. p \in Nat /\ p <= l.tail - l.head
    BY <1>2, <1>7
  <2>3. l.head + p \in 0..MaxFrames /\ l.tail - (l.head + p) \in 0..Cap
    BY <1>7, <2>1, <2>2
  <2>4. pos - p * OutRate \in Nat /\ g \in 0..Full
    BY <1>2, <1>5
  <2> QED
    BY <1>1, <1>6, <2>3, <2>4 DEF Lanes
<1>9. /\ Mixed(r).head = l.head + p /\ Mixed(r).tail = l.tail /\ Mixed(r).open = l.open
      /\ Mixed(r).pos = pos - p * OutRate /\ Mixed(r).gain = g
      /\ Mixed(r).target = l.target /\ Mixed(r).step = l.step
  BY <1>1, <1>6 DEF Lanes
<1>10. RingOK(Mixed(r), r)
  BY <1>2, <1>8, <1>9 DEF RingOK
<1>11. RampOK(Mixed(r))
  BY <1>5, <1>9 DEF RampOK
<1>12. At(Mixed(r)) = At(l) + h * r
  <2>1. (l.head + p) * OutRate = l.head * OutRate + p * OutRate
        /\ l.head * OutRate \in Int
    BY <1>2, <1>7, Products
  <2> QED
    BY <1>2, <1>7, <1>9, <2>1 DEF At, pos
<1> QED
  BY <1>5, <1>8, <1>9, <1>10, <1>11, <1>12 DEF LaneOK, h

\* n frames are appended: what is over the cap is skipped, no more.
LEMMA AppendedStep ==
  ASSUME NEW r \in Rates, NEW l \in Lanes, LaneOK(l, r), NEW n \in Nat,
         l.tail + n <= MaxFrames
  PROVE  LET m == Appended(l, n)
             oldest == (m.tail - Cap) * OutRate
         IN  /\ LaneOK(m, r)
             /\ m.open = TRUE
             /\ m.tail = l.tail + n
             /\ m.gain = l.gain
             /\ oldest \in Int /\ At(l) \in Nat
             /\ At(m) = IF At(l) < oldest THEN oldest ELSE At(l)
             /\ n = 0 => At(l) >= oldest
<1> DEFINE tail == l.tail + n
           head == Max({l.head, tail - Cap})
           pos == Max({l.pos - (head - l.head) * OutRate, 0})
           m == Appended(l, n)
           oldest == (tail - Cap) * OutRate
<1>1. /\ l \in Lanes /\ l.head \in Nat /\ l.tail \in Nat /\ l.head <= l.tail
      /\ l.tail - l.head <= Cap /\ l.pos \in Nat /\ l.pos < Max({OutRate, r})
      /\ Cap \in Nat /\ MaxFrames \in Nat /\ OutRate \in Nat \ {0} /\ r \in Nat \ {0}
  BY RatesOK, SizesOK, BoundsOK DEF LaneOK, Lanes, RingOK
<1>2. head = IF l.head >= tail - Cap THEN l.head ELSE tail - Cap
  BY <1>1, MaxOfTwo
<1>3. m = [l EXCEPT !.open = TRUE, !.tail = tail, !.head = head, !.pos = pos]
  BY DEF Appended
<1> HIDE DEF head
<1>4. /\ tail \in 0..MaxFrames /\ head \in 0..MaxFrames /\ head <= tail
      /\ tail - head <= Cap /\ head >= l.head
  BY <1>1, <1>2
<1>5. /\ l.head * OutRate \in Nat /\ head * OutRate \in Nat /\ oldest \in Int
      /\ (head - l.head) * OutRate = head * OutRate - l.head * OutRate
      /\ l.head * OutRate <= head * OutRate
  BY <1>1, <1>4, Products
<1>6. pos = IF l.pos - (head * OutRate - l.head * OutRate) >= 0
            THEN l.pos - (head * OutRate - l.head * OutRate) ELSE 0
  BY <1>1, <1>5, MaxOfTwo
<1>7. pos \in Nat /\ pos <= l.pos
  BY <1>1, <1>5, <1>6
<1> HIDE DEF pos, tail, m, oldest
<1>8. /\ m \in Lanes
      /\ m.open = TRUE /\ m.tail = tail /\ m.head = head /\ m.pos = pos
      /\ m.gain = l.gain /\ m.target = l.target /\ m.step = l.step
  BY <1>1, <1>3, <1>4, <1>7 DEF Lanes
<1>9. Max({OutRate, r}) = IF OutRate >= r THEN OutRate ELSE r
  BY <1>1, MaxOfTwo
<1>10. RingOK(m, r)
  BY <1>1, <1>4, <1>7, <1>8, <1>9 DEF RingOK
<1>11. RampOK(m)
  BY <1>8 DEF RampOK, LaneOK
<1>12. At(l) = l.head * OutRate + l.pos /\ At(m) = head * OutRate + pos
  BY <1>8 DEF At
<1>13. At(m) = IF At(l) < head * OutRate THEN head * OutRate ELSE At(l)
  BY <1>1, <1>5, <1>6, <1>12
<1>14. At(m) = IF At(l) < oldest THEN oldest ELSE At(l)
  <2>1. CASE l.head >= tail - Cap
    <3>1. head = l.head /\ oldest <= l.head * OutRate
      BY <1>1, <1>2, <1>4, <2>1, Products DEF oldest
    <3> QED
      BY <1>1, <1>5, <1>12, <1>13, <3>1
  <2>2. CASE ~(l.head >= tail - Cap)
    BY <1>2, <1>13, <2>2 DEF oldest
  <2> QED
    BY <2>1, <2>2
<1>15. n = 0 => At(l) >= oldest
  <2> SUFFICES ASSUME n = 0 PROVE At(l) >= oldest
    OBVIOUS
  <2>1. tail - Cap <= l.head /\ tail - Cap \in Int
    BY <1>1 DEF tail
  <2>2. oldest <= l.head * OutRate
    BY <1>1, <2>1, Products DEF oldest
  <2> QED
    BY <1>1, <1>5, <1>12, <2>2
<1>16. oldest = (m.tail - Cap) * OutRate
  BY <1>8, Zenon DEF oldest
<1>17. m.tail = l.tail + n
  BY <1>8 DEF tail
<1>18. LaneOK(m, r) /\ At(l) \in Nat
  BY <1>1, <1>5, <1>8, <1>10, <1>11, <1>12 DEF LaneOK
<1> HIDE DEF oldest
<1> QED
  BY <1>5, <1>8, <1>14, <1>15, <1>16, <1>17, <1>18, Zenon DEF m

LEMMA NewLaneOK ==
  ASSUME NEW r \in Rates, NEW open \in BOOLEAN, NEW n \in 0..MaxFrames
  PROVE  LaneOK(NewLane(open, n), r)
<1>1. /\ OutRate \in Nat \ {0} /\ r \in Nat \ {0} /\ Full \in Nat /\ Cap \in Nat
      /\ MaxFrames \in Nat
  BY RatesOK, SizesOK, BoundsOK
<1>2. Max({OutRate, r}) > 0
  BY <1>1, MaxOfTwo
<1> QED
  BY <1>1, <1>2 DEF NewLane, LaneOK, Lanes, RingOK, RampOK

\* A ramp begins.  It may be of no frames, and then it takes one.
Ducked(l, r, level, secs) ==
  [l EXCEPT !.open = TRUE, !.target = level,
            !.step = (level - l.gain) \div RampFrames(r, secs)]

LEMMA DuckStep ==
  ASSUME NEW r \in Rates, NEW l \in Lanes, LaneOK(l, r),
         NEW level \in {0, Full}, NEW secs \in {0, 1}
  PROVE  LET m == Ducked(l, r, level, secs)
         IN  /\ LaneOK(m, r)
             /\ m.tail = l.tail /\ At(m) = At(l) /\ m.gain = l.gain
<1>1. r \in Nat \ {0} /\ l \in Lanes /\ l.gain \in 0..Full /\ Full \in Nat
  BY RatesOK, SizesOK DEF LaneOK, Lanes
<1> DEFINE k == RampFrames(r, secs)
           d == level - l.gain
           q == d \div k
           m == Ducked(l, r, level, secs)
<1>2. k \in Nat \ {0}
  <2>1. secs * r \in Int
    BY <1>1, SMT
  <2> QED
    BY <2>1, MaxOfTwo DEF RampFrames
<1>3. d \in (-Full)..Full
  BY <1>1
<1> HIDE DEF k, d
<1>4. q \in Int /\ q * k <= d /\ d < q * k + k
  BY <1>2, <1>3, <1>1, Division
<1> HIDE DEF q
\* The quotient has the sign of the difference and is no larger.
<1>5. /\ q > 0 => d > 0 /\ q <= d
      /\ q < 0 => d < 0 /\ q >= d
  BY <1>1, <1>2, <1>3, <1>4, SMT
<1>6. q \in (-Full)..Full
  BY <1>1, <1>3, <1>4, <1>5
<1>7. m \in Lanes /\ level \in 0..Full
  <2>1. m = [l EXCEPT !.open = TRUE, !.target = level, !.step = q]
    BY DEF q, d, k, Ducked
  <2>2. level \in 0..Full
    BY <1>1
  <2> QED
    BY <1>1, <1>6, <2>1, <2>2 DEF Lanes
<1>8. /\ m.head = l.head /\ m.tail = l.tail /\ m.pos = l.pos /\ m.gain = l.gain
      /\ m.target = level /\ m.step = q
  BY <1>1 DEF Lanes, q, d, k, Ducked
<1>9. RampOK(m)
  BY <1>1, <1>5, <1>7, <1>8 DEF RampOK, d
<1> QED
  BY <1>7, <1>8, <1>9 DEF LaneOK, RingOK, At

(***************************************************************************)
(* The invariant, and what each step does to a lane.                       *)
(***************************************************************************)
IInv ==
  /\ TypeOK
  /\ lane \in [Rates -> Lanes]
  /\ \A r \in Rates : LaneOK(lane[r], r)

\* The lane of stream r keeps its promises in this step.
LaneKeeps(r) ==
  /\ LaneOK(lane[r], r)'
  /\ lane[r].open /\ lane'[r].open => Between(lane'[r].gain, lane[r])
  /\ Lane(r)!LaneStep

LEMMA HeardKeeps ==
  ASSUME NEW r \in Rates, LaneOK(lane[r], r), lane'[r] = Mixed(r)
  PROVE  LaneKeeps(r)
<1> DEFINE l == lane[r]
           k == Heard(l, r)
<1>1. /\ LaneOK(lane'[r], r) /\ lane'[r].tail = l.tail /\ Between(lane'[r].gain, l)
      /\ At(lane'[r]) = At(l) + k * r
  BY MixedStep
<1>2. /\ k \in 0..Block
      /\ \A i \in 0..(Block - 1) : i < k <=> l.pos + i * r < (l.tail - l.head) * OutRate
  BY HeardFirst DEF LaneOK
<1>3. /\ r \in Nat \ {0} /\ OutRate \in Nat \ {0} /\ Block \in Nat \ {0}
      /\ l.pos \in Nat /\ l.head \in Int /\ l.tail \in Int
  BY RatesOK, SizesOK, BoundsOK DEF LaneOK, Lanes
<1> HIDE DEF k
<1>4. /\ (l.tail - l.head) * OutRate = l.tail * OutRate - l.head * OutRate
      /\ l.tail * OutRate \in Int /\ l.head * OutRate \in Int
  BY <1>3, Products
<1>5. \A i \in 0..(Block - 1) : i * r \in Int /\ (i < k <=> At(l) + i * r < l.tail * OutRate)
  <2> TAKE i \in 0..(Block - 1)
  <2>1. i * r \in Int
    BY <1>3, Products
  <2> QED
    BY <1>2, <1>3, <1>4, <2>1 DEF At
<1>6. CASE k = 0
  <2>1. At(lane'[r]) = At(l)
    BY <1>1, <1>3, <1>4, <1>6 DEF At
  <2> QED
    BY <1>1, <2>1 DEF LaneKeeps, Lane!LaneStep, Lane!lvars, At
<1>7. CASE k # 0
  <2>1. k \in 1..Block /\ k - 1 \in 0..(Block - 1) /\ k - 1 < k
    BY <1>2, <1>3, <1>7
  <2>2. At(l) + (k - 1) * r < l.tail * OutRate
    BY <1>5, <2>1
  <2>3. k = Block \/ (k \in 0..(Block - 1) /\ ~(k < k))
    BY <1>3, <2>1
  <2>4. At(l) \in Int /\ k * r \in Int /\ l.tail * OutRate \in Int
    BY <1>3, <1>4, <2>1, Products DEF At
  <2>5. k = Block \/ At(l) + k * r >= l.tail * OutRate
    BY <1>5, <2>3, <2>4
  <2>6. Lane(r)!Hear
    BY <1>1, <2>1, <2>2, <2>5 DEF Lane!Hear, Lane!End, At
  <2> QED
    BY <1>1, <2>6 DEF LaneKeeps, Lane!LaneStep, Lane!LaneNext
<1> QED
  BY <1>6, <1>7

LEMMA SameGain ==
  ASSUME NEW r \in Rates, NEW l \in Lanes PROVE Between(l.gain, l)
<1>1. l.gain \in Int /\ l.target \in Int
  BY SizesOK DEF Lanes
<1> QED
  BY <1>1, MaxOfTwo, MinOfTwo DEF Between

\* Neither the reading position nor the gain has moved.
LEMMA StaysKeeps ==
  ASSUME NEW r \in Rates, LaneOK(lane[r], r), LaneOK(lane'[r], r),
         lane'[r].tail = lane[r].tail, At(lane'[r]) = At(lane[r]),
         lane'[r].gain = lane[r].gain
  PROVE  LaneKeeps(r)
<1>1. Between(lane'[r].gain, lane[r])
  BY SameGain DEF LaneOK
<1> QED
  BY <1>1 DEF LaneKeeps, Lane!LaneStep, Lane!lvars, At

LEMMA SubmitKeeps ==
  ASSUME NEW r \in Rates, LaneOK(lane[r], r), NEW n \in Nat, lane[r].tail + n <= MaxFrames,
         lane'[r] = Appended(lane[r], n)
  PROVE  LaneKeeps(r)
<1> DEFINE l == lane[r]
           m == lane'[r]
           oldest == (m.tail - Cap) * OutRate
<1>1. /\ LaneOK(m, r) /\ m.tail = l.tail + n /\ m.gain = l.gain
      /\ oldest \in Int /\ At(l) \in Nat
      /\ At(m) = IF At(l) < oldest THEN oldest ELSE At(l)
      /\ n = 0 => At(l) >= oldest
  <2> DEFINE a == Appended(l, n)
             o == (a.tail - Cap) * OutRate
  <2>1. /\ LaneOK(a, r) /\ a.tail = l.tail + n /\ a.gain = l.gain
        /\ o \in Int /\ At(l) \in Nat
        /\ At(a) = IF At(l) < o THEN o ELSE At(l)
        /\ n = 0 => At(l) >= o
    <3>1. l \in Lanes /\ LaneOK(l, r) /\ l.tail + n <= MaxFrames
      BY DEF LaneOK
    <3> HIDE DEF l
    <3> QED
      BY <3>1, AppendedStep
  <2>2. m = a
    OBVIOUS
  <2> QED
    BY <2>1, <2>2
<1>2. l.tail \in Int
  BY BoundsOK DEF LaneOK, Lanes
<1> HIDE DEF m
<1>3. CASE n = 0
  <2>1. m.tail = l.tail /\ At(m) = At(l)
    BY <1>1, <1>2, <1>3
  <2> QED
    BY <1>1, <2>1, StaysKeeps DEF m
<1>4. CASE n # 0
  <2>1. m.tail > l.tail
    BY <1>1, <1>2, <1>4
  <2>2. Lane(r)!Feed
    BY <1>1, <2>1 DEF Lane!Feed, At, m
  <2>3. Between(m.gain, l)
    BY <1>1, SameGain DEF LaneOK
  <2> QED
    BY <1>1, <2>2, <2>3 DEF LaneKeeps, Lane!LaneStep, Lane!LaneNext, m
<1> QED
  BY <1>3, <1>4

LEMMA ForgetKeeps ==
  ASSUME NEW r \in Rates, LaneOK(lane[r], r), Silent(r),
         lane'[r] = NewLane(FALSE, lane[r].tail)
  PROVE  LaneKeeps(r)
<1>1. /\ lane[r].tail \in 0..MaxFrames /\ lane[r].head = lane[r].tail /\ lane[r].pos \in Nat
      /\ OutRate \in Nat \ {0} /\ lane[r].tail \in Int
  BY RatesOK, BoundsOK DEF Silent, LaneOK, Lanes
<1>2. LaneOK(lane'[r], r)
  BY <1>1, NewLaneOK
<1>3. lane'[r].open = FALSE /\ lane'[r].head = lane[r].tail /\ lane'[r].tail = lane[r].tail
      /\ lane'[r].pos = 0
  BY DEF NewLane
<1>4. lane[r].tail * OutRate \in Int
  BY <1>1, Products
<1>5. Lane(r)!Forget
  <2>1. lane[r].tail * OutRate + lane[r].pos >= lane[r].tail * OutRate
        /\ lane[r].tail * OutRate + 0 = lane[r].tail * OutRate
    BY <1>1, <1>4
  <2> QED
    BY <1>1, <1>3, <2>1 DEF Lane!Forget, Lane!End
<1> QED
  BY <1>2, <1>3, <1>5 DEF LaneKeeps, Lane!LaneStep, Lane!LaneNext

(***************************************************************************)
(* The invariant holds initially and is kept.                              *)
(***************************************************************************)
Flags ==
  /\ running \in BOOLEAN
  /\ playback \in {"off", "top", "open", "write", "done"}
  /\ pcm \in BOOLEAN
  /\ main \in {"new", "up", "joining", "stopped"}
  /\ ducks \in 0..MaxDucks

LEMMA IInvParts ==
  IInv <=> Flags /\ lane \in [Rates -> Lanes] /\ \A r \in Rates : LaneOK(lane[r], r)
<1> SUFFICES ASSUME lane \in [Rates -> Lanes]
             PROVE  TypeOK <=> Flags
  BY DEF IInv
<1>1. \A r \in Rates :
        /\ lane[r].open \in BOOLEAN
        /\ lane[r].head \in 0..MaxFrames /\ lane[r].tail \in 0..MaxFrames
        /\ lane[r].pos \in Nat
        /\ lane[r].gain \in 0..Full /\ lane[r].target \in 0..Full
        /\ lane[r].step \in (-Full)..Full
  BY DEF Lanes
<1> QED
  BY <1>1 DEF TypeOK, Flags

LEMMA IInvInit == Init => IInv
<1> SUFFICES ASSUME Init PROVE IInv
  OBVIOUS
<1>1. 0 \in 0..MaxFrames /\ 0 \in 0..MaxDucks
  BY BoundsOK
<1>2. \A r \in Rates : LaneOK(NewLane(FALSE, 0), r)
  BY <1>1, NewLaneOK
<1>4. Flags
  BY <1>1 DEF Init, Flags
<1>3. lane = [r \in Rates |-> NewLane(FALSE, 0)]
  BY DEF Init
<1> QED
  BY <1>2, <1>3, <1>4, IInvParts DEF LaneOK

LEMMA LanesStep ==
  ASSUME IInv, [Next]_vars
  PROVE  \A r \in Rates : LaneKeeps(r)
<1>1. lane \in [Rates -> Lanes] /\ \A r \in Rates : LaneOK(lane[r], r)
  BY DEF IInv
<1>2. CASE UNCHANGED lane
  BY <1>1, <1>2, StaysKeeps
<1>3. ASSUME NEW q \in Rates, NEW n \in 0..MaxFrames, Submit(q, n)
      PROVE  \A r \in Rates : LaneKeeps(r)
  <2>1. /\ lane[q].tail + n <= MaxFrames /\ n \in Nat
        /\ lane'[q] = Appended(lane[q], n)
        /\ \A r \in Rates \ {q} : lane'[r] = lane[r]
    BY <1>1, <1>3, BoundsOK DEF Submit
  <2> QED
    BY <1>1, <2>1, StaysKeeps, SubmitKeeps
<1>4. ASSUME NEW q \in Rates, NEW level \in {0, Full}, NEW secs \in {0, 1},
             Duck(q, level, secs)
      PROVE  \A r \in Rates : LaneKeeps(r)
  <2> DEFINE m == Ducked(lane[q], q, level, secs)
  <2>1. /\ lane'[q] = m
        /\ \A r \in Rates \ {q} : lane'[r] = lane[r]
    BY <1>1, <1>4 DEF Duck, Ducked
  <2>2. LaneOK(m, q) /\ m.tail = lane[q].tail /\ At(m) = At(lane[q]) /\ m.gain = lane[q].gain
    BY <1>1, DuckStep
  <2> HIDE DEF m
  <2>3. LaneKeeps(q)
    BY <1>1, <2>1, <2>2, StaysKeeps
  <2> QED
    BY <1>1, <2>1, <2>3, StaysKeeps
<1>5. ASSUME NEW gone \in SUBSET Rates, MixBlock(gone) \/ Idle(gone)
      PROVE  \A r \in Rates : LaneKeeps(r)
  <2> SUFFICES ASSUME NEW r \in Rates PROVE LaneKeeps(r)
    OBVIOUS
  <2>1. CASE r \in gone
    <3>1. Silent(r) /\ lane'[r] = NewLane(FALSE, lane[r].tail)
      BY <1>5, <2>1 DEF MixBlock, Idle, Stale, Kept
    <3> QED
      BY <1>1, <3>1, ForgetKeeps
  <2>2. CASE r \notin gone
    <3>1. lane'[r] = Mixed(r) \/ lane'[r] = lane[r]
      BY <1>5, <2>2 DEF MixBlock, Idle, Kept
    <3> QED
      BY <1>1, <3>1, HeardKeeps, StaysKeeps
  <2> QED
    BY <2>1, <2>2
<1>6. ASSUME Start \/ Stop \/ JoinAndClose \/ DeviceReady \/ DeviceFails \/ WriteEnds
             \/ LoopEnds \/ Over \/ UNCHANGED vars
      PROVE  UNCHANGED lane
  BY <1>6
     DEF Start, Stop, JoinAndClose, DeviceReady, DeviceFails, WriteEnds, LoopEnds, Over, vars
<1> QED
  BY <1>2, <1>3, <1>4, <1>5, <1>6 DEF Next, Playback

LEMMA FlagsStep ==
  ASSUME Flags, [Next]_vars
  PROVE  Flags'
<1> USE DEF Flags
<1>1. CASE UNCHANGED vars
  BY <1>1 DEF vars
<1>2. CASE Start \/ Stop \/ JoinAndClose
  BY <1>2 DEF Start, Stop, JoinAndClose
<1>3. ASSUME NEW r \in Rates, NEW n \in 0..MaxFrames, Submit(r, n) PROVE Flags'
  BY <1>3 DEF Submit
<1>4. ASSUME NEW r \in Rates, NEW level \in {0, Full}, NEW secs \in {0, 1},
             Duck(r, level, secs)
      PROVE  Flags'
  BY <1>4, BoundsOK DEF Duck
<1>5. CASE Playback
  BY <1>5 DEF Playback, MixBlock, Idle, DeviceReady, DeviceFails, WriteEnds, LoopEnds
<1>6. CASE Over
  BY <1>6 DEF Over, vars
<1> QED
  BY <1>1, <1>2, <1>3, <1>4, <1>5, <1>6 DEF Next

\* lane stays a function on the rates.
LEMMA DomainStep ==
  ASSUME IInv, [Next]_vars
  PROVE  lane' = [r \in Rates |-> lane'[r]]
<1>1. lane = [r \in Rates |-> lane[r]]
  BY DEF IInv
<1>2. ASSUME NEW gone \in SUBSET Rates, MixBlock(gone) \/ Idle(gone)
      PROVE  lane' = [r \in Rates |-> lane'[r]]
  BY <1>2 DEF MixBlock, Idle
<1>3. ASSUME NEW q \in Rates,
             \/ \E n \in 0..MaxFrames : Submit(q, n)
             \/ \E level \in {0, Full}, secs \in {0, 1} : Duck(q, level, secs)
      PROVE  lane' = [r \in Rates |-> lane'[r]]
  BY <1>1, <1>3 DEF Submit, Duck
<1>4. CASE Start \/ Stop \/ JoinAndClose \/ DeviceReady \/ DeviceFails \/ WriteEnds
           \/ LoopEnds \/ Over \/ UNCHANGED vars
  BY <1>1, <1>4
     DEF Start, Stop, JoinAndClose, DeviceReady, DeviceFails, WriteEnds, LoopEnds, Over, vars
<1> QED
  BY <1>2, <1>3, <1>4 DEF Next, Playback

LEMMA IInvStep ==
  ASSUME IInv, [Next]_vars
  PROVE  IInv'
<1>1. Flags'
  BY IInvParts, FlagsStep
<1>2. \A r \in Rates : LaneOK(lane'[r], r)
  BY LanesStep DEF LaneKeeps
<1>3. lane' \in [Rates -> Lanes]
  BY <1>2, DomainStep DEF LaneOK
<1>4. TypeOK'
  <2>1. \A r \in Rates :
          /\ lane'[r].open \in BOOLEAN
          /\ lane'[r].head \in 0..MaxFrames /\ lane'[r].tail \in 0..MaxFrames
          /\ lane'[r].pos \in Nat
          /\ lane'[r].gain \in 0..Full /\ lane'[r].target \in 0..Full
          /\ lane'[r].step \in (-Full)..Full
    BY <1>3 DEF Lanes
  <2> QED
    BY <1>1, <1>3, <2>1 DEF TypeOK, Flags
<1> QED
  BY <1>2, <1>3, <1>4 DEF IInv

(***************************************************************************)
(* The theorems.                                                           *)
(***************************************************************************)
LEMMA IInvAlways == Spec => []IInv
<1>1. IInv /\ [Next]_vars => IInv'
  BY IInvStep
<1> QED
  BY <1>1, IInvInit, PTL DEF Spec

\* Rings, positions and gains keep their types: no ramp leaves 0..Full and no
\* position is negative, whatever the rates.
THEOREM TypeCorrect == Spec => []TypeOK
<1>1. IInv => TypeOK
  BY DEF IInv
<1> QED
  BY <1>1, IInvAlways, PTL

\* "keep pos consistent" (audio_alsa.cpp:129): the ring never holds more than the
\* cap, and the read position is less than a frame in, or has overrun the end by
\* less than one step.
THEOREM RingsAreBounded == Spec => []RingHoldsTheUnread
<1>1. IInv => RingHoldsTheUnread
  BY DEF IInv, LaneOK, RingOK, RingHoldsTheUnread
<1> QED
  BY <1>1, IInvAlways, PTL

\* A ramp never overshoots or turns back, however ramps interrupt each other and
\* whatever the length of a block.
THEOREM RampsNeverOvershoot == Spec => NoOvershoot
<1>1. IInv /\ [Next]_vars =>
        [\A r \in Rates :
           lane[r].open /\ lane'[r].open =>
             lane'[r].gain \in
               Min({lane[r].gain, lane[r].target})..Max({lane[r].gain, lane[r].target})]_vars
  BY LanesStep DEF LaneKeeps, Between
<1> QED
  BY <1>1, IInvAlways, PTL DEF Spec, NoOvershoot

\* Every lane plays its stream as AudioLane says, at any pair of rates: in order,
\* each output frame from where the last one left off, skipping only what the
\* cap drops.
THEOREM LanesPlayInOrder == Spec => PlaysInOrder
<1>1. IInv /\ [Next]_vars => [\A r \in Rates : Lane(r)!LaneStep]_vars
  BY LanesStep DEF LaneKeeps
<1> QED
  BY <1>1, IInvAlways, PTL DEF Spec, PlaysInOrder
=============================================================================
