---------------------------- MODULE RtpSeqProofs ----------------------------
(***************************************************************************)
(* Facts about the circular numbers of RtpSeq for every SEQ_MAX and every  *)
(* number of slots.                                                        *)
(***************************************************************************)
EXTENDS RtpSeq, TLAPS

(* Distances on the number circle.                                         *)
LEMMA OffsetType ==
  ASSUME NEW a \in SeqNums, NEW b \in SeqNums
  PROVE  Offset(a, b) \in 0..SEQ_MAX
BY SeqMaxAssumption DEF Offset, SeqNums

LEMMA OffsetSelf == \A a \in SeqNums : Offset(a, a) = 0
BY SeqMaxAssumption DEF Offset, SeqNums

(* A number is known by its distance from a fixed one.                     *)
LEMMA OffsetInjective ==
  ASSUME NEW o \in SeqNums, NEW a \in SeqNums, NEW b \in SeqNums,
         Offset(o, a) = Offset(o, b)
  PROVE  a = b
BY SeqMaxAssumption DEF Offset, SeqNums

(* next_seq is one step round the circle (sender.c:64-69).                 *)
LEMMA NextSeqType ==
  ASSUME NEW s \in SeqNums
  PROVE  next_seq(s) \in SeqNums
BY SeqMaxAssumption DEF next_seq, SeqNums

LEMMA NextSeqOffset ==
  ASSUME NEW o \in SeqNums, NEW s \in SeqNums, Offset(o, s) < SEQ_MAX
  PROVE  Offset(o, next_seq(s)) = Offset(o, s) + 1
BY SeqMaxAssumption DEF next_seq, Offset, SeqNums

(* The wrapped end of a window.                                            *)
LEMMA ModOnce ==
  ASSUME NEW n \in Nat \ {0}, NEW x \in Nat, n <= x, x < 2 * n
  PROVE  x % n = x - n
<1> DEFINE q == x \div n
<1>1. q \in Int /\ x % n \in 0..(n - 1) /\ x = (n * q) + (x % n)
  OBVIOUS
<1>2. q = 1
  <2>1. CASE q <= 0
    <3>1. n * q <= 0
      BY <2>1, <1>1
    <3> QED BY <3>1, <1>1
  <2>2. CASE q >= 2
    <3>1. n * q >= 2 * n
      BY <2>2, <1>1
    <3> QED BY <3>1, <1>1
  <2> QED BY <2>1, <2>2, <1>1
<1> QED BY <1>1, <1>2

(* in_window is a test of circular distance, whatever its branch           *)
(* (sender.c:71-77, receiver.c:61-67).                                     *)
THEOREM InWindowOffset ==
  ASSUME NEW s \in SeqNums, NEW b \in SeqNums, NEW w \in 0..(SEQ_MAX + 1)
  PROVE  in_window(s, b, w) <=> Offset(b, s) < w
<1>1. CASE b + w <= SEQ_MAX
  BY <1>1, SeqMaxAssumption DEF in_window, Offset, SeqNums
<1>2. CASE b + w > SEQ_MAX
  <2>1. (b + w) % (SEQ_MAX + 1) = b + w - (SEQ_MAX + 1)
    <3>1. /\ SEQ_MAX + 1 \in Nat \ {0} /\ b + w \in Nat
          /\ SEQ_MAX + 1 <= b + w /\ b + w < 2 * (SEQ_MAX + 1)
      BY <1>2, SeqMaxAssumption DEF SeqNums
    <3> DEFINE n == SEQ_MAX + 1
               x == b + w
    <3>2. n \in Nat \ {0} /\ x \in Nat /\ n <= x /\ x < 2 * n
      BY <3>1
    <3> HIDE DEF n, x
    <3>3. x % n = x - n
      BY <3>2, ModOnce
    <3> QED BY <3>1, <3>3, SeqMaxAssumption DEF n, x, SeqNums
  <2> QED BY <1>2, <2>1, SeqMaxAssumption DEF in_window, Offset, SeqNums
<1> QED BY <1>1, <1>2, SeqMaxAssumption DEF SeqNums

(* Seen from a fixed number o, a window that does not come round to o is   *)
(* an interval.                                                            *)
LEMMA InWindowInterval ==
  ASSUME NEW o \in SeqNums, NEW s \in SeqNums, NEW b \in SeqNums, NEW w \in Nat,
         Offset(o, b) + w <= SEQ_MAX + 1
  PROVE  in_window(s, b, w) <=>
           Offset(o, b) <= Offset(o, s) /\ Offset(o, s) < Offset(o, b) + w
<1>1. w \in 0..(SEQ_MAX + 1)
  BY SeqMaxAssumption, OffsetType
<1>2. in_window(s, b, w) <=> Offset(b, s) < w
  BY <1>1, InWindowOffset
<1> QED BY <1>1, <1>2, SeqMaxAssumption DEF Offset, SeqNums

(* The loop from a to b visits the numbers from a up to but not with b.    *)
LEMMA SeqRangeInterval ==
  ASSUME NEW o \in SeqNums, NEW a \in SeqNums, NEW b \in SeqNums,
         Offset(o, a) <= Offset(o, b), NEW s \in SeqNums
  PROVE  s \in SeqRange(a, b) <=>
           Offset(o, a) <= Offset(o, s) /\ Offset(o, s) < Offset(o, b)
BY SeqMaxAssumption DEF SeqRange, Offset, SeqNums

-----------------------------------------------------------------------------
LEMMA SlotType ==
  ASSUME NEW s \in SeqNums
  PROVE  Slot(s) \in Slots
<1>1. s \in Int /\ MAX_WINDOW_SIZE \in Nat \ {0}
  BY SlotsAssumption, SeqMaxAssumption DEF SeqNums
<1> QED BY <1>1 DEF Slot, Slots

(* Two numbers less than n apart do not leave the same remainder.          *)
LEMMA ModDistinct ==
  ASSUME NEW n \in Nat \ {0}, NEW a \in Nat, NEW b \in Nat, a < b, b < a + n
  PROVE  a % n # b % n
<1> SUFFICES ASSUME a % n = b % n PROVE FALSE
  OBVIOUS
<1> DEFINE i == a \div n
           j == b \div n
           k == j - i
<1>1. /\ i \in Int /\ j \in Int /\ a % n \in Int /\ b % n \in Int
      /\ a = (n * i) + (a % n) /\ b = (n * j) + (b % n)
  OBVIOUS
<1>2. k \in Int /\ b - a = n * k
  BY <1>1
<1> HIDE DEF k
<1>3. CASE k <= 0
  <2>1. n * k <= 0
    BY <1>2, <1>3
  <2> QED BY <2>1, <1>2
<1>4. CASE k >= 1
  <2>1. n * k >= n
    BY <1>2, <1>4
  <2> QED BY <2>1, <1>2
<1> QED BY <1>2, <1>3, <1>4

(* The slots before the numbers wrap round: a number is its own integer.   *)
LEMMA SlotsApart ==
  ASSUME NEW s \in SeqNums, NEW t \in SeqNums, s < t, t < s + MAX_WINDOW_SIZE
  PROVE  Slot(s) # Slot(t)
<1>1. s \in Nat /\ t \in Nat
  BY SeqMaxAssumption DEF SeqNums
<1> QED BY <1>1, SlotsAssumption, ModDistinct DEF Slot

(* Adding whole laps of the slots changes nothing.                         *)
LEMMA ModLaps ==
  ASSUME NEW n \in Nat \ {0}, NEW a \in Nat, NEW b \in Nat, b % n = 0
  PROVE  (a + b) % n = a % n
<1> DEFINE i == a \div n
           j == b \div n
           q == (a + b) \div n
           k == q - i - j
           r == (a + b) % n
<1>1. /\ i \in Int /\ j \in Int /\ q \in Int /\ r \in 0..(n - 1) /\ a % n \in 0..(n - 1)
      /\ a = (n * i) + (a % n) /\ b = (n * j) + (b % n) /\ a + b = (n * q) + r
  OBVIOUS
<1>2. k \in Int /\ (a % n) - r = n * k
  BY <1>1
<1> HIDE DEF k
<1>3. k = 0
  <2>1. CASE k <= -1
    <3>1. n * k <= -n
      BY <2>1, <1>2
    <3> QED BY <3>1, <1>1, <1>2
  <2>2. CASE k >= 1
    <3>1. n * k >= n
      BY <2>2, <1>2
    <3> QED BY <3>1, <1>1, <1>2
  <2> QED BY <2>1, <2>2, <1>2
<1>4. n * k = 0
  BY <1>3
<1> QED BY <1>1, <1>2, <1>4

LEMMA ModOfLap ==
  ASSUME NEW n \in Nat \ {0}, NEW q \in Int, NEW r \in 0..(n - 1)
  PROVE  ((n * q) + r) % n = r
<1> DEFINE x == (n * q) + r
           p == x \div n
           m == x % n
           k == q - p
<1>1. /\ n * q \in Int /\ x \in Int
      /\ p \in Int /\ m \in 0..(n - 1) /\ x = (n * p) + m
  OBVIOUS
<1>2. k \in Int /\ m - r = n * k
  BY <1>1
<1> HIDE DEF k, m
<1>3. k = 0
  <2>1. CASE k <= -1
    <3>1. n * k <= -n
      BY <2>1, <1>2
    <3> QED BY <3>1, <1>1, <1>2
  <2>2. CASE k >= 1
    <3>1. n * k >= n
      BY <2>2, <1>2
    <3> QED BY <3>1, <1>1, <1>2
  <2> QED BY <2>1, <2>2, <1>2
<1>4. n * k = 0
  BY <1>3
<1>5. m = r
  BY <1>1, <1>2, <1>4
<1> QED BY <1>5 DEF m

(* The packets of a slot-safe window keep slots of their own, so the ring  *)
(* buffers at sender.c:27 and receiver.c:19 lose none of them.             *)
THEOREM SafeSlotsDistinct ==
  ASSUME NEW b \in SeqNums, NEW w \in 0..(SEQ_MAX + 1), SlotSafe(b, w),
         NEW s \in SeqNums, NEW t \in SeqNums,
         Offset(b, s) < w, Offset(b, t) < w, Slot(s) = Slot(t)
  PROVE  s = t
<1> DEFINE M == MAX_WINDOW_SIZE
           S == SEQ_MAX + 1
<1>0. /\ M \in Nat \ {0} /\ S \in Nat \ {0} /\ b \in Nat /\ w \in Nat /\ w <= M
      /\ b < S
  BY SlotsAssumption, SeqMaxAssumption DEF SlotSafe, SeqNums
<1>1. ASSUME NEW x \in SeqNums, NEW y \in SeqNums, x < y, y < x + M
      PROVE  Slot(x) # Slot(y)
  BY <1>1, SlotsApart
<1>2. ASSUME NEW x \in SeqNums, NEW y \in SeqNums, x >= b, y < b,
             Offset(b, x) < w, Offset(b, y) < w
      PROVE  Slot(x) # Slot(y)
  <2>1. /\ x \in Nat /\ y \in Nat /\ x < S /\ x < b + w /\ y + S < b + w
        /\ b + w > S
    BY <1>2, <1>0, SeqMaxAssumption DEF Offset, SeqNums
  <2>2. CASE LastLap = 0
    <3>1. (y + S) % M = y % M
      BY <1>0, <2>1, <2>2, ModLaps DEF LastLap
    <3>2. y + S \in Nat /\ x < y + S /\ y + S < x + M
      BY <1>0, <1>2, <2>1
    <3>3. x % M # (y + S) % M
      BY <1>0, <2>1, <3>2, ModDistinct
    <3> QED BY <3>1, <3>3 DEF Slot
  <2>3. CASE w <= LastLap
    <3> DEFINE q == S \div M
               L == S % M
               rx == x - (M * q)
    <3>0. w <= L
      BY <2>3 DEF LastLap
    <3> HIDE DEF M, S
    <3>1. q \in Int /\ M * q \in Int /\ L \in 0..(M - 1) /\ S = (M * q) + L /\ w <= L
      BY <1>0, <3>0
    <3> HIDE DEF q, L
    <3>2. rx \in 0..(M - 1) /\ y < rx /\ x = (M * q) + rx
      BY <1>0, <1>2, <2>1, <3>1
    <3> HIDE DEF rx
    <3>3. x % M = rx
      BY <3>1, <3>2, <1>0, ModOfLap
    <3>4. y \in 0..(M - 1)
      BY <3>2, <2>1, <1>0
    <3>5. y % M = y
      BY <3>4, <1>0
    <3> QED BY <3>2, <3>3, <3>5, <3>4 DEF Slot, M
  <2> QED BY <2>1, <2>2, <2>3, <1>0 DEF SlotSafe
<1>3. /\ s \in Int /\ t \in Int
      /\ s >= b /\ t >= b => s < t + M /\ t < s + M
      /\ s < b /\ t < b => s < t + M /\ t < s + M
  BY <1>0, SeqMaxAssumption DEF Offset, SeqNums
<1>4. CASE (s >= b /\ t >= b) \/ (s < b /\ t < b)
  BY <1>1, <1>3, <1>4
<1>5. CASE s >= b /\ t < b
  BY <1>2, <1>5
<1>6. CASE t >= b /\ s < b
  BY <1>2, <1>6
<1> QED BY <1>3, <1>4, <1>5, <1>6, <1>0
=============================================================================
