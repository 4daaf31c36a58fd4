-------------------------- MODULE RxReorder_proofs --------------------------
(***************************************************************************)
(* What TLAPS proves of RxReorder, for every size of the window and of the *)
(* sequence space, every timeout, and any set of events.                   *)
(***************************************************************************)
EXTENDS RxReorder, Induction, FiniteSetTheorems

(* The window is used as it should be: sequence numbers start again where  *)
(* slots do.  4096 is a multiple of each size that is a power of two.      *)
WholeTurns == BufSize > 1 /\ SnMod % BufSize = 0

-----------------------------------------------------------------------------
(* Remainders. *)

(* What the remainder is. *)
LEMMA ModIs ==
  ASSUME NEW x \in Nat, NEW m \in Nat \ {0}, NEW q \in Nat, NEW r \in 0 .. m - 1, x = m * q + r
  PROVE  x % m = r
OBVIOUS

Divided(x, m, q) == q \in Nat /\ x - m * q \in 0 .. m - 1

(* There are a quotient and a remainder.                                   *)
LEMMA Divides ==
  ASSUME NEW x \in Nat, NEW m \in Nat \ {0}
  PROVE  \E q : Divided(x, m, q)
<1> DEFINE G == {n \in Nat : \E q : Divided(n, m, q)}
<1>1. 0 \in G
  <2>1. Divided(0, m, 0)
    BY DEF Divided
  <2> QED
    BY <2>1
<1>2. ASSUME NEW n \in Nat, n \in G PROVE n + 1 \in G
  <2>1. PICK q : Divided(n, m, q)
    BY <1>2
  <2> DEFINE p == m * q
  <2>2. q \in Nat /\ p \in Int /\ n - p \in 0 .. m - 1 /\ m * (q + 1) = p + m
    BY <2>1 DEF Divided
  <2> HIDE DEF p
  <2>3. CASE n - p < m - 1
    <3>1. n + 1 - p \in 0 .. m - 1
      BY <2>2, <2>3
    <3>2. Divided(n + 1, m, q)
      BY <2>2, <3>1 DEF Divided, p
    <3> QED
      BY <3>2
  <2>4. CASE n - p = m - 1
    <3>1. n + 1 - m * (q + 1) \in 0 .. m - 1 /\ q + 1 \in Nat
      BY <2>2, <2>4
    <3>2. Divided(n + 1, m, q + 1)
      BY <3>1 DEF Divided
    <3> QED
      BY <3>2
  <2> QED
    BY <2>2, <2>3, <2>4
<1> HIDE DEF G
<1>3. x \in G
  BY <1>1, <1>2, SetInduction
<1> QED
  BY <1>3 DEF G

(* The remainder is the one of the quotient.                               *)
LEMMA ModDivided ==
  ASSUME NEW x \in Nat, NEW m \in Nat \ {0}, NEW q, Divided(x, m, q)
  PROVE  x % m = x - m * q /\ q \in Nat /\ m * q \in Nat
<1> DEFINE r == x - m * q
<1>1. q \in Nat /\ r \in 0 .. m - 1 /\ m * q \in Nat
  BY DEF Divided
<1>2. x = m * q + r
  BY <1>1
<1> HIDE DEF r
<1>3. x % m = r
  BY <1>1, <1>2, ModIs
<1> QED
  BY <1>1, <1>3 DEF r

(* The remainder of a sum. *)
LEMMA ModAdd ==
  ASSUME NEW x \in Nat, NEW y \in Nat, NEW m \in Nat \ {0}
  PROVE  ((x % m) + y) % m = (x + y) % m
<1>1. PICK q : Divided(x, m, q)
  BY Divides
<1> DEFINE p == m * q
           z == x - p + y
<1>2. x % m = x - p /\ p \in Nat /\ q \in Nat /\ z \in Nat
  <2>1. x - p \in Nat
    BY <1>1 DEF Divided
  <2> QED
    BY <1>1, <2>1, ModDivided
<1>3. PICK t : Divided(z, m, t)
  BY <1>2, Divides
<1> DEFINE u == m * t
           r == z - u
<1>4. t \in Nat /\ u \in Nat /\ r \in 0 .. m - 1 /\ z % m = r
  BY <1>2, <1>3, ModDivided DEF Divided
<1>5. m * (q + t) = p + u /\ q + t \in Nat
  BY <1>2, <1>4
<1>6. x + y = (p + u) + r
  BY <1>2, <1>4
<1> HIDE DEF r, u
<1>7. (x + y) % m = r
  <2>1. x + y = m * (q + t) + r
    BY <1>5, <1>6
  <2> HIDE DEF p, z
  <2>2. x + y \in Nat
    OBVIOUS
  <2> QED
    BY <1>4, <1>5, <2>1, <2>2, ModIs
<1> QED
  BY <1>2, <1>4, <1>7

(* A multiple of m does not change the remainder. *)
LEMMA ModMultiple ==
  ASSUME NEW x \in Nat, NEW m \in Nat \ {0}, NEW n \in Nat, n % m = 0
  PROVE  (x + n) % m = x % m
<1>1. ((n % m) + x) % m = (n + x) % m
  BY ModAdd
<1> DEFINE z == n % m
<1>2. z + x = x /\ n + x = x + n
  <2>1. z = 0
    OBVIOUS
  <2> HIDE DEF z
  <2> QED
    BY <2>1
<1> HIDE DEF z
<1>3. (z + x) % m = (n + x) % m
  BY <1>1 DEF z
<1> QED
  BY <1>2, <1>3

(* Below twice the modulus it is subtracted at most once.                  *)
LEMMA ModOnce ==
  ASSUME NEW x \in Nat, NEW m \in Nat \ {0}
  PROVE  /\ x < m => x % m = x
         /\ m <= x /\ x < 2 * m => x % m = x - m
         /\ x % m \in 0 .. m - 1
OBVIOUS

-----------------------------------------------------------------------------
(* Sequence numbers and slots. *)

LEMMA PlusIs ==
  ASSUME NEW s \in SNs, NEW n \in 0 .. SnMod
  PROVE  /\ Plus(s, n) \in SNs
         /\ s + n < SnMod => Plus(s, n) = s + n
         /\ SnMod <= s + n => Plus(s, n) = s + n - SnMod
<1>1. SnMod \in Nat \ {0} /\ s \in Nat /\ n \in Nat /\ s < SnMod /\ n <= SnMod
  BY RxReorderAssumption DEF SNs
<1>2. s + n \in Nat /\ s + n < 2 * SnMod
  BY <1>1
<1> DEFINE x == s + n
           r == Plus(s, n)
<1>3. r = x % SnMod /\ x \in Nat /\ x < 2 * SnMod
  BY <1>1, <1>2 DEF Plus
<1> HIDE DEF x, r
<1>4. /\ x < SnMod => r = x
      /\ SnMod <= x => r = x - SnMod
      /\ r \in SNs
  BY <1>1, <1>3, ModOnce DEF SNs
<1>5. /\ s + n < SnMod => r = s + n
      /\ SnMod <= s + n => r = s + n - SnMod
  BY <1>1, <1>4 DEF x
<1> QED
  BY <1>4, <1>5 DEF r

(* How far a number is from another, without the remainder.                *)
LEMMA DistIs ==
  ASSUME NEW s \in SNs, NEW t \in SNs
  PROVE  /\ Dist(s, t) \in SNs
         /\ s <= t => Dist(s, t) = t - s
         /\ t < s => Dist(s, t) = t + SnMod - s
<1>1. SnMod \in Nat \ {0} /\ s \in Nat /\ t \in Nat /\ s < SnMod /\ t < SnMod
  BY RxReorderAssumption DEF SNs
<1> DEFINE x == t + SnMod - s
<1>2. x \in Nat /\ x < 2 * SnMod /\ (s <= t => SnMod <= x) /\ (t < s => x < SnMod)
      /\ x - SnMod = t - s
  BY <1>1
<1> HIDE DEF x
<1>3. /\ x < SnMod => x % SnMod = x
      /\ SnMod <= x => x % SnMod = x - SnMod
      /\ x % SnMod \in SNs
  BY <1>1, <1>2, ModOnce DEF SNs
<1> QED
  BY <1>2, <1>3 DEF Dist, x

(* Going on by the distance from a number to another leads to the other.   *)
LEMMA DistPlus ==
  ASSUME NEW s \in SNs
  PROVE  /\ \A n \in SNs : Dist(s, Plus(s, n)) = n
         /\ \A t \in SNs : Plus(s, Dist(s, t)) = t
         /\ Dist(s, s) = 0 /\ Plus(s, 0) = s
<1> USE RxReorderAssumption DEF SNs
<1>1. ASSUME NEW n \in SNs PROVE Dist(s, Plus(s, n)) = n
  <2>1. n \in 0 .. SnMod
    OBVIOUS
  <2> DEFINE t == Plus(s, n)
  <2>2. /\ t \in SNs
        /\ s + n < SnMod => t = s + n
        /\ SnMod <= s + n => t = s + n - SnMod
    BY <2>1, PlusIs
  <2> HIDE DEF t
  <2>3. /\ s <= t => Dist(s, t) = t - s
        /\ t < s => Dist(s, t) = t + SnMod - s
    BY <2>2, DistIs
  <2>4. Dist(s, t) = n
    BY <2>2, <2>3
  <2> QED
    BY <2>4 DEF t
<1>2. ASSUME NEW t \in SNs PROVE Plus(s, Dist(s, t)) = t
  <2> DEFINE n == Dist(s, t)
  <2>1. /\ n \in SNs
        /\ s <= t => n = t - s
        /\ t < s => n = t + SnMod - s
    BY DistIs
  <2> HIDE DEF n
  <2>2. n \in 0 .. SnMod
    BY <2>1
  <2>3. /\ s + n < SnMod => Plus(s, n) = s + n
        /\ SnMod <= s + n => Plus(s, n) = s + n - SnMod
    BY <2>2, PlusIs
  <2>4. Plus(s, n) = t
    BY <2>1, <2>3
  <2> QED
    BY <2>4 DEF n
<1>3. 0 \in SNs /\ 0 \in 0 .. SnMod /\ s + 0 < SnMod /\ s + 0 = s
  OBVIOUS
<1>4. Plus(s, 0) = s
  BY <1>3, PlusIs
<1> QED
  BY <1>1, <1>2, <1>3, <1>4

(* Going on twice is going on by the sum.                                  *)
LEMMA PlusPlus ==
  ASSUME NEW s \in SNs, NEW m \in Nat, NEW n \in Nat, m + n <= SnMod
  PROVE  Plus(Plus(s, m), n) = Plus(s, m + n)
<1> USE RxReorderAssumption DEF SNs
<1>1. m \in 0 .. SnMod /\ n \in 0 .. SnMod /\ m + n \in 0 .. SnMod
  OBVIOUS
<1> DEFINE t == Plus(s, m)
<1>2. /\ t \in SNs
      /\ s + m < SnMod => t = s + m
      /\ SnMod <= s + m => t = s + m - SnMod
  BY <1>1, PlusIs
<1> HIDE DEF t
<1>3. /\ t + n < SnMod => Plus(t, n) = t + n
      /\ SnMod <= t + n => Plus(t, n) = t + n - SnMod
  BY <1>1, <1>2, PlusIs
<1>4. /\ s + (m + n) < SnMod => Plus(s, m + n) = s + (m + n)
      /\ SnMod <= s + (m + n) => Plus(s, m + n) = s + (m + n) - SnMod
  BY <1>1, PlusIs
<1>5. Plus(t, n) = Plus(s, m + n)
  BY <1>2, <1>3, <1>4
<1> QED
  BY <1>5 DEF t

(* How far a number is from a later head. *)
LEMMA DistFrom ==
  ASSUME NEW s \in SNs, NEW t \in SNs, NEW n \in SNs
  PROVE  /\ n <= Dist(s, t) => Dist(Plus(s, n), t) = Dist(s, t) - n
         /\ Dist(s, t) < n => Dist(Plus(s, n), t) = Dist(s, t) + SnMod - n
<1> USE RxReorderAssumption DEF SNs
<1> DEFINE p == Plus(s, n)
           d == Dist(s, t)
           e == Dist(p, t)
<1>1. n \in 0 .. SnMod
  OBVIOUS
<1>2. /\ p \in SNs
      /\ s + n < SnMod => p = s + n
      /\ SnMod <= s + n => p = s + n - SnMod
  BY <1>1, PlusIs
<1>3. /\ d \in SNs
      /\ s <= t => d = t - s
      /\ t < s => d = t + SnMod - s
  BY DistIs
<1> HIDE DEF p, d
<1>4. /\ p <= t => e = t - p
      /\ t < p => e = t + SnMod - p
  BY <1>2, DistIs
<1> HIDE DEF e
<1>5. /\ n <= d => e = d - n
      /\ d < n => e = d + SnMod - n
  BY <1>2, <1>3, <1>4
<1> QED
  BY <1>5 DEF e, d, p

(* From the next head the distance is one less.                            *)
LEMMA DistNext ==
  ASSUME NEW s \in SNs, NEW t \in SNs, Dist(s, t) # 0, 1 < SnMod
  PROVE  Dist(Plus(s, 1), t) = Dist(s, t) - 1
<1>1. 1 \in SNs /\ Dist(s, t) \in SNs
  BY DistIs, RxReorderAssumption DEF SNs
<1> DEFINE d == Dist(s, t)
           e == Dist(Plus(s, 1), t)
<1>2. /\ 1 <= d => e = d - 1
      /\ d < 1 => e = d + SnMod - 1
  BY <1>1, DistFrom
<1> HIDE DEF d, e
<1>3. d \in Nat /\ d # 0
  BY <1>1 DEF d, SNs
<1>4. e = d - 1
  BY <1>2, <1>3
<1> QED
  BY <1>4 DEF d, e

(* The slot which is k slots after that of a head. *)
At(h, k) == (Slot(h) + k) % BufSize

(* A slot some places on, without the remainder.                           *)
LEMMA AtIs ==
  ASSUME NEW h \in SNs, NEW k \in 0 .. BufSize
  PROVE  /\ Slot(h) \in Slots /\ At(h, k) \in Slots
         /\ Slot(h) + k < BufSize => At(h, k) = Slot(h) + k
         /\ BufSize <= Slot(h) + k => At(h, k) = Slot(h) + k - BufSize
<1>1. BufSize \in Nat \ {0} /\ h \in Nat /\ k \in Nat /\ k <= BufSize
  BY RxReorderAssumption DEF SNs
<1> DEFINE j == Slot(h)
           x == j + k
<1>2. j \in Slots
  BY <1>1, ModOnce DEF Slot, Slots
<1> HIDE DEF j
<1>3. x \in Nat /\ x < 2 * BufSize
  BY <1>1, <1>2 DEF Slots
<1> DEFINE r == At(h, k)
<1>4. r = x % BufSize
  BY DEF At, j
<1> HIDE DEF x, r
<1>5. /\ x < BufSize => r = x
      /\ BufSize <= x => r = x - BufSize
      /\ r \in Slots
  BY <1>1, <1>3, <1>4, ModOnce DEF Slots
<1>6. /\ j + k < BufSize => r = j + k
      /\ BufSize <= j + k => r = j + k - BufSize
  BY <1>1, <1>2, <1>5 DEF x, Slots
<1> QED
  BY <1>2, <1>5, <1>6 DEF r, j

(* Each slot is met once in a turn.                                        *)
LEMMA AtOnce ==
  ASSUME NEW h \in SNs
  PROVE  /\ \A k, l \in 0 .. BufSize - 1 : At(h, k) = At(h, l) => k = l
         /\ \A j \in Slots : \E k \in 0 .. BufSize - 1 : j = At(h, k)
         /\ At(h, 0) = Slot(h) /\ At(h, BufSize) = Slot(h)
<1> USE RxReorderAssumption DEF Slots
<1>1. \A k, l \in 0 .. BufSize - 1 : At(h, k) = At(h, l) => k = l
  BY AtIs
<1>2. ASSUME NEW j \in Slots PROVE \E k \in 0 .. BufSize - 1 : j = At(h, k)
  <2>1. CASE Slot(h) <= j
    <3>1. j - Slot(h) \in 0 .. BufSize - 1 /\ At(h, j - Slot(h)) = j
      BY <2>1, AtIs
    <3> QED
      BY <3>1
  <2>2. CASE j < Slot(h)
    <3>1. j + BufSize - Slot(h) \in 0 .. BufSize - 1 /\ At(h, j + BufSize - Slot(h)) = j
      BY <2>2, AtIs
    <3> QED
      BY <3>1
  <2> QED
    BY <2>1, <2>2, AtIs
<1> QED
  BY <1>1, <1>2, AtIs

(* With whole turns the slots go on where sequence numbers start again.    *)
LEMMA SlotPlus ==
  ASSUME WholeTurns, NEW h \in SNs, NEW k \in 0 .. BufSize
  PROVE  Slot(Plus(h, k)) = At(h, k)
<1>1. /\ BufSize \in Nat \ {0} /\ SnMod \in Nat /\ h \in Nat /\ k \in Nat /\ k \in 0 .. SnMod
      /\ SnMod % BufSize = 0 /\ h < SnMod
  BY RxReorderAssumption DEF SNs, WholeTurns
<1>2. At(h, k) = (h + k) % BufSize
  BY <1>1, ModAdd DEF At, Slot
<1>3. CASE h + k < SnMod
  BY <1>1, <1>2, <1>3, PlusIs DEF Slot
<1>4. CASE SnMod <= h + k
  <2> DEFINE x == h + k - SnMod
  <2>1. x \in Nat /\ x + SnMod = h + k /\ Plus(h, k) = x
    BY <1>1, <1>4, PlusIs
  <2> HIDE DEF x
  <2>2. (x + SnMod) % BufSize = x % BufSize
    BY <1>1, <2>1, ModMultiple
  <2> QED
    BY <1>2, <2>1, <2>2 DEF Slot
<1> QED
  BY <1>1, <1>3, <1>4

(* A number of the window is in the slot that its distance says.           *)
LEMMA SlotOf ==
  ASSUME WholeTurns, NEW h \in SNs, NEW s \in SNs, Dist(h, s) < BufSize
  PROVE  Slot(s) = At(h, Dist(h, s)) /\ Dist(h, s) \in 0 .. BufSize - 1
<1>1. Dist(h, s) \in 0 .. BufSize - 1 /\ Dist(h, s) \in 0 .. BufSize
  <2>1. Dist(h, s) \in SNs
    BY DistIs
  <2> QED
    BY <2>1, RxReorderAssumption DEF SNs
<1>2. Plus(h, Dist(h, s)) = s
  BY DistPlus
<1> QED
  BY <1>1, <1>2, SlotPlus

(* Two numbers of the window are in different slots.                       *)
LEMMA SlotOnce ==
  ASSUME WholeTurns, NEW h \in SNs, NEW s \in SNs, NEW t \in SNs,
         Dist(h, s) < BufSize, Dist(h, t) < BufSize, Slot(s) = Slot(t)
  PROVE  s = t
<1>1. Dist(h, s) = Dist(h, t)
  BY SlotOf, AtOnce
<1> QED
  BY <1>1, DistPlus

(* The window is the numbers less than its size ahead of the head.         *)
LEMMA WindowIs ==
  ASSUME NEW c, c.head \in SNs
  PROVE  Window(c) = {s \in SNs : Dist(c.head, s) < BufSize}
<1> DEFINE h == c.head
<1> HIDE DEF h
<1>1. h \in SNs
  BY DEF h
<1>2. ASSUME NEW k \in 0 .. BufSize - 1 PROVE Plus(h, k) \in SNs /\ Dist(h, Plus(h, k)) < BufSize
  <2>1. k \in SNs /\ k \in 0 .. SnMod
    BY RxReorderAssumption DEF SNs
  <2> QED
    BY <1>1, <2>1, PlusIs, DistPlus, RxReorderAssumption
<1>3. ASSUME NEW s \in SNs, Dist(h, s) < BufSize
      PROVE  \E k \in 0 .. BufSize - 1 : s = Plus(h, k)
  <2>1. Dist(h, s) \in 0 .. BufSize - 1 /\ s = Plus(h, Dist(h, s))
    BY <1>1, <1>3, DistIs, DistPlus, RxReorderAssumption DEF SNs
  <2> QED
    BY <2>1
<1> QED
  BY <1>2, <1>3 DEF Window, h

-----------------------------------------------------------------------------
(* Reorder buffers: what the functions that run under reorder_lock take    *)
(* and leave.                                                              *)
Buffers ==
  [head : SNs, stored : Int, buf : [Slots -> Seq(Frames)], filtered : SUBSET Slots,
   age : [Slots -> 0 .. Timeout + 1], timer : 0 .. Off,
   started : BOOLEAN, auto_seq : BOOLEAN, removed : BOOLEAN, frames : Seq(Frames)]

Kept(c, d) == d.started = c.started /\ d.auto_seq = c.auto_seq /\ d.removed = c.removed

(* The release of a slot, field by field.                                  *)
Released(c, d, j) ==
  /\ d \in Buffers /\ Kept(c, d) /\ d.timer = c.timer
  /\ d.head = Plus(c.head, 1)
  /\ d.buf = [c.buf EXCEPT ![j] = <<>>] /\ d.filtered = c.filtered \ {j}
  /\ c.buf[j] # <<>> /\ Ready(c, j) =>
       d.frames = c.frames \o c.buf[j] /\ d.stored = c.stored - 1
  /\ ~(c.buf[j] # <<>> /\ Ready(c, j)) => d.frames = c.frames /\ d.stored = c.stored

(* ieee80211_release_reorder_frame() releases one slot.                    *)
LEMMA ReleaseIs ==
  ASSUME NEW c \in Buffers, NEW j \in Slots
  PROVE  Released(c, ReleaseFrame(c, j), j)
<1> DEFINE out == c.buf[j] # <<>> /\ Ready(c, j)
           frames == IF out THEN c.frames \o c.buf[j] ELSE c.frames
           stored == IF out THEN c.stored - 1 ELSE c.stored
           buf == [c.buf EXCEPT ![j] = <<>>]
           filtered == c.filtered \ {j}
           head == Plus(c.head, 1)
           d == [c EXCEPT !.frames = frames, !.stored = stored, !.buf = buf,
                          !.filtered = filtered, !.head = head]
<1>1. ReleaseFrame(c, j) = d
  BY DEF ReleaseFrame, Buffers
<1>2. head \in SNs
  BY PlusIs, RxReorderAssumption DEF Buffers
<1>3. buf \in [Slots -> Seq(Frames)] /\ filtered \in SUBSET Slots
  BY DEF Buffers
<1>4. stored \in Int
  BY DEF Buffers
<1>5. frames \in Seq(Frames)
  <2>1. c.frames \in Seq(Frames) /\ c.buf[j] \in Seq(Frames)
    BY DEF Buffers
  <2> QED
    BY <2>1
<1>6. /\ out => frames = c.frames \o c.buf[j] /\ stored = c.stored - 1
      /\ ~out => frames = c.frames /\ stored = c.stored
  OBVIOUS
<1> HIDE DEF frames, stored, buf, filtered, head
<1>7. d \in Buffers
  BY <1>2, <1>3, <1>4, <1>5 DEF Buffers
<1>8. /\ d.started = c.started /\ d.auto_seq = c.auto_seq /\ d.removed = c.removed
      /\ d.timer = c.timer /\ d.head = head /\ d.buf = buf /\ d.filtered = filtered
      /\ d.frames = frames /\ d.stored = stored
  BY DEF Buffers
<1> HIDE DEF d
<1>9. Released(c, d, j)
  BY <1>6, <1>7, <1>8 DEF Released, Kept, buf, filtered, head
<1> QED
  BY <1>1, <1>9

(* A release that is not of the slot of the head.                          *)
LEMMA HeadIs ==
  ASSUME NEW c \in Buffers
  PROVE  Slot(c.head) \in Slots /\ Released(c, ReleaseHead(c), Slot(c.head))
<1>1. c.head \in SNs
  BY DEF Buffers
<1>2. Slot(c.head) \in Slots
  BY <1>1, AtOnce, AtIs, RxReorderAssumption
<1> QED
  BY <1>2, ReleaseIs DEF ReleaseHead

-----------------------------------------------------------------------------
(* The loops. *)

(* A loop of n rounds is a recursive function.                             *)
Loop(d, S, F, a, n) ==
  d \in [0 .. n -> S] /\ d = [k \in 0 .. n |-> IF k = 0 THEN a ELSE F[k][d[k - 1]]]

(* A loop of n rounds goes through the states of the rounds before it.     *)
LEMMA Rounds ==
  ASSUME NEW S, NEW F, F \in [Nat -> [S -> S]], NEW a \in S, NEW n \in Nat
  PROVE  \E d : Loop(d, S, F, a, n)
<1>1. PICK r : GoesOn(r, S, F, a, n)
  BY Recursion
<1>2. r \in [0 .. n -> S] /\ r[0] = a /\ \A k \in 1 .. n : r[k] = F[k][r[k - 1]]
  BY <1>1 DEF GoesOn
<1>3. \A k \in 0 .. n : r[k] = IF k = 0 THEN a ELSE F[k][r[k - 1]]
  <2>1. \A k \in 0 .. n : k = 0 \/ k \in 1 .. n
    OBVIOUS
  <2> QED
    BY <1>2, <2>1
<1>4. r = [k \in 0 .. n |-> r[k]]
  BY <1>2
<1>5. r = [k \in 0 .. n |-> IF k = 0 THEN a ELSE F[k][r[k - 1]]]
  BY <1>3, <1>4, Zenon
<1>6. Loop(r, S, F, a, n)
  BY <1>2, <1>5, Zenon DEF Loop
<1> QED
  BY <1>6

Gap(c, head) == IF SnLess(c.head, head) THEN Dist(c.head, head) ELSE 0

(* The rounds of ieee80211_release_reorder_frames().                       *)
Advance(d, c, n) ==
  /\ d[0] = c
  /\ \A k \in 0 .. n : d[k] \in Buffers
  /\ \A k \in 1 .. n : Released(d[k - 1], d[k], Slot(d[k - 1].head)) /\ Slot(d[k - 1].head) \in Slots

(* ieee80211_release_reorder_frames() releases slot after slot.            *)
LEMMA ReleaseFramesIs ==
  ASSUME NEW c \in Buffers, NEW head \in SNs
  PROVE  /\ Gap(c, head) \in SNs
         /\ \E d : Advance(d, c, Gap(c, head)) /\ ReleaseFrames(c, head) = d[Gap(c, head)]
<1> DEFINE n == Gap(c, head)
           F == [k \in Nat |-> [x \in Buffers |-> ReleaseHead(x)]]
           Is(d) == d = [k \in 0 .. n |-> IF k = 0 THEN c ELSE ReleaseHead(d[k - 1])]
<1>1. n \in SNs
  <2>1. c.head \in SNs
    BY DEF Buffers
  <2>2. 0 \in SNs
    BY RxReorderAssumption DEF SNs
  <2> QED
    BY <2>1, <2>2, DistIs DEF Gap
<1>2. n \in Nat
  BY <1>1, RxReorderAssumption DEF SNs
<1> HIDE DEF n
<1>3. \A x \in Buffers : ReleaseHead(x) \in Buffers
  BY HeadIs DEF Released
<1>4. F \in [Nat -> [Buffers -> Buffers]] /\ \A k \in Nat : \A x \in Buffers : F[k][x] = ReleaseHead(x)
  BY <1>3
<1> HIDE DEF F
<1>5. PICK r : Loop(r, Buffers, F, c, n)
  BY <1>2, <1>4, Rounds
<1>6. \A k \in 0 .. n : (IF k = 0 THEN c ELSE F[k][r[k - 1]]) = IF k = 0 THEN c ELSE ReleaseHead(r[k - 1])
  <2>1. \A k \in 0 .. n : k # 0 => k \in Nat /\ r[k - 1] \in Buffers
    BY <1>2, <1>5 DEF Loop
  <2> QED
    BY <1>4, <2>1, Zenon
<1>7. Is(r)
  BY <1>5, <1>6, Zenon DEF Loop
<1> DEFINE d == CHOOSE d : Is(d)
<1>8. Is(d)
  BY <1>7, Zenon
<1>9. ReleaseFrames(c, head) = d[n]
  BY DEF ReleaseFrames, Gap, n
<1> HIDE DEF d
<1>10. d[0] = c /\ \A k \in 1 .. n : d[k] = ReleaseHead(d[k - 1])
  <2>1. \A k \in 0 .. n : d[k] = IF k = 0 THEN c ELSE ReleaseHead(d[k - 1])
    BY <1>8, Zenon
  <2>2. 0 \in 0 .. n /\ \A k \in 1 .. n : k \in 0 .. n /\ k # 0
    BY <1>2
  <2> QED
    BY <2>1, <2>2, Zenon
<1>11. \A k \in 0 .. n : d[k] \in Buffers
  <2> DEFINE G == {k \in 0 .. n : d[k] \in Buffers}
  <2>1. 0 \in G
    BY <1>2, <1>10
  <2>2. \A k \in 1 .. n : k - 1 \in G => k \in G
    BY <1>2, <1>3, <1>10
  <2> HIDE DEF G
  <2>3. \A k \in 0 .. n : k \in G
    BY <1>2, <2>1, <2>2, SetInductionUpTo
  <2> QED
    BY <2>3 DEF G
<1>12. \A k \in 1 .. n : k - 1 \in 0 .. n
  BY <1>2
<1>13. Advance(d, c, n)
  BY <1>10, <1>11, <1>12, HeadIs DEF Advance
<1> QED
  BY <1>1, <1>9, <1>13 DEF n

(* The rounds in which frames are released until the next that is missing. *)
Turns(d, c) ==
  /\ d[0] = c
  /\ \A k \in 0 .. BufSize : d[k] \in Buffers
  /\ \A k \in 1 .. BufSize :
       LET j == Slot(d[k - 1].head) IN
       /\ j \in Slots
       /\ \/ ~Ready(d[k - 1], j) /\ d[k] = d[k - 1]
          \/ Ready(d[k - 1], j) /\ Released(d[k - 1], d[k], j)

(* What is ready in turn is released, slot after slot.                     *)
LEMMA InTurnIs ==
  ASSUME NEW c \in Buffers
  PROVE  \E d : Turns(d, c) /\ InTurn(c) = d[BufSize]
<1> DEFINE n == BufSize
           F == [k \in Nat |-> [x \in Buffers |-> NextInTurn(x)]]
           Is(d) == d = [k \in 0 .. n |-> IF k = 0 THEN c ELSE NextInTurn(d[k - 1])]
<1>2. n \in Nat
  BY RxReorderAssumption
<1> HIDE DEF n
<1>3. \A x \in Buffers : NextInTurn(x) \in Buffers
  BY HeadIs DEF Released, NextInTurn
<1>4. F \in [Nat -> [Buffers -> Buffers]] /\ \A k \in Nat : \A x \in Buffers : F[k][x] = NextInTurn(x)
  BY <1>3
<1> HIDE DEF F
<1>5. PICK r : Loop(r, Buffers, F, c, n)
  BY <1>2, <1>4, Rounds
<1>6. \A k \in 0 .. n : (IF k = 0 THEN c ELSE F[k][r[k - 1]]) = IF k = 0 THEN c ELSE NextInTurn(r[k - 1])
  <2>1. \A k \in 0 .. n : k # 0 => k \in Nat /\ r[k - 1] \in Buffers
    BY <1>2, <1>5 DEF Loop
  <2> QED
    BY <1>4, <2>1, Zenon
<1>7. Is(r)
  BY <1>5, <1>6, Zenon DEF Loop
<1> DEFINE d == CHOOSE d : Is(d)
<1>8. Is(d)
  BY <1>7, Zenon
<1>9. InTurn(c) = d[n]
  BY DEF InTurn, n
<1> HIDE DEF d
<1>10. d[0] = c /\ \A k \in 1 .. n : d[k] = NextInTurn(d[k - 1])
  <2>1. \A k \in 0 .. n : d[k] = IF k = 0 THEN c ELSE NextInTurn(d[k - 1])
    BY <1>8, Zenon
  <2>2. 0 \in 0 .. n /\ \A k \in 1 .. n : k \in 0 .. n /\ k # 0
    BY <1>2
  <2> QED
    BY <2>1, <2>2, Zenon
<1>11. \A k \in 0 .. n : d[k] \in Buffers
  <2> DEFINE G == {k \in 0 .. n : d[k] \in Buffers}
  <2>1. 0 \in G
    BY <1>2, <1>10
  <2>2. \A k \in 1 .. n : k - 1 \in G => k \in G
    BY <1>2, <1>3, <1>10
  <2> HIDE DEF G
  <2>3. \A k \in 0 .. n : k \in G
    BY <1>2, <2>1, <2>2, SetInductionUpTo
  <2> QED
    BY <2>3 DEF G
<1>12. \A k \in 1 .. n : k - 1 \in 0 .. n
  BY <1>2
<1>13. \A k \in 1 .. n : d[k] = NextInTurn(d[k - 1]) /\ d[k - 1] \in Buffers
  BY <1>10, <1>11, <1>12
<1>14. ASSUME NEW k \in 1 .. n
       PROVE  LET j == Slot(d[k - 1].head) IN
              /\ j \in Slots
              /\ \/ ~Ready(d[k - 1], j) /\ d[k] = d[k - 1]
                 \/ Ready(d[k - 1], j) /\ Released(d[k - 1], d[k], j)
  BY <1>13, HeadIs DEF NextInTurn
<1>15. Turns(d, c)
  BY <1>10, <1>11, <1>14, Zenon DEF Turns, n
<1> QED
  BY <1>9, <1>15 DEF n

(* Numbers start again at the end.                                         *)
LEMMA PlusIn ==
  ASSUME NEW s \in SNs, NEW n \in Nat
  PROVE  Plus(s, n) \in SNs
<1>1. s + n \in Nat /\ SnMod \in Nat \ {0}
  BY RxReorderAssumption DEF SNs
<1> QED
  BY <1>1, ModOnce DEF Plus, SNs

(* What the setting of the timer leaves.                                   *)
Timed(c, d) ==
  /\ d \in Buffers /\ Kept(c, d)
  /\ d.head = c.head /\ d.stored = c.stored /\ d.buf = c.buf /\ d.filtered = c.filtered
  /\ d.frames = c.frames
  /\ c.removed => d.timer \in {c.timer, Off}
  /\ ~c.removed /\ c.stored > 0 => d.timer # Off

(* set_release_timer: the timer is armed while frames are stored.          *)
LEMMA TimerIs ==
  ASSUME NEW c \in Buffers, NEW j \in Slots
  PROVE  Timed(c, SetReleaseTimer(c, j))
<1> DEFINE t == Timeout + 1 - c.age[j]
<1>1. t \in 0 .. Off /\ t # Off
  <2>1. c.age[j] \in 0 .. Timeout + 1
    BY DEF Buffers
  <2> QED
    BY <2>1, RxReorderAssumption DEF Off
<1> HIDE DEF t
<1> DEFINE d == [c EXCEPT !.timer = t]
<1>2. d \in Buffers
  BY <1>1 DEF Buffers
<1>3. /\ Kept(c, d) /\ d.head = c.head /\ d.stored = c.stored /\ d.buf = c.buf
      /\ d.filtered = c.filtered /\ d.frames = c.frames /\ d.timer = t
  BY DEF Buffers, Kept
<1>4. SetReleaseTimer(c, j) = IF c.removed THEN c ELSE d
  BY DEF SetReleaseTimer, t
<1> HIDE DEF d
<1>5. CASE c.removed
  BY <1>4, <1>5 DEF Timed, Kept
<1>6. CASE ~c.removed
  BY <1>1, <1>2, <1>3, <1>4, <1>6 DEF Timed
<1> QED
  BY <1>5, <1>6

(* The slot the timer is set for is one of the buffer's.                   *)
LEMMA FirstReadyIn ==
  ASSUME NEW c \in Buffers
  PROVE  FirstReady(c) \in Slots
<1> DEFINE ready == {k \in 0 .. BufSize - 1 : Ready(c, (Slot(c.head) + k) % BufSize)}
           m == IF ready = {} THEN BufSize - 1 ELSE Min(ready)
<1>1. BufSize \in Nat \ {0} /\ ready \subseteq Nat
  BY RxReorderAssumption
<1>2. Slot(c.head) \in Nat
  BY <1>1, HeadIs DEF Slots
<1>3. FirstReady(c) = (Slot(c.head) + m) % BufSize
  BY DEF FirstReady
<1> HIDE DEF ready
<1>4. m \in Nat
  <2>1. CASE ready = {}
    BY <1>1, <2>1
  <2>2. CASE ready # {}
    <3>1. \E x \in ready : \A y \in ready : x <= y
      BY <1>1, <2>2, LeastElement
    <3>2. Min(ready) \in ready
      BY <3>1 DEF Min
    <3> QED
      BY <1>1, <2>2, <3>2
  <2> QED
    BY <2>1, <2>2
<1> HIDE DEF m
<1> QED
  BY <1>1, <1>2, <1>3, <1>4, ModOnce DEF Slots

(* The release timer after the buffer was searched.                        *)
LEMMA ArmIs ==
  ASSUME NEW c \in Buffers
  PROVE  Timed(c, Arm(c))
<1>1. CASE c.stored > 0
  BY <1>1, FirstReadyIn, TimerIs DEF Arm
<1>2. CASE ~(c.stored > 0)
  <2> DEFINE d == [c EXCEPT !.timer = Off]
  <2>1. Arm(c) = d
    BY <1>2 DEF Arm
  <2>4. Off \in 0 .. Off
    BY RxReorderAssumption DEF Off
  <2>2. d \in Buffers
    BY <2>4 DEF Buffers
  <2>3. /\ Kept(c, d) /\ d.head = c.head /\ d.stored = c.stored /\ d.buf = c.buf
        /\ d.filtered = c.filtered /\ d.frames = c.frames /\ d.timer = Off
    BY DEF Buffers, Kept
  <2> HIDE DEF d
  <2> QED
    BY <1>2, <2>1, <2>2, <2>3 DEF Timed
<1> QED
  BY <1>1, <1>2

(* The release of a slot that has timed out, after the slots skipped.      *)
Skips(c, d, index, skipped, j) ==
  /\ d \in Buffers /\ Kept(c, d) /\ d.timer = c.timer
  /\ d.head = Plus(Plus(c.head, 1), skipped)
  /\ d.buf = [i \in Slots |-> IF i = j \/ i \in Between(index, j) THEN <<>> ELSE c.buf[i]]
  /\ d.filtered = c.filtered \ {j}
  /\ c.buf[j] # <<>> => d.frames = c.frames \o c.buf[j] /\ d.stored = c.stored - 1
  /\ c.buf[j] = <<>> => d.frames = c.frames /\ d.stored = c.stored

(* A frame that timed out is released, and the head skips to after it.     *)
LEMMA SkipsIs ==
  ASSUME NEW c \in Buffers, NEW index, NEW skipped \in Nat, NEW j \in Slots,
         j \notin Between(index, j), Ready(c, j)
  PROVE  Skips(c, TimedOut(c, index, skipped, j), index, skipped, j)
<1> DEFINE buf == [i \in Slots |-> IF i \in Between(index, j) THEN <<>> ELSE c.buf[i]]
           p == [c EXCEPT !.buf = buf]
           e == ReleaseFrame(p, j)
           head == Plus(e.head, skipped)
           d == [e EXCEPT !.head = head]
<1>1. TimedOut(c, index, skipped, j) = d
  BY DEF TimedOut, Buffers
<1>2. buf \in [Slots -> Seq(Frames)]
  <2>1. \A i \in Slots : c.buf[i] \in Seq(Frames) /\ <<>> \in Seq(Frames)
    BY DEF Buffers
  <2> QED
    BY <2>1
<1>3. buf[j] = c.buf[j]
  OBVIOUS
<1>4. [buf EXCEPT ![j] = <<>>]
        = [i \in Slots |-> IF i = j \/ i \in Between(index, j) THEN <<>> ELSE c.buf[i]]
  OBVIOUS
<1> HIDE DEF buf
<1>5. p \in Buffers /\ p.buf = buf /\ p.filtered = c.filtered /\ p.head = c.head
      /\ p.frames = c.frames /\ p.stored = c.stored /\ Kept(c, p) /\ p.timer = c.timer
  BY <1>2 DEF Buffers, Kept
<1> HIDE DEF p
<1>6. Released(p, e, j)
  BY <1>5, ReleaseIs
<1> HIDE DEF e
<1>7. e \in Buffers /\ e.head = Plus(c.head, 1) /\ e.buf = [buf EXCEPT ![j] = <<>>]
      /\ e.filtered = c.filtered \ {j} /\ Kept(c, e) /\ e.timer = c.timer
  BY <1>5, <1>6 DEF Released, Kept
<1>8. Ready(p, j) <=> Ready(c, j)
  BY <1>3, <1>5 DEF Ready, Complete
<1>9. /\ c.buf[j] # <<>> => e.frames = c.frames \o c.buf[j] /\ e.stored = c.stored - 1
      /\ c.buf[j] = <<>> => e.frames = c.frames /\ e.stored = c.stored
  BY <1>3, <1>5, <1>6, <1>8 DEF Released
<1>10. head \in SNs
  BY <1>7, PlusIn DEF Buffers
<1>11. head = Plus(Plus(c.head, 1), skipped)
  BY <1>7
<1> HIDE DEF head
<1>12. d \in Buffers
  BY <1>7, <1>10 DEF Buffers
<1>13. d.head = head /\ d.buf = e.buf /\ d.filtered = e.filtered /\ Kept(e, d) /\ d.timer = e.timer
       /\ d.frames = e.frames /\ d.stored = e.stored
  BY <1>7 DEF Buffers, Kept
<1> HIDE DEF d
<1>14. Kept(c, d)
  BY <1>7, <1>13 DEF Kept
<1>15. d.buf = [i \in Slots |-> IF i = j \/ i \in Between(index, j) THEN <<>> ELSE c.buf[i]]
  BY <1>4, <1>7, <1>13, Zenon
<1>16. Skips(c, d, index, skipped, j)
  BY <1>7, <1>9, <1>11, <1>12, <1>13, <1>14, <1>15 DEF Skips
<1> QED
  BY <1>1, <1>16, Zenon

(* The slots between two are those at the distances between.               *)
LEMMA BetweenIs ==
  ASSUME NEW h \in SNs, NEW k \in 1 .. BufSize - 1
  PROVE  /\ At(h, k) \in Slots
         /\ Between(Slot(h), At(h, k)) = {At(h, i) : i \in 1 .. k - 1}
         /\ At(h, k) \notin Between(Slot(h), At(h, k))
<1> DEFINE x == Slot(h)
           j == At(h, k)
           y == j + BufSize - x
<1>1. /\ BufSize \in Nat \ {0} /\ x \in Slots /\ j \in Slots /\ k \in 0 .. BufSize
      /\ x + k < BufSize => j = x + k
      /\ BufSize <= x + k => j = x + k - BufSize
  <2>1. k \in 0 .. BufSize /\ BufSize \in Nat \ {0}
    BY RxReorderAssumption
  <2> QED
    BY <2>1, AtIs
<1> HIDE DEF x, j
<1>2. y \in Nat /\ y < 2 * BufSize /\ (y = k \/ y = k + BufSize) /\ k < BufSize
  BY <1>1 DEF Slots
<1> HIDE DEF y
<1>3. y % BufSize = k
  <2> DEFINE r == y % BufSize
  <2>1. (y < BufSize => r = y) /\ (BufSize <= y => r = y - BufSize)
    BY <1>1, <1>2, ModOnce
  <2> HIDE DEF r
  <2>2. r = k
    BY <1>1, <1>2, <2>1
  <2> QED
    BY <2>2 DEF r
<1>4. Between(x, j) = {(x + i) % BufSize : i \in 1 .. k - 1}
  BY <1>3 DEF Between, y
<1>5. Between(x, j) = {At(h, i) : i \in 1 .. k - 1}
  BY <1>4 DEF At, x
<1>6. \A i \in 1 .. k - 1 : At(h, i) # At(h, k)
  <2>1. \A i \in 1 .. k - 1 : i \in 0 .. BufSize - 1 /\ k \in 0 .. BufSize - 1 /\ i # k
    BY <1>1
  <2> QED
    BY <2>1, AtOnce
<1> QED
  BY <1>1, <1>5, <1>6 DEF x, j

(* The rounds of the search for frames that have timed out.                *)
Searches == [c : Buffers, index : Slots, skipped : Nat, done : BOOLEAN]

Round(s, t, j) ==
  /\ t.index = s.index
  /\ \/ s.done /\ t = s
     \/ ~s.done /\ ~t.done /\ ~Ready(s.c, j) /\ t.c = s.c /\ t.skipped = s.skipped + 1
     \/ ~s.done /\ t.done /\ Ready(s.c, j) /\ Timed(s.c, t.c)
     \/ ~s.done /\ ~t.done /\ Ready(s.c, j) /\ t.skipped = 0
        /\ Skips(s.c, t.c, s.index, s.skipped, j)

(* One round of the search for frames that timed out.                      *)
LEMMA RoundIs ==
  ASSUME NEW h \in SNs, NEW s \in Searches, s.index = Slot(h), NEW k \in 1 .. BufSize - 1
  PROVE  Search(s, k) \in Searches /\ Round(s, Search(s, k), At(h, k))
<1> DEFINE j == (s.index + k) % BufSize
           c == s.c
           t == Search(s, k)
           give == s.skipped > 0 /\ c.age[j] <= Timeout
           armed == SetReleaseTimer(c, j)
           out == TimedOut(c, s.index, s.skipped, j)
<1>1. j = At(h, k) /\ j \in Slots /\ j \notin Between(s.index, j)
  BY BetweenIs DEF At
<1>2. c \in Buffers /\ s.index \in Slots /\ s.skipped \in Nat /\ s.done \in BOOLEAN
  BY DEF Searches
<1>3. /\ s.done => t = s
      /\ ~s.done /\ ~Ready(c, j) => t = [s EXCEPT !.skipped = s.skipped + 1]
      /\ ~s.done /\ Ready(c, j) /\ give => t = [s EXCEPT !.done = TRUE, !.c = armed]
      /\ ~s.done /\ Ready(c, j) /\ ~give => t = [s EXCEPT !.c = out, !.skipped = 0]
  BY <1>2 DEF Search, Searches
<1>4. Timed(c, armed) /\ armed \in Buffers
  BY <1>1, <1>2, TimerIs DEF Timed
<1>5. Ready(c, j) => Skips(c, out, s.index, s.skipped, j) /\ out \in Buffers
  <2> HIDE DEF j, out
  <2>1. Ready(c, j) => Skips(c, out, s.index, s.skipped, j)
    <3> HIDE DEF c
    <3> QED
      BY <1>1, <1>2, SkipsIs DEF out
  <2> QED
    BY <2>1 DEF Skips
<1> HIDE DEF j, t, give, armed, out
<1>6. CASE s.done
  BY <1>1, <1>2, <1>3, <1>6 DEF Round, t
<1>7. CASE ~s.done /\ ~Ready(c, j)
  <2>1. t \in Searches /\ t.index = s.index /\ ~t.done /\ t.c = s.c /\ t.skipped = s.skipped + 1
    BY <1>2, <1>3, <1>7 DEF Searches
  <2> QED
    BY <1>1, <1>7, <2>1 DEF Round, t
<1>8. CASE ~s.done /\ Ready(c, j) /\ give
  <2>1. t \in Searches /\ t.index = s.index /\ t.done /\ t.c = armed
    BY <1>2, <1>3, <1>4, <1>8 DEF Searches
  <2> QED
    BY <1>1, <1>4, <1>8, <2>1 DEF Round, t
<1>9. CASE ~s.done /\ Ready(c, j) /\ ~give
  <2>2. t = [s EXCEPT !.c = out, !.skipped = 0] /\ out \in Buffers
    BY <1>3, <1>5, <1>9
  <2>1. t \in Searches /\ t.index = s.index /\ ~t.done /\ t.c = out /\ t.skipped = 0
    BY <1>9, <2>2 DEF Searches
  <2> QED
    BY <1>1, <1>5, <1>9, <2>1 DEF Round, t
<1> QED
  BY <1>2, <1>6, <1>7, <1>8, <1>9

Hunt(d, c) ==
  /\ d[0].c = c /\ d[0].index = Slot(c.head) /\ d[0].skipped = 1 /\ ~d[0].done
  /\ \A k \in 0 .. BufSize - 1 : d[k] \in Searches
  /\ \A k \in 1 .. BufSize - 1 : Round(d[k - 1], d[k], At(c.head, k))

(* The search goes round the buffer once, in rounds.                       *)
LEMMA SearchedIs ==
  ASSUME NEW c \in Buffers
  PROVE  \E d : Hunt(d, c) /\ Searched(c) = d[BufSize - 1]
<1> DEFINE n == BufSize - 1
           h == c.head
           a == [c |-> c, index |-> Slot(c.head), skipped |-> 1, done |-> FALSE]
           next(x, k) == IF Search(x, k) \in Searches THEN Search(x, k) ELSE x
           F == [k \in Nat |-> [x \in Searches |-> next(x, k)]]
           Is(d) == d = [k \in 0 .. n |-> IF k = 0 THEN a ELSE Search(d[k - 1], k)]
<1>1. n \in Nat /\ h \in SNs
  BY RxReorderAssumption DEF Buffers
<1>2. a \in Searches /\ a.c = c /\ a.index = Slot(h) /\ a.skipped = 1 /\ ~a.done
  BY HeadIs DEF Searches
<1>3. F \in [Nat -> [Searches -> Searches]] /\ \A k \in Nat : \A x \in Searches : F[k][x] = next(x, k)
  OBVIOUS
<1>4. \A k \in 1 .. n : \A x \in Searches : x.index = Slot(h) =>
        next(x, k) = Search(x, k) /\ Search(x, k) \in Searches /\ Round(x, Search(x, k), At(h, k))
  BY <1>1, RoundIs
<1> HIDE DEF F, a
<1>5. PICK r : Loop(r, Searches, F, a, n)
  <2> HIDE DEF n
  <2> QED
    BY <1>1, <1>2, <1>3, Rounds
<1>6. r[0] = a /\ \A k \in 1 .. n : r[k] = F[k][r[k - 1]]
  <2>1. \A k \in 0 .. n : r[k] = IF k = 0 THEN a ELSE F[k][r[k - 1]]
    BY <1>5, Zenon DEF Loop
  <2>2. 0 \in 0 .. n /\ \A k \in 1 .. n : k \in 0 .. n /\ k # 0
    BY <1>1
  <2> QED
    BY <2>1, <2>2, Zenon
<1> HIDE DEF n, next, h
<1>7. \A k \in 0 .. n : r[k] \in Searches /\ r[k].index = Slot(h)
  <2> DEFINE G == {k \in 0 .. n : r[k] \in Searches /\ r[k].index = Slot(h)}
  <2>1. 0 \in G
    BY <1>1, <1>2, <1>6
  <2>2. ASSUME NEW k \in 1 .. n, k - 1 \in G PROVE k \in G
    <3>1. r[k - 1] \in Searches /\ r[k - 1].index = Slot(h) /\ k \in Nat
      BY <1>1, <2>2
    <3>2. r[k] = Search(r[k - 1], k)
      BY <1>3, <1>4, <1>6, <3>1, Zenon
    <3>3. r[k] \in Searches /\ r[k].index = r[k - 1].index
      BY <1>4, <3>1, <3>2 DEF Round
    <3> QED
      BY <1>1, <3>1, <3>3
  <2> HIDE DEF G
  <2>3. \A k \in 0 .. n : k \in G
    BY <1>1, <2>1, <2>2, SetInductionUpTo
  <2> QED
    BY <2>3 DEF G
<1>8. \A k \in 1 .. n : r[k] = Search(r[k - 1], k)
  <2>1. \A k \in 1 .. n : k - 1 \in 0 .. n /\ k \in Nat
    BY <1>1
  <2> QED
    BY <1>3, <1>4, <1>6, <1>7, <2>1, Zenon
<1>9. Is(r)
  <2>1. \A k \in 0 .. n : r[k] = IF k = 0 THEN a ELSE Search(r[k - 1], k)
    <3>1. \A k \in 0 .. n : k = 0 \/ k \in 1 .. n
      BY <1>1
    <3> QED
      BY <1>6, <1>8, <3>1, Zenon
  <2>2. r = [k \in 0 .. n |-> r[k]]
    BY <1>5 DEF Loop
  <2> QED
    BY <2>1, <2>2, Zenon
<1> DEFINE d == CHOOSE d : Is(d)
<1>10. Is(d)
  BY <1>9, Zenon
<1>11. Searched(c) = d[n]
  BY DEF Searched, n, a
<1> HIDE DEF d
<1>12. d[0] = a /\ \A k \in 1 .. n : d[k] = Search(d[k - 1], k)
  <2>1. \A k \in 0 .. n : d[k] = IF k = 0 THEN a ELSE Search(d[k - 1], k)
    BY <1>10, Zenon
  <2>2. 0 \in 0 .. n /\ \A k \in 1 .. n : k \in 0 .. n /\ k # 0
    BY <1>1
  <2> QED
    BY <2>1, <2>2, Zenon
<1>13. \A k \in 0 .. n : d[k] \in Searches /\ d[k].index = Slot(h)
  <2> DEFINE G == {k \in 0 .. n : d[k] \in Searches /\ d[k].index = Slot(h)}
  <2>1. 0 \in G
    BY <1>1, <1>2, <1>12
  <2>2. ASSUME NEW k \in 1 .. n, k - 1 \in G PROVE k \in G
    <3>1. d[k - 1] \in Searches /\ d[k - 1].index = Slot(h) /\ k \in Nat
      BY <1>1, <2>2
    <3>2. d[k] \in Searches /\ d[k].index = d[k - 1].index
      BY <1>4, <1>12, <3>1 DEF Round
    <3> QED
      BY <1>1, <3>1, <3>2
  <2> HIDE DEF G
  <2>3. \A k \in 0 .. n : k \in G
    BY <1>1, <2>1, <2>2, SetInductionUpTo
  <2> QED
    BY <2>3 DEF G
<1>14. \A k \in 1 .. n : Round(d[k - 1], d[k], At(h, k))
  <2>1. \A k \in 1 .. n : k - 1 \in 0 .. n
    BY <1>1
  <2> QED
    BY <1>4, <1>12, <1>13, <2>1
<1>15. Hunt(d, c)
  BY <1>2, <1>12, <1>13, <1>14 DEF Hunt, n, h
<1> QED
  BY <1>11, <1>15 DEF n

-----------------------------------------------------------------------------
(* The count of what is stored, and the marks.                             *)
Full(c) == {j \in Slots : Complete(c, j)}

Tidy(c) ==
  /\ c \in Buffers /\ c.stored = Cardinality(Full(c))
  /\ \A j \in c.filtered : c.buf[j] = <<>>

(* The slots that hold a whole frame can be counted.                       *)
LEMMA FullIs ==
  ASSUME NEW c
  PROVE  IsFiniteSet(Full(c)) /\ Cardinality(Full(c)) \in 0 .. BufSize
<1>1. BufSize \in Nat \ {0} /\ 0 \in Int /\ BufSize - 1 \in Int /\ ~(0 > BufSize - 1)
      /\ BufSize - 1 - 0 + 1 = BufSize
  BY RxReorderAssumption
<1>2. IsFiniteSet(0 .. BufSize - 1)
      /\ Cardinality(0 .. BufSize - 1) = IF 0 > BufSize - 1 THEN 0 ELSE BufSize - 1 - 0 + 1
  BY <1>1, FS_Interval
<1>3. IsFiniteSet(Slots) /\ Cardinality(Slots) = BufSize
  BY <1>1, <1>2 DEF Slots
<1>4. Full(c) \in SUBSET Slots
  BY DEF Full
<1>5. IsFiniteSet(Full(c)) /\ Cardinality(Full(c)) <= BufSize
  BY <1>3, <1>4, FS_Subset
<1>6. Cardinality(Full(c)) \in Nat
  BY <1>5, FS_CardinalityType
<1> QED
  BY <1>1, <1>5, <1>6

(* A slot that is emptied is taken off the count if it was complete.       *)
LEMMA TidyLess ==
  ASSUME NEW c, Tidy(c), NEW d \in Buffers, NEW j \in Slots,
         \A i \in Slots : d.buf[i] = c.buf[i] \/ (d.buf[i] = <<>> /\ (i = j \/ ~Complete(c, i))),
         d.buf[j] = <<>>, d.filtered \subseteq c.filtered,
         Complete(c, j) => d.stored = c.stored - 1,
         ~Complete(c, j) => d.stored = c.stored
  PROVE  Tidy(d)
<1>1. Full(d) = Full(c) \ {j}
  BY DEF Full, Complete
<1>2. IsFiniteSet(Full(c)) /\ Cardinality(Full(c)) \in Nat
  BY FullIs
<1>3. Cardinality(Full(d)) = IF j \in Full(c) THEN Cardinality(Full(c)) - 1 ELSE Cardinality(Full(c))
  BY <1>1, <1>2, FS_RemoveElement
<1>4. j \in Full(c) <=> Complete(c, j)
  BY DEF Full
<1>5. d.stored = Cardinality(Full(d))
  BY <1>3, <1>4 DEF Tidy
<1>6. \A i \in d.filtered : d.buf[i] = <<>>
  <2>1. d.filtered \subseteq Slots
    BY DEF Buffers
  <2> QED
    BY <2>1 DEF Tidy
<1> QED
  BY <1>5, <1>6 DEF Tidy

(* A release keeps the count.                                              *)
LEMMA TidyReleased ==
  ASSUME NEW c, Tidy(c), NEW j \in Slots, NEW d, Released(c, d, j)
  PROVE  Tidy(d) /\ d.stored <= c.stored
<1>1. c \in Buffers /\ d \in Buffers
  BY DEF Tidy, Released
<1>2. c.buf[j] # <<>> /\ Ready(c, j) <=> Complete(c, j)
  BY DEF Tidy, Ready, Complete
<1>3. \A i \in Slots : d.buf[i] = IF i = j THEN <<>> ELSE c.buf[i]
  BY <1>1 DEF Released, Buffers
<1>4. d.filtered \subseteq c.filtered
  BY DEF Released
<1>5. /\ Complete(c, j) => d.stored = c.stored - 1
      /\ ~Complete(c, j) => d.stored = c.stored
  BY <1>2 DEF Released
<1>6. Tidy(d)
  BY <1>1, <1>3, <1>4, <1>5, TidyLess
<1>7. c.stored \in Int
  BY <1>1 DEF Buffers
<1> QED
  BY <1>5, <1>6, <1>7

(* A skip keeps the count.                                                 *)
LEMMA TidySkips ==
  ASSUME NEW c, Tidy(c), NEW j \in Slots, NEW d, NEW index, NEW skipped, Skips(c, d, index, skipped, j),
         Ready(c, j), \A i \in Between(index, j) : ~Ready(c, i)
  PROVE  Tidy(d) /\ d.stored <= c.stored
<1>1. c \in Buffers /\ d \in Buffers
  BY DEF Tidy, Skips
<1>2. c.buf[j] # <<>> <=> Complete(c, j)
  BY DEF Tidy, Ready, Complete
<1>3. \A i \in Slots : d.buf[i] = IF i = j \/ i \in Between(index, j) THEN <<>> ELSE c.buf[i]
  BY <1>1 DEF Skips
<1>4. \A i \in Slots : i \in Between(index, j) => ~Complete(c, i)
  BY DEF Ready
<1>5. d.filtered \subseteq c.filtered
  BY DEF Skips
<1>6. /\ Complete(c, j) => d.stored = c.stored - 1
      /\ ~Complete(c, j) => d.stored = c.stored
  BY <1>2 DEF Skips
<1>7. Tidy(d)
  <2>1. \A i \in Slots : d.buf[i] = c.buf[i] \/ (d.buf[i] = <<>> /\ (i = j \/ ~Complete(c, i)))
    BY <1>3, <1>4
  <2>2. d.buf[j] = <<>>
    BY <1>3
  <2> QED
    BY <1>1, <1>5, <1>6, <2>1, <2>2, TidyLess
<1>8. c.stored \in Int
  BY <1>1 DEF Buffers
<1> QED
  BY <1>6, <1>7, <1>8

(* Setting the timer keeps the count.                                      *)
LEMMA TidyTimed ==
  ASSUME NEW c, Tidy(c), NEW d, Timed(c, d)
  PROVE  Tidy(d)
<1>1. d \in Buffers /\ d.buf = c.buf /\ d.filtered = c.filtered /\ d.stored = c.stored
  BY DEF Timed
<1>2. Full(d) = Full(c)
  BY <1>1 DEF Full, Complete
<1> QED
  BY <1>1, <1>2 DEF Tidy

-----------------------------------------------------------------------------
(* The way of the head, from h on by n.                                    *)

(* The slot j is one of those of the window of h, n slots or more ahead.   *)
Ahead(h, j, n) == \E i \in 0 .. BufSize - 1 : j = At(h, i) /\ n <= i

(* What is marked was marked to begin with, and has not been passed.       *)
Marks(h, n, F, c) == \A j \in c.filtered : j \in F /\ Ahead(h, j, n)

Going(h, n, F, c) == n \in SNs /\ c.head = Plus(h, n) /\ Marks(h, n, F, c)

(* Whole frames of the window are in their slots,                          *)
Holds(c, j, s) ==
  s \in SNs /\ c.buf[j] = <<[sn |-> s, more |-> FALSE]>> /\ Slot(s) = j /\ Dist(c.head, s) < BufSize

Placed(c) == \A j \in Slots : c.buf[j] = <<>> \/ \E s : Holds(c, j, s)

(* and those handed up are in order and have been passed.                  *)
Passed(h, n, out) ==
  /\ \A i \in DOMAIN out : Dist(h, out[i].sn) < n
  /\ \A i, k \in DOMAIN out : i < k => Dist(h, out[i].sn) < Dist(h, out[k].sn)

Whole(h, n, c) == Placed(c) /\ Passed(h, n, c.frames)

Stays(h, n, c, m, d) == (Placed(c) => Placed(d)) /\ (Whole(h, n, c) => Whole(h, m, d))

(* The slot which is i after one that is n after.                          *)
LEMMA AtLater ==
  ASSUME WholeTurns, NEW h \in SNs, NEW n \in 0 .. BufSize, NEW i \in 0 .. BufSize
  PROVE  /\ n + i <= BufSize => At(Plus(h, n), i) = At(h, n + i)
         /\ BufSize <= n + i => At(Plus(h, n), i) = At(h, n + i - BufSize)
<1>1. BufSize \in Nat \ {0} /\ n \in SNs /\ n \in 0 .. SnMod /\ n \in Nat /\ i \in Nat
  BY RxReorderAssumption DEF SNs
<1> DEFINE g == Plus(h, n)
           x == Slot(h)
           y == Slot(g)
           a == At(g, i)
<1>2. g \in SNs /\ y = At(h, n)
  BY <1>1, PlusIs, SlotPlus
<1>3. /\ x \in Slots
      /\ x + n < BufSize => y = x + n
      /\ BufSize <= x + n => y = x + n - BufSize
  BY <1>2, AtIs
<1>4. /\ y \in Slots
      /\ y + i < BufSize => a = y + i
      /\ BufSize <= y + i => a = y + i - BufSize
  BY <1>2, AtIs
<1>5. ASSUME n + i <= BufSize PROVE a = At(h, n + i)
  <2>1. n + i \in 0 .. BufSize
    BY <1>1, <1>5
  <2> DEFINE e == At(h, n + i)
  <2>2. /\ x + (n + i) < BufSize => e = x + (n + i)
        /\ BufSize <= x + (n + i) => e = x + (n + i) - BufSize
    BY <2>1, AtIs
  <2> HIDE DEF x, y, a, e
  <2>3. a = e
    BY <1>1, <1>3, <1>4, <1>5, <2>2 DEF Slots
  <2> QED
    BY <2>3 DEF e
<1>6. ASSUME BufSize <= n + i PROVE a = At(h, n + i - BufSize)
  <2>1. n + i - BufSize \in 0 .. BufSize
    BY <1>1, <1>6
  <2> DEFINE e == At(h, n + i - BufSize)
  <2>2. /\ x + (n + i - BufSize) < BufSize => e = x + (n + i - BufSize)
        /\ BufSize <= x + (n + i - BufSize) => e = x + (n + i - BufSize) - BufSize
    BY <2>1, AtIs
  <2> HIDE DEF x, y, a, e
  <2>3. a = e
    BY <1>1, <1>3, <1>4, <1>6, <2>2 DEF Slots
  <2> QED
    BY <2>3 DEF e
<1> QED
  BY <1>5, <1>6 DEF a, g

(* A slot ahead of a head by n that is i ahead of the later head.          *)
LEMMA AheadLater ==
  ASSUME WholeTurns, NEW h \in SNs, NEW n \in SNs, NEW i \in 0 .. BufSize - 1,
         Ahead(h, At(Plus(h, n), i), n), NEW x \in Nat, x <= i
  PROVE  Ahead(h, At(Plus(h, n), i), n + x)
<1> DEFINE j == At(Plus(h, n), i)
<1>1. PICK k \in 0 .. BufSize - 1 : j = At(h, k) /\ n <= k
  BY DEF Ahead
<1>2. BufSize \in Nat \ {0} /\ n \in 0 .. BufSize /\ i \in 0 .. BufSize /\ n \in Nat /\ i \in Nat
  BY <1>1, RxReorderAssumption DEF SNs
<1>3. CASE n + i < BufSize
  <2>1. j = At(h, n + i) /\ n + i \in 0 .. BufSize - 1
    BY <1>2, <1>3, AtLater
  <2>2. n + x <= n + i
    BY <1>2
  <2> QED
    BY <2>1, <2>2 DEF Ahead
<1>4. CASE BufSize <= n + i
  <2>1. j = At(h, n + i - BufSize) /\ n + i - BufSize \in 0 .. BufSize - 1
    BY <1>1, <1>2, <1>4, AtLater
  <2> DEFINE l == n + i - BufSize
  <2>2. k \in 0 .. BufSize - 1 /\ l \in 0 .. BufSize - 1 /\ At(h, k) = At(h, l)
    BY <1>1, <2>1
  <2> HIDE DEF l
  <2>3. k = l
    BY <2>2, AtOnce
  <2> QED
    BY <1>1, <1>2, <2>3 DEF l
<1> QED
  BY <1>2, <1>3, <1>4

(* A frame is in the slot that its distance says.                          *)
LEMMA HeldAt ==
  ASSUME WholeTurns, NEW c, c.head \in SNs, NEW j, NEW s, Holds(c, j, s)
  PROVE  Dist(c.head, s) \in 0 .. BufSize - 1 /\ j = At(c.head, Dist(c.head, s))
BY SlotOf DEF Holds

(* One more frame is passed.                                               *)
LEMMA PassedOne ==
  ASSUME NEW h, NEW n \in Int, NEW m \in Int, NEW out \in Seq(Frames), Passed(h, n, out),
         NEW s \in SNs, n <= Dist(h, s), Dist(h, s) < m, Dist(h, s) \in Int, n <= m,
         \A t \in SNs : Dist(h, t) \in Int
  PROVE  Passed(h, m, out \o <<[sn |-> s, more |-> FALSE]>>)
<1> DEFINE f == [sn |-> s, more |-> FALSE]
           q == out \o <<f>>
           l == Len(out)
<1>1. /\ l \in Nat /\ DOMAIN out = 1 .. l /\ DOMAIN q = 1 .. (l + 1)
      /\ q[l + 1] = f /\ \A i \in 1 .. l : q[i] = out[i] /\ out[i].sn \in SNs
  <2>1. f \in Frames
    BY DEF Frames
  <2> HIDE DEF f
  <2>2. l \in Nat /\ DOMAIN out = 1 .. l /\ DOMAIN q = 1 .. (l + 1) /\ q[l + 1] = f
        /\ \A i \in 1 .. l : q[i] = out[i] /\ out[i] \in Frames
    BY <2>1
  <2> QED
    BY <2>2 DEF Frames
<1>2. f.sn = s
  OBVIOUS
<1> HIDE DEF f, q, l
<1>3. ASSUME NEW i \in DOMAIN q
      PROVE  Dist(h, q[i].sn) < m /\ (i # l + 1 => Dist(h, q[i].sn) < n /\ i \in DOMAIN out)
  <2>1. CASE i = l + 1
    BY <1>1, <1>2, <2>1
  <2>2. CASE i # l + 1
    <3>1. i \in DOMAIN out /\ q[i] = out[i] /\ out[i].sn \in SNs
      BY <1>1, <2>2
    <3>2. Dist(h, out[i].sn) < n /\ Dist(h, out[i].sn) \in Int
      BY <3>1 DEF Passed
    <3> QED
      BY <3>1, <3>2
  <2> QED
    BY <2>1, <2>2
<1>4. ASSUME NEW i \in DOMAIN q, NEW k \in DOMAIN q, i < k
      PROVE  Dist(h, q[i].sn) < Dist(h, q[k].sn)
  <2>1. i # l + 1
    BY <1>1, <1>4
  <2>2. CASE k = l + 1
    <3>1. q[k].sn = s
      BY <1>1, <1>2, <2>2
    <3>2. Dist(h, q[i].sn) < n /\ Dist(h, q[i].sn) \in Int
      BY <1>1, <1>3, <2>1
    <3> QED
      BY <3>1, <3>2
  <2>3. CASE k # l + 1
    BY <1>1, <1>3, <1>4, <2>1, <2>3 DEF Passed
  <2> QED
    BY <2>2, <2>3
<1>5. Passed(h, m, q)
  BY <1>3, <1>4 DEF Passed
<1> QED
  BY <1>5 DEF q, f

(* Frames in order up to a number are in order up to a later one.          *)
LEMMA PassedMore ==
  ASSUME NEW h \in SNs, NEW n \in Int, NEW m \in Int, n <= m, NEW out \in Seq(Frames), Passed(h, n, out)
  PROVE  Passed(h, m, out)
<1>1. \A i \in DOMAIN out : out[i] \in Frames
  OBVIOUS
<1>2. \A i \in DOMAIN out : Dist(h, out[i].sn) \in Int
  <2>1. \A t \in SNs : Dist(h, t) \in SNs
    BY DistIs
  <2>2. \A i \in DOMAIN out : out[i].sn \in SNs
    BY <1>1 DEF Frames
  <2>3. SNs \subseteq Int
    BY DEF SNs
  <2> QED
    BY <2>1, <2>2, <2>3
<1> QED
  BY <1>2 DEF Passed

(* The slot of the head is released: the head goes on by one.              *)
LEMMA StepOn ==
  ASSUME WholeTurns, NEW h \in SNs, NEW n, NEW F, NEW c \in Buffers, Going(h, n, F, c), n + 1 \in SNs,
         NEW d, Released(c, d, Slot(c.head))
  PROVE  Going(h, n + 1, F, d) /\ Stays(h, n, c, n + 1, d)
<1> DEFINE g == c.head
           j == Slot(g)
<1>1. /\ n \in SNs /\ n \in Nat /\ g = Plus(h, n) /\ g \in SNs /\ j \in Slots /\ j = At(g, 0)
      /\ BufSize \in Nat \ {0} /\ BufSize < SnMod /\ SnMod \in Nat /\ n + 1 < SnMod
  <2>1. n \in SNs /\ g = Plus(h, n) /\ g \in SNs
    BY DEF Going, Buffers
  <2>2. j \in Slots
    BY HeadIs
  <2>3. j = At(g, 0)
    BY <2>1, AtOnce
  <2>4. n \in Nat /\ BufSize \in Nat \ {0} /\ BufSize < SnMod /\ SnMod \in Nat /\ n + 1 < SnMod
    BY <2>1, RxReorderAssumption DEF SNs
  <2> QED
    BY <2>1, <2>2, <2>3, <2>4
<1>2. d.head = Plus(g, 1) /\ Plus(g, 1) = Plus(h, n + 1)
  BY <1>1, PlusPlus DEF Released
<1>3. ASSUME NEW i \in d.filtered PROVE i \in F /\ Ahead(h, i, n + 1)
  <2>1. i \in c.filtered /\ i # j /\ i \in Slots
    BY DEF Released, Buffers
  <2>2. PICK k \in 0 .. BufSize - 1 : i = At(g, k)
    BY <1>1, <2>1, AtOnce
  <2>3. i \in F /\ Ahead(h, i, n)
    BY <2>1 DEF Going, Marks
  <2>4. 1 <= k /\ 1 \in Nat
    BY <1>1, <2>1, <2>2
  <2>5. Ahead(h, At(g, k), n + 1)
    BY <1>1, <2>2, <2>3, <2>4, AheadLater
  <2> QED
    BY <2>2, <2>3, <2>5
<1>4. Going(h, n + 1, F, d)
  BY <1>2, <1>3 DEF Going, Marks
<1>5. ASSUME Placed(c) PROVE Placed(d)
  <2> SUFFICES ASSUME NEW i \in Slots, d.buf[i] # <<>> PROVE \E s : Holds(d, i, s)
    BY DEF Placed
  <2>1. i # j /\ d.buf[i] = c.buf[i]
    BY <1>1 DEF Released, Buffers
  <2>2. PICK s : Holds(c, i, s)
    BY <1>5, <2>1 DEF Whole, Placed
  <2>3. s \in SNs /\ Slot(s) = i /\ Dist(g, s) < BufSize /\ Dist(g, s) \in SNs
    BY <1>1, <2>2, DistIs DEF Holds
  <2>4. Dist(g, s) # 0
    BY <1>1, <2>1, <2>2, HeldAt
  <2>5. g \in SNs /\ s \in SNs /\ 1 < SnMod
    BY <1>1, <2>3
  <2>6. Dist(Plus(g, 1), s) = Dist(g, s) - 1
    BY <2>4, <2>5, DistNext
  <2>7. Dist(d.head, s) < BufSize
    BY <1>1, <1>2, <2>3, <2>6 DEF SNs
  <2> QED
    BY <2>1, <2>2, <2>3, <2>7 DEF Holds
<1>6. ASSUME Whole(h, n, c) PROVE Passed(h, n + 1, d.frames)
  <2>1. c.frames \in Seq(Frames) /\ n \in Int /\ n + 1 \in Int /\ n <= n + 1
    BY <1>1 DEF Buffers
  <2>2. CASE d.frames = c.frames
    BY <1>6, <2>1, <2>2, PassedMore DEF Whole
  <2>3. CASE d.frames # c.frames
    <3>1. c.buf[j] # <<>> /\ d.frames = c.frames \o c.buf[j]
      BY <2>3 DEF Released
    <3>2. PICK s : Holds(c, j, s)
      BY <1>1, <1>6, <3>1 DEF Whole, Placed
    <3>3. Dist(g, s) \in 0 .. BufSize - 1 /\ At(g, Dist(g, s)) = At(g, 0)
      BY <1>1, <3>2, HeldAt
    <3>4. Dist(g, s) = 0 /\ s \in SNs
      <4>1. 0 \in 0 .. BufSize - 1
        BY <1>1
      <4>2. Dist(g, s) = 0
        BY <1>1, <3>3, <4>1, AtOnce
      <4> QED
        BY <3>2, <4>2 DEF Holds
    <3>5. s = g
      BY <1>1, <3>4, DistPlus
    <3>6. Dist(h, s) = n
      BY <1>1, <3>5, DistPlus
    <3>7. \A t \in SNs : Dist(h, t) \in Int
      <4>1. \A t \in SNs : Dist(h, t) \in SNs
        BY DistIs
      <4> QED
        BY <4>1 DEF SNs
    <3>8. Passed(h, n + 1, c.frames \o <<[sn |-> s, more |-> FALSE]>>)
      BY <1>1, <1>6, <2>1, <3>4, <3>6, <3>7, PassedOne DEF Whole
    <3> QED
      BY <3>1, <3>2, <3>8 DEF Holds
  <2> QED
    BY <2>2, <2>3
<1> QED
  BY <1>4, <1>5, <1>6 DEF Whole, Stays

-----------------------------------------------------------------------------
(* What the functions do.                                                  *)

(* The timer: only a buffer which is empty may go without.                 *)
TimerGoes(c, d) ==
  /\ c.removed => d.timer \in {c.timer, Off}
  /\ ~c.removed /\ d.stored > 0 => d.timer # Off \/ (c.stored > 0 /\ d.timer = c.timer)

Armed(d) == ~d.removed /\ d.stored > 0 => d.timer # Off

(* What is in a slot stays or is gone.                                     *)
Fewer(c, d) == \A j \in Slots : d.buf[j] \in {<<>>, c.buf[j]}

(* ieee80211_release_reorder_frames(): all slots that the head passes are  *)
(* emptied.                                                                *)
LEMMA ReleaseFramesDoes ==
  ASSUME WholeTurns, NEW h \in SNs, NEW n, NEW F, NEW c, Tidy(c), Going(h, n, F, c),
         NEW head \in SNs, n + Gap(c, head) \in SNs
  PROVE  LET d == ReleaseFrames(c, head)
             m == n + Gap(c, head)
         IN  /\ Tidy(d) /\ Kept(c, d) /\ TimerGoes(c, d) /\ Fewer(c, d)
             /\ Going(h, m, F, d) /\ Stays(h, n, c, m, d)
             /\ BufSize <= Gap(c, head) => \A j \in Slots : d.buf[j] = <<>>
<1> DEFINE g == Gap(c, head)
           R(k, d) == /\ Tidy(d) /\ Kept(c, d) /\ d.timer = c.timer /\ d.stored <= c.stored
                      /\ Fewer(c, d) /\ Going(h, n + k, F, d) /\ Stays(h, n, c, n + k, d)
                      /\ \A i \in 0 .. BufSize - 1 : i < k => d.buf[At(c.head, i)] = <<>>
<1>1. c \in Buffers /\ g \in SNs /\ \E d : Advance(d, c, g) /\ ReleaseFrames(c, head) = d[g]
  BY ReleaseFramesIs DEF Tidy
<1>2. PICK d : Advance(d, c, g) /\ ReleaseFrames(c, head) = d[g]
  BY <1>1, Zenon
<1>3. /\ g \in Nat /\ n \in Nat /\ n + g < SnMod /\ g < SnMod /\ n \in SNs /\ c.head \in SNs
      /\ SnMod \in Nat /\ BufSize \in Nat \ {0} /\ c.stored \in Int
  BY <1>1, RxReorderAssumption DEF Going, SNs, Buffers
<1> HIDE DEF g
<1>4. R(0, c)
  <2>1. n + 0 = n
    BY <1>3
  <2>2. Kept(c, c) /\ Fewer(c, c) /\ c.stored <= c.stored
    BY <1>3 DEF Kept, Fewer
  <2> QED
    BY <1>3, <2>1, <2>2 DEF Stays
<1>5. ASSUME NEW k \in 1 .. g, R(k - 1, d[k - 1]) PROVE R(k, d[k])
  <2> DEFINE p == d[k - 1]
             e == d[k]
             j == Slot(p.head)
  <2>1. p \in Buffers /\ Released(p, e, j) /\ j \in Slots
    <3>1. k - 1 \in 0 .. g
      BY <1>3
    <3> QED
      BY <1>2, <3>1 DEF Advance
  <2> HIDE DEF p, e
  <2>2. Tidy(p) /\ Kept(c, p) /\ p.timer = c.timer /\ p.stored <= c.stored /\ Fewer(c, p)
        /\ Going(h, n + (k - 1), F, p) /\ Stays(h, n, c, n + (k - 1), p)
        /\ \A i \in 0 .. BufSize - 1 : i < k - 1 => p.buf[At(c.head, i)] = <<>>
    BY <1>5 DEF p
  <2>3. Tidy(e) /\ e.stored <= p.stored /\ p.stored \in Int /\ e.stored \in Int
    <3>1. Tidy(e) /\ e.stored <= p.stored
      BY <2>1, <2>2, TidyReleased
    <3> QED
      BY <2>1, <3>1 DEF Tidy, Buffers
  <2>4. Kept(c, e) /\ e.timer = c.timer /\ e.stored <= c.stored
    BY <1>3, <2>1, <2>2, <2>3 DEF Kept, Released
  <2>5. \A i \in Slots : e.buf[i] = IF i = j THEN <<>> ELSE p.buf[i]
    BY <2>1 DEF Released, Buffers
  <2>6. Fewer(c, e)
    BY <2>2, <2>5 DEF Fewer
  <2>7. (n + (k - 1)) + 1 = n + k /\ n + k \in SNs
    BY <1>3 DEF SNs
  <2>8. Going(h, n + k, F, e) /\ Stays(h, n, c, n + k, e)
    BY <2>1, <2>2, <2>7, StepOn DEF Stays
  <2>9. ASSUME NEW i \in 0 .. BufSize - 1, i < k PROVE e.buf[At(c.head, i)] = <<>>
    <3>1. At(c.head, i) \in Slots
      <4>1. i \in 0 .. BufSize
        BY <1>3
      <4> QED
        BY <1>3, <4>1, AtIs
    <3>2. CASE i < k - 1
      BY <2>2, <2>5, <3>1, <3>2
    <3>3. CASE i = k - 1
      <4>1. p.head = Plus(h, n + i) /\ c.head = Plus(h, n)
        BY <2>2, <3>3 DEF Going
      <4>2. i \in Nat /\ n + i <= SnMod /\ i \in 0 .. BufSize
        BY <1>3, <3>3
      <4>3. p.head = Plus(c.head, i)
        BY <1>3, <4>1, <4>2, PlusPlus
      <4>4. j = At(c.head, i)
        BY <1>3, <4>2, <4>3, SlotPlus
      <4> QED
        BY <2>5, <3>1, <4>4
    <3> QED
      BY <1>3, <2>9, <3>2, <3>3
  <2>10. R(k, e)
    BY <2>3, <2>4, <2>6, <2>8, <2>9
  <2> QED
    BY <2>10 DEF e
<1>6. R(g, d[g])
  <2> DEFINE G == {k \in 0 .. g : R(k, d[k])}
  <2>1. d[0] = c
    BY <1>2 DEF Advance
  <2> HIDE DEF R
  <2>2. 0 \in G
    BY <1>3, <1>4, <2>1
  <2>3. \A k \in 1 .. g : k - 1 \in G => k \in G
    BY <1>3, <1>5
  <2> HIDE DEF G
  <2>4. \A k \in 0 .. g : k \in G
    BY <1>3, <2>2, <2>3, SetInductionUpTo
  <2> QED
    BY <1>3, <2>4 DEF G
<1> DEFINE e == d[g]
<1>7. R(g, e)
  BY <1>6
<1> HIDE DEF e
<1>8. TimerGoes(c, e)
  <2>1. e.stored \in Int /\ e.stored <= c.stored /\ e.timer = c.timer
    BY <1>7 DEF Tidy, Buffers
  <2> QED
    BY <1>3, <2>1 DEF TimerGoes
<1>9. ASSUME BufSize <= g, NEW j \in Slots PROVE e.buf[j] = <<>>
  <2>1. PICK i \in 0 .. BufSize - 1 : j = At(c.head, i)
    BY <1>3, AtOnce
  <2>2. i < g
    BY <1>3, <1>9
  <2> QED
    BY <1>7, <2>1, <2>2
<1> QED
  BY <1>2, <1>7, <1>8, <1>9 DEF e, g

(* The head has gone on by as many as n.                                   *)
Onward(h, n, F, c, d, most) ==
  \E x \in 0 .. most : Going(h, n + x, F, d) /\ Stays(h, n, c, n + x, d)

(* Frames are released until the next that is missing.                     *)
LEMMA InTurnDoes ==
  ASSUME WholeTurns, NEW h \in SNs, NEW n, NEW F, NEW c, Tidy(c), Going(h, n, F, c),
         n + BufSize \in SNs
  PROVE  LET d == InTurn(c)
         IN  /\ Tidy(d) /\ Kept(c, d) /\ d.timer = c.timer /\ d.stored <= c.stored /\ Fewer(c, d)
             /\ Onward(h, n, F, c, d, BufSize)
<1> DEFINE R(k, d) == /\ Tidy(d) /\ Kept(c, d) /\ d.timer = c.timer /\ d.stored <= c.stored
                      /\ Fewer(c, d) /\ Onward(h, n, F, c, d, k)
<1>1. c \in Buffers /\ \E d : Turns(d, c) /\ InTurn(c) = d[BufSize]
  BY InTurnIs DEF Tidy
<1>2. PICK d : Turns(d, c) /\ InTurn(c) = d[BufSize]
  BY <1>1, Zenon
<1>3. /\ n \in Nat /\ n + BufSize < SnMod /\ n \in SNs
      /\ SnMod \in Nat /\ BufSize \in Nat \ {0} /\ c.stored \in Int
  BY <1>1, RxReorderAssumption DEF Going, SNs, Buffers
<1>4. R(0, c)
  <2>1. n + 0 = n /\ 0 \in 0 .. 0
    BY <1>3
  <2>2. Kept(c, c) /\ Fewer(c, c) /\ c.stored <= c.stored
    BY <1>3 DEF Kept, Fewer
  <2>3. Going(h, n + 0, F, c) /\ Stays(h, n, c, n + 0, c)
    BY <2>1 DEF Stays
  <2>4. Onward(h, n, F, c, c, 0)
    BY <2>1, <2>3 DEF Onward
  <2> QED
    BY <1>3, <2>2, <2>4
<1>5. ASSUME NEW k \in 1 .. BufSize, R(k - 1, d[k - 1]) PROVE R(k, d[k])
  <2> DEFINE p == d[k - 1]
             e == d[k]
             j == Slot(p.head)
  <2>1. p \in Buffers /\ j \in Slots /\ ((~Ready(p, j) /\ e = p) \/ Released(p, e, j))
    <3>1. k - 1 \in 0 .. BufSize
      BY <1>3
    <3> QED
      BY <1>2, <3>1 DEF Turns
  <2> HIDE DEF p, e
  <2>2. Tidy(p) /\ Kept(c, p) /\ p.timer = c.timer /\ p.stored <= c.stored /\ Fewer(c, p)
        /\ Onward(h, n, F, c, p, k - 1)
    BY <1>5 DEF p
  <2>3. PICK x \in 0 .. k - 1 : Going(h, n + x, F, p) /\ Stays(h, n, c, n + x, p)
    BY <2>2 DEF Onward
  <2>4. CASE e = p
    <3>1. x \in 0 .. k
      BY <1>3
    <3>2. Onward(h, n, F, c, e, k)
      BY <2>3, <2>4, <3>1 DEF Onward
    <3>3. R(k, e)
      BY <2>2, <2>4, <3>2
    <3> QED
      BY <3>3 DEF e
  <2>5. CASE Released(p, e, j)
    <3>3. Tidy(e) /\ e.stored <= p.stored /\ p.stored \in Int /\ e.stored \in Int
      <4>1. Tidy(e) /\ e.stored <= p.stored
        BY <2>1, <2>2, <2>5, TidyReleased
      <4> QED
        BY <2>1, <4>1 DEF Tidy, Buffers
    <3>4. Kept(c, e) /\ e.timer = c.timer /\ e.stored <= c.stored
      BY <1>3, <2>2, <2>5, <3>3 DEF Kept, Released
    <3>5. \A i \in Slots : e.buf[i] = IF i = j THEN <<>> ELSE p.buf[i]
      BY <2>1, <2>5 DEF Released, Buffers
    <3>6. Fewer(c, e)
      BY <2>2, <3>5 DEF Fewer
    <3>7. (n + x) + 1 = n + (x + 1) /\ n + (x + 1) \in SNs /\ x + 1 \in 0 .. k
      BY <1>3 DEF SNs
    <3>8. Going(h, n + (x + 1), F, e) /\ Stays(h, n, c, n + (x + 1), e)
      BY <2>1, <2>3, <2>5, <3>7, StepOn DEF Stays
    <3>9. Onward(h, n, F, c, e, k)
      BY <3>7, <3>8, Zenon DEF Onward
    <3>10. R(k, e)
      BY <3>3, <3>4, <3>6, <3>9
    <3> QED
      BY <3>10 DEF e
  <2> QED
    BY <2>1, <2>4, <2>5
<1>6. R(BufSize, d[BufSize])
  <2> DEFINE G == {k \in 0 .. BufSize : R(k, d[k])}
  <2>1. d[0] = c
    BY <1>2 DEF Turns
  <2> HIDE DEF R
  <2>2. 0 \in G
    BY <1>3, <1>4, <2>1
  <2>3. \A k \in 1 .. BufSize : k - 1 \in G => k \in G
    BY <1>3, <1>5
  <2> HIDE DEF G
  <2>5. BufSize \in Nat
    BY <1>3
  <2>4. \A k \in 0 .. BufSize : k \in G
    BY <2>2, <2>3, <2>5, SetInductionUpTo
  <2> QED
    BY <1>3, <2>4 DEF G
<1> QED
  BY <1>2, <1>6

(* What the search has left after it has looked at the slots as far as m   *)
(* from that of the head, and gone on by x.                                *)
Gone(h, n, c, m, x, s) ==
  /\ x \in 0 .. m + 1 /\ (~s.done => x = m + 1 - s.skipped)
  /\ Tidy(s.c) /\ Kept(c, s.c) /\ s.c.head = Plus(c.head, x)
  /\ ~s.done => s.c.timer = c.timer /\ s.c.stored <= c.stored
  /\ s.done => TimerGoes(c, s.c) /\ Armed(s.c)
  /\ Fewer(c, s.c) /\ s.c.filtered \subseteq c.filtered
  /\ \A i \in 0 .. m : ~Ready(s.c, At(c.head, i))
  /\ \A i \in m + 1 .. BufSize - 1 : s.c.buf[At(c.head, i)] = c.buf[At(c.head, i)]
  /\ Whole(h, n, c) => Passed(h, n + x, s.c.frames)

Hunted(h, n, c, k, s) ==
  \E m \in 0 .. k : \E x \in 0 .. m + 1 : (~s.done => m = k) /\ Gone(h, n, c, m, x, s)

(* A frame still in the slot k after that of the head is k after the head. *)
LEMMA StillHeld ==
  ASSUME WholeTurns, NEW h \in SNs, NEW n \in SNs, NEW c \in Buffers, c.head = Plus(h, n),
         NEW k \in 0 .. BufSize - 1, n + k \in SNs, NEW s, Holds(c, At(c.head, k), s)
  PROVE  s \in SNs /\ Dist(c.head, s) = k /\ Dist(h, s) = n + k
<1>1. c.head \in SNs /\ n \in Nat /\ k \in Nat /\ n + k <= SnMod
  BY RxReorderAssumption DEF Buffers, SNs
<1>2. s \in SNs /\ Dist(c.head, s) = k
  <2> DEFINE g == c.head
             j == At(g, k)
             e == Dist(g, s)
  <2>1. e \in 0 .. BufSize - 1 /\ j = At(g, e)
    BY <1>1, HeldAt
  <2>2. e = k
    <3> HIDE DEF e, g
    <3>1. At(g, k) = At(g, e)
      BY <2>1
    <3> QED
      BY <1>1, <2>1, <3>1, AtOnce DEF g
  <2> QED
    BY <2>2 DEF Holds
<1>3. Plus(c.head, k) = s
  BY <1>1, <1>2, DistPlus
<1>4. Plus(h, n + k) = s
  BY <1>1, <1>3, PlusPlus
<1> QED
  BY <1>2, <1>4, DistPlus

(* A slot that is not ready does not get ready by a release.               *)
LEMMA StillNotReady ==
  ASSUME NEW c, NEW d, NEW j, ~Ready(c, j), d.buf[j] \in {<<>>, c.buf[j]}, d.filtered \subseteq c.filtered
  PROVE  ~Ready(d, j)
BY DEF Ready, Complete

(* One round: a slot that has timed out.                                   *)
LEMMA SkipsGoes ==
  ASSUME WholeTurns, NEW h \in SNs, NEW n \in SNs, NEW c \in Buffers, c.head = Plus(h, n),
         n + BufSize \in SNs, NEW k \in 1 .. BufSize - 1, NEW x, NEW s \in Searches, ~s.done,
         s.index = Slot(c.head), Gone(h, n, c, k - 1, x, s), NEW t \in Searches, ~t.done, t.skipped = 0,
         Ready(s.c, At(c.head, k)), Skips(s.c, t.c, s.index, s.skipped, At(c.head, k))
  PROVE  Gone(h, n, c, k, k + 1, t)
<1> DEFINE g == c.head
           j == At(g, k)
           p == s.c
           e == t.c
           y == s.skipped
           B == Between(s.index, j)
<1>1. /\ BufSize \in Nat \ {0} /\ BufSize < SnMod /\ SnMod \in Nat /\ k \in Nat /\ n \in Nat
      /\ k + 1 <= BufSize /\ n + k \in SNs /\ n + k + 1 \in SNs /\ (k - 1) + 1 = k
  BY RxReorderAssumption DEF SNs
<1>2. g \in SNs /\ p \in Buffers /\ e \in Buffers /\ y \in Nat /\ c.stored \in Int
  BY DEF Buffers, Searches
<1>3. j \in Slots /\ B = {At(g, i) : i \in 1 .. k - 1} /\ j \notin B
  BY <1>2, BetweenIs
<1>4. /\ x \in 0 .. k /\ x = k - y
      /\ Tidy(p) /\ Kept(c, p) /\ p.head = Plus(g, x) /\ p.timer = c.timer /\ p.stored <= c.stored
      /\ Fewer(c, p) /\ p.filtered \subseteq c.filtered
      /\ \A i \in 0 .. k - 1 : ~Ready(p, At(g, i))
      /\ \A i \in k .. BufSize - 1 : p.buf[At(g, i)] = c.buf[At(g, i)]
      /\ Whole(h, n, c) => Passed(h, n + x, p.frames)
  <2> DEFINE l == k - 1
  <2>1. Gone(h, n, c, l, x, s)
    OBVIOUS
  <2>2. l + 1 = k /\ l \in Nat
    BY <1>1
  <2> HIDE DEF l
  <2>3. x \in 0 .. l + 1 /\ (~s.done => x = l + 1 - s.skipped)
    BY <2>1 DEF Gone
  <2>4. \A i \in l + 1 .. BufSize - 1 : p.buf[At(g, i)] = c.buf[At(g, i)]
    BY <2>1 DEF Gone
  <2>5. /\ Tidy(p) /\ Kept(c, p) /\ p.head = Plus(g, x) /\ p.timer = c.timer /\ p.stored <= c.stored
        /\ Fewer(c, p) /\ p.filtered \subseteq c.filtered
        /\ \A i \in 0 .. l : ~Ready(p, At(g, i))
        /\ Whole(h, n, c) => Passed(h, n + x, p.frames)
    BY <2>1 DEF Gone
  <2>6. x \in 0 .. k /\ x = k - y
    BY <1>2, <2>2, <2>3
  <2>7. \A i \in k .. BufSize - 1 : p.buf[At(g, i)] = c.buf[At(g, i)]
    BY <2>2, <2>4
  <2> QED
    BY <2>5, <2>6, <2>7 DEF l
<1> HIDE DEF j, p, e, y, B
<1>5. Skips(p, e, s.index, y, j) /\ Ready(p, j)
  BY DEF j, p, e, y
<1>6. \A i \in B : ~Ready(p, i)
  <2>1. \A i \in 1 .. k - 1 : i \in 0 .. k - 1
    OBVIOUS
  <2> QED
    BY <1>3, <1>4, <2>1
<1>7. Tidy(e) /\ e.stored <= p.stored /\ p.stored \in Int /\ e.stored \in Int
  <2>1. Tidy(e) /\ e.stored <= p.stored
    BY <1>3, <1>4, <1>5, <1>6, TidySkips DEF B
  <2> QED
    BY <1>2, <2>1 DEF Buffers
<1>8. /\ Kept(p, e) /\ e.timer = p.timer /\ e.head = Plus(Plus(p.head, 1), y)
      /\ e.buf = [i \in Slots |-> IF i = j \/ i \in B THEN <<>> ELSE p.buf[i]]
      /\ e.filtered = p.filtered \ {j}
      /\ p.buf[j] # <<>> => e.frames = p.frames \o p.buf[j]
      /\ p.buf[j] = <<>> => e.frames = p.frames
  BY <1>5 DEF Skips, B
<1>9. e.head = Plus(g, k + 1)
  <2>1. x \in Nat /\ x + 1 <= SnMod /\ (x + 1) + y = k + 1 /\ k + 1 <= SnMod /\ x + 1 \in Nat /\ 1 \in Nat
    BY <1>1, <1>2, <1>4
  <2>2. Plus(p.head, 1) = Plus(g, x + 1)
    BY <1>2, <1>4, <2>1, PlusPlus
  <2>3. Plus(Plus(g, x + 1), y) = Plus(g, k + 1)
    BY <1>2, <2>1, PlusPlus
  <2> QED
    BY <1>8, <2>2, <2>3
<1>10. \A i \in Slots : e.buf[i] \in {<<>>, p.buf[i]}
  BY <1>8
<1>11. Fewer(c, e) /\ e.filtered \subseteq p.filtered /\ e.filtered \subseteq c.filtered
  BY <1>4, <1>8, <1>10 DEF Fewer
<1>12. ASSUME NEW i \in 0 .. k PROVE ~Ready(e, At(g, i))
  <2>1. CASE i = k
    <3>1. e.buf[j] = <<>> /\ j \notin e.filtered
      BY <1>3, <1>8
    <3> QED
      BY <2>1, <3>1 DEF Ready, Complete, j
  <2>2. CASE i # k
    <3>1. i \in 0 .. k - 1 /\ i \in 0 .. BufSize
      BY <1>1, <2>2
    <3>2. At(g, i) \in Slots
      BY <1>2, <3>1, AtIs
    <3> QED
      BY <1>4, <1>10, <1>11, <3>1, <3>2, StillNotReady
  <2> QED
    BY <2>1, <2>2
<1>13. ASSUME NEW i \in k + 1 .. BufSize - 1 PROVE e.buf[At(g, i)] = c.buf[At(g, i)]
  <2>1. i \in k .. BufSize - 1 /\ i \in 0 .. BufSize - 1 /\ i \in 0 .. BufSize /\ i # k
        /\ k \in 0 .. BufSize - 1 /\ \A l \in 1 .. k - 1 : l \in 0 .. BufSize - 1 /\ l # i
    BY <1>1
  <2>2. At(g, i) \in Slots /\ At(g, i) # j /\ At(g, i) \notin B
    BY <1>2, <1>3, <2>1, AtIs, AtOnce DEF j
  <2> QED
    BY <1>4, <1>8, <2>1, <2>2
<1>14. ASSUME Whole(h, n, c) PROVE Passed(h, n + (k + 1), e.frames)
  <2>1. Passed(h, n + x, p.frames) /\ p.frames \in Seq(Frames) /\ n + x \in Int /\ n + (k + 1) \in Int
        /\ n + x <= n + (k + 1)
    BY <1>1, <1>2, <1>4, <1>14 DEF Buffers
  <2>2. CASE p.buf[j] = <<>>
    BY <1>8, <2>1, <2>2, PassedMore
  <2>3. CASE p.buf[j] # <<>>
    <3>1. k \in k .. BufSize - 1 /\ k \in 0 .. BufSize - 1
      BY <1>1
    <3>2. p.buf[j] = c.buf[j]
      BY <1>4, <3>1 DEF j
    <3>3. PICK u : Holds(c, j, u)
      BY <1>3, <1>14, <2>3, <3>2 DEF Whole, Placed
    <3>4. u \in SNs /\ Dist(h, u) = n + k
      BY <1>1, <3>1, <3>3, StillHeld DEF j
    <3>5. \A v \in SNs : Dist(h, v) \in Int
      <4>1. \A v \in SNs : Dist(h, v) \in SNs
        BY DistIs
      <4> QED
        BY <4>1 DEF SNs
    <3>6. n + x <= Dist(h, u) /\ Dist(h, u) < n + (k + 1) /\ Dist(h, u) \in Int
      BY <1>1, <1>4, <3>4
    <3>7. Passed(h, n + (k + 1), p.frames \o <<[sn |-> u, more |-> FALSE]>>)
      BY <2>1, <3>4, <3>5, <3>6, PassedOne
    <3> QED
      BY <1>8, <2>3, <3>2, <3>3, <3>7 DEF Holds
  <2> QED
    BY <2>2, <2>3
<1>15. Kept(c, e) /\ e.timer = c.timer /\ e.stored <= c.stored
  BY <1>2, <1>4, <1>7, <1>8 DEF Kept
<1>16. k + 1 \in 0 .. k + 1 /\ k + 1 = k + 1 - 0
  BY <1>1
<1> QED
  BY <1>7, <1>9, <1>11, <1>12, <1>13, <1>14, <1>15, <1>16 DEF Gone, e

(* One round of the search.                                                *)
LEMMA HuntGoes ==
  ASSUME WholeTurns, NEW h \in SNs, NEW n \in SNs, NEW c \in Buffers, c.head = Plus(h, n),
         n + BufSize \in SNs, NEW k \in 1 .. BufSize - 1, NEW s \in Searches,
         s.index = Slot(c.head), Hunted(h, n, c, k - 1, s), NEW t \in Searches,
         Round(s, t, At(c.head, k))
  PROVE  Hunted(h, n, c, k, t)
<1> DEFINE l == k - 1
<1>1. l \in Nat /\ l + 1 = k /\ k \in Nat /\ k \in 0 .. k /\ \A i \in 0 .. l : i \in 0 .. k
  BY RxReorderAssumption
<1>2. Hunted(h, n, c, l, s)
  OBVIOUS
<1> HIDE DEF l
<1>3. PICK m \in 0 .. l : \E x \in 0 .. m + 1 : (~s.done => m = l) /\ Gone(h, n, c, m, x, s)
  BY <1>2 DEF Hunted
<1>4. PICK x \in 0 .. m + 1 : (~s.done => m = l) /\ Gone(h, n, c, m, x, s)
  BY <1>3
<1>5. CASE s.done /\ t = s
  BY <1>1, <1>4, <1>5 DEF Hunted
<1>6. CASE ~s.done /\ ~t.done /\ ~Ready(s.c, At(c.head, k)) /\ t.c = s.c /\ t.skipped = s.skipped + 1
  <2>1. Gone(h, n, c, l, x, s) /\ s.skipped \in Nat
    BY <1>4, <1>6 DEF Searches
  <2>2. x \in 0 .. l + 1 /\ x = l + 1 - s.skipped
    BY <1>6, <2>1 DEF Gone
  <2>3. x \in 0 .. k + 1 /\ x = k + 1 - t.skipped
    BY <1>1, <1>6, <2>1, <2>2
  <2>4. /\ Tidy(t.c) /\ Kept(c, t.c) /\ t.c.head = Plus(c.head, x)
        /\ t.c.timer = c.timer /\ t.c.stored <= c.stored
        /\ Fewer(c, t.c) /\ t.c.filtered \subseteq c.filtered
        /\ \A i \in 0 .. l : ~Ready(t.c, At(c.head, i))
        /\ Whole(h, n, c) => Passed(h, n + x, t.c.frames)
    BY <1>6, <2>1 DEF Gone
  <2>5. \A i \in l + 1 .. BufSize - 1 : t.c.buf[At(c.head, i)] = c.buf[At(c.head, i)]
    BY <1>6, <2>1 DEF Gone
  <2>6. \A i \in k + 1 .. BufSize - 1 : t.c.buf[At(c.head, i)] = c.buf[At(c.head, i)]
    <3>1. \A i \in k + 1 .. BufSize - 1 : i \in l + 1 .. BufSize - 1
      BY <1>1, RxReorderAssumption
    <3> QED
      BY <2>5, <3>1
  <2>7. \A i \in 0 .. k : ~Ready(t.c, At(c.head, i))
    <3>1. \A i \in 0 .. k : i = k \/ i \in 0 .. l
      BY <1>1
    <3> QED
      BY <1>6, <2>4, <3>1
  <2>8. Gone(h, n, c, k, x, t)
    BY <1>6, <2>3, <2>4, <2>6, <2>7 DEF Gone
  <2> QED
    BY <1>1, <2>3, <2>8 DEF Hunted
<1>7. CASE ~s.done /\ t.done /\ Ready(s.c, At(c.head, k)) /\ Timed(s.c, t.c)
  <2> DEFINE p == s.c
             e == t.c
  <2>1. Gone(h, n, c, m, x, s)
    BY <1>4
  <2>2. /\ Tidy(p) /\ Kept(c, p) /\ p.head = Plus(c.head, x) /\ p.timer = c.timer /\ p.stored <= c.stored
        /\ Fewer(c, p) /\ p.filtered \subseteq c.filtered
        /\ \A i \in 0 .. m : ~Ready(p, At(c.head, i))
        /\ \A i \in m + 1 .. BufSize - 1 : p.buf[At(c.head, i)] = c.buf[At(c.head, i)]
        /\ Whole(h, n, c) => Passed(h, n + x, p.frames)
    BY <1>7, <2>1 DEF Gone
  <2> HIDE DEF p, e
  <2>3. Timed(p, e)
    BY <1>7 DEF p, e
  <2>4. /\ e \in Buffers /\ Kept(p, e) /\ e.head = p.head /\ e.stored = p.stored /\ e.buf = p.buf
        /\ e.filtered = p.filtered /\ e.frames = p.frames
    BY <2>3 DEF Timed
  <2>5. Tidy(e)
    BY <2>2, <2>3, TidyTimed
  <2>6. \A j : Ready(e, j) <=> Ready(p, j)
    BY <2>4 DEF Ready, Complete
  <2>7. Kept(c, e) /\ Fewer(c, e)
    BY <2>2, <2>4 DEF Kept, Fewer
  <2>8. TimerGoes(c, e) /\ Armed(e)
    BY <2>2, <2>3, <2>4 DEF TimerGoes, Armed, Timed, Kept
  <2>9. /\ e.head = Plus(c.head, x) /\ e.filtered \subseteq c.filtered
        /\ \A i \in 0 .. m : ~Ready(e, At(c.head, i))
        /\ \A i \in m + 1 .. BufSize - 1 : e.buf[At(c.head, i)] = c.buf[At(c.head, i)]
        /\ Whole(h, n, c) => Passed(h, n + x, e.frames)
    BY <2>2, <2>4, <2>6
  <2>10. Gone(h, n, c, m, x, t)
    BY <1>7, <2>5, <2>7, <2>8, <2>9 DEF Gone, e
  <2> QED
    BY <1>1, <1>7, <2>10 DEF Hunted
<1>8. CASE ~s.done /\ ~t.done /\ Ready(s.c, At(c.head, k)) /\ t.skipped = 0
           /\ Skips(s.c, t.c, s.index, s.skipped, At(c.head, k))
  <2>1. Gone(h, n, c, k - 1, x, s)
    BY <1>4, <1>8 DEF l
  <2>2. Gone(h, n, c, k, k + 1, t)
    BY <1>8, <2>1, SkipsGoes
  <2>3. k + 1 \in 0 .. k + 1
    BY <1>1
  <2> QED
    BY <1>1, <2>2, <2>3 DEF Hunted
<1> QED
  BY <1>5, <1>6, <1>7, <1>8 DEF Round

(* What the search leaves has gone on.                                     *)
LEMMA GoneOn ==
  ASSUME WholeTurns, NEW h \in SNs, NEW n, NEW F, NEW c \in Buffers, Going(h, n, F, c),
         n + BufSize \in SNs, NEW m \in 0 .. BufSize - 1, NEW x \in 0 .. m + 1, NEW s,
         Gone(h, n, c, m, x, s)
  PROVE  Onward(h, n, F, c, s.c, BufSize)
<1> DEFINE g == c.head
           e == s.c
<1>1. /\ BufSize \in Nat \ {0} /\ BufSize < SnMod /\ SnMod \in Nat /\ n \in Nat /\ n \in SNs
      /\ x \in Nat /\ m \in Nat /\ x \in 0 .. BufSize /\ n + x \in SNs /\ x \in SNs /\ n + x <= SnMod
  BY RxReorderAssumption DEF SNs, Going
<1>2. g \in SNs /\ g = Plus(h, n) /\ e \in Buffers
  BY DEF Buffers, Going, Gone, Tidy
<1>3. /\ e.head = Plus(g, x) /\ Fewer(c, e) /\ e.filtered \subseteq c.filtered
      /\ \A i \in 0 .. m : ~Ready(e, At(g, i))
      /\ \A i \in m + 1 .. BufSize - 1 : e.buf[At(g, i)] = c.buf[At(g, i)]
      /\ Whole(h, n, c) => Passed(h, n + x, e.frames)
  BY DEF Gone
<1> HIDE DEF g, e
<1>4. Plus(g, x) = Plus(h, n + x)
  BY <1>1, <1>2, PlusPlus
<1>5. ASSUME NEW j \in e.filtered PROVE j \in F /\ Ahead(h, j, n + x)
  <2>1. j \in Slots /\ j \in F /\ Ahead(h, j, n)
    BY <1>2, <1>3 DEF Going, Marks, Buffers
  <2>2. PICK i \in 0 .. BufSize - 1 : j = At(g, i)
    BY <1>2, <2>1, AtOnce
  <2>3. i \notin 0 .. m
    BY <1>3, <2>2 DEF Ready
  <2>4. x <= i
    BY <1>1, <2>3
  <2>5. Ahead(h, At(g, i), n)
    BY <2>1, <2>2
  <2>6. Ahead(h, At(g, i), n + x)
    BY <1>1, <1>2, <2>4, <2>5, AheadLater
  <2> QED
    BY <2>1, <2>2, <2>6
<1>6. Going(h, n + x, F, e)
  BY <1>1, <1>3, <1>4, <1>5 DEF Going, Marks
<1>7. ASSUME Placed(c) PROVE Placed(e)
  <2> SUFFICES ASSUME NEW j \in Slots, e.buf[j] # <<>> PROVE \E u : Holds(e, j, u)
    BY DEF Placed
  <2>1. e.buf[j] = c.buf[j] /\ c.buf[j] # <<>>
    BY <1>3 DEF Fewer
  <2>2. PICK u : Holds(c, j, u)
    BY <1>7, <2>1 DEF Whole, Placed
  <2>3. PICK i \in 0 .. BufSize - 1 : j = At(g, i)
    BY <1>2, AtOnce
  <2>4. i \notin 0 .. m
    <3>1. Complete(e, j)
      <4>1. e.buf[j] = <<[sn |-> u, more |-> FALSE]>>
        BY <2>1, <2>2 DEF Holds
      <4>2. Last(e.buf[j]) = [sn |-> u, more |-> FALSE]
        BY <4>1 DEF Last
      <4> QED
        BY <4>1, <4>2 DEF Complete
    <3> QED
      BY <1>3, <2>3, <3>1 DEF Ready
  <2>5. x <= i /\ i \in Nat /\ i < BufSize /\ n + i \in SNs
    BY <1>1, <2>4 DEF SNs
  <2>6. u \in SNs /\ Dist(g, u) = i
    <3>1. Holds(c, At(c.head, i), u)
      BY <2>2, <2>3 DEF g
    <3> QED
      BY <1>1, <1>2, <2>5, <3>1, StillHeld DEF g
  <2>7. Dist(e.head, u) = i - x
    BY <1>1, <1>2, <1>3, <2>5, <2>6, DistFrom
  <2>8. Dist(e.head, u) < BufSize
    BY <1>1, <2>5, <2>7
  <2> QED
    BY <2>1, <2>2, <2>8 DEF Holds
<1>8. Stays(h, n, c, n + x, e)
  BY <1>3, <1>7 DEF Whole, Stays
<1> QED
  BY <1>1, <1>6, <1>8 DEF Onward, e

(* The search for frames that have timed out.                              *)
LEMMA SearchedDoes ==
  ASSUME WholeTurns, NEW h \in SNs, NEW n, NEW F, NEW c, Tidy(c), Going(h, n, F, c),
         n + BufSize \in SNs, ~Ready(c, Slot(c.head))
  PROVE  LET s == Searched(c)
             d == s.c
         IN  /\ Tidy(d) /\ Kept(c, d) /\ Fewer(c, d) /\ Onward(h, n, F, c, d, BufSize)
             /\ s.done => TimerGoes(c, d) /\ Armed(d)
             /\ ~s.done => d.timer = c.timer /\ d.stored <= c.stored
<1> DEFINE g == c.head
           l == BufSize - 1
<1>1. /\ BufSize \in Nat \ {0} /\ l \in Nat /\ l \in 0 .. l /\ n \in Nat /\ n \in SNs /\ n + BufSize \in SNs
      /\ g = Plus(h, n) /\ c \in Buffers /\ g \in SNs /\ c.stored \in Int
  BY RxReorderAssumption DEF Going, Tidy, Buffers, SNs
<1>2. \E d : Hunt(d, c) /\ Searched(c) = d[l]
  BY <1>1, SearchedIs
<1> HIDE DEF l
<1>3. PICK d : Hunt(d, c) /\ Searched(c) = d[l]
  BY <1>2, Zenon
<1>4. Hunted(h, n, c, 0, d[0])
  <2> DEFINE s == d[0]
  <2>1. s.c = c /\ s.skipped = 1 /\ ~s.done
    BY <1>3 DEF Hunt
  <2> HIDE DEF s
  <2>2. n + 0 = n /\ 0 \in 0 .. 0 + 1 /\ 0 \in 0 .. 0 /\ 0 = 0 + 1 - s.skipped /\ c.stored <= c.stored
    BY <1>1, <2>1
  <2>3. Kept(c, c) /\ Fewer(c, c) /\ Plus(c.head, 0) = c.head
    BY <1>1, DistPlus DEF Kept, Fewer
  <2>4. \A i \in 0 .. 0 : ~Ready(c, At(c.head, i))
    <3>1. At(c.head, 0) = Slot(c.head)
      BY <1>1, AtOnce
    <3> QED
      BY <3>1
  <2>5. Gone(h, n, c, 0, 0, s)
    BY <2>1, <2>2, <2>3, <2>4 DEF Gone, Whole
  <2> QED
    BY <2>2, <2>5 DEF Hunted, s
<1>5. \A k \in 0 .. l : d[k] \in Searches /\ d[k].index = Slot(g) /\ Hunted(h, n, c, k, d[k])
  <2> DEFINE G == {k \in 0 .. l : d[k] \in Searches /\ d[k].index = Slot(g) /\ Hunted(h, n, c, k, d[k])}
  <2>1. 0 \in G
    BY <1>1, <1>3, <1>4 DEF Hunt, l
  <2>2. ASSUME NEW k \in 1 .. l, k - 1 \in G PROVE k \in G
    <3>1. k - 1 \in 0 .. l /\ k \in 0 .. l /\ k \in 1 .. BufSize - 1
      BY <1>1 DEF l
    <3>2. d[k - 1] \in Searches /\ d[k - 1].index = Slot(g) /\ Hunted(h, n, c, k - 1, d[k - 1])
      BY <2>2
    <3>3. d[k] \in Searches /\ Round(d[k - 1], d[k], At(g, k))
      BY <1>3, <3>1 DEF Hunt, l
    <3>4. d[k].index = Slot(g)
      BY <3>2, <3>3 DEF Round
    <3>5. Hunted(h, n, c, k, d[k])
      BY <1>1, <3>1, <3>2, <3>3, HuntGoes
    <3> QED
      BY <3>1, <3>3, <3>4, <3>5
  <2> HIDE DEF G
  <2>3. \A k \in 0 .. l : k \in G
    BY <1>1, <2>1, <2>2, SetInductionUpTo
  <2> QED
    BY <2>3 DEF G
<1> DEFINE s == d[l]
<1>6. Hunted(h, n, c, l, s)
  BY <1>1, <1>5
<1> HIDE DEF s
<1>7. PICK m \in 0 .. l : \E x \in 0 .. m + 1 : Gone(h, n, c, m, x, s)
  BY <1>6 DEF Hunted
<1>8. PICK x \in 0 .. m + 1 : Gone(h, n, c, m, x, s)
  BY <1>7
<1>9. Onward(h, n, F, c, s.c, BufSize)
  BY <1>1, <1>8, GoneOn DEF l
<1>10. /\ Tidy(s.c) /\ Kept(c, s.c) /\ Fewer(c, s.c)
       /\ s.done => TimerGoes(c, s.c) /\ Armed(s.c)
       /\ ~s.done => s.c.timer = c.timer /\ s.c.stored <= c.stored
  BY <1>8 DEF Gone
<1> QED
  BY <1>3, <1>9, <1>10 DEF s

(* A call that leaves the buffer tidy, after which the head has gone on.   *)
Does(h, n, F, c, d, most) ==
  /\ Tidy(d) /\ Kept(c, d) /\ TimerGoes(c, d) /\ Fewer(c, d) /\ Onward(h, n, F, c, d, most)

(* The timer that is set at the end. *)
LEMMA ArmDoes ==
  ASSUME NEW h, NEW n, NEW F, NEW c, NEW e, c \in Buffers, Tidy(e), Kept(c, e), e.timer = c.timer,
         Fewer(c, e), NEW most, Onward(h, n, F, c, e, most)
  PROVE  LET d == Arm(e)
         IN  Does(h, n, F, c, d, most) /\ Armed(d)
<1> DEFINE d == Arm(e)
<1>1. Timed(e, d) /\ e \in Buffers
  BY ArmIs DEF Tidy
<1> HIDE DEF d
<1>2. Tidy(d)
  BY <1>1, TidyTimed
<1>3. /\ d \in Buffers /\ Kept(e, d) /\ d.head = e.head /\ d.stored = e.stored /\ d.buf = e.buf
      /\ d.filtered = e.filtered /\ d.frames = e.frames
  BY <1>1 DEF Timed
<1>4. Kept(c, d) /\ Fewer(c, d)
  BY <1>3 DEF Kept, Fewer
<1>5. Armed(d) /\ (~c.removed /\ d.stored > 0 => d.timer # Off)
  BY <1>1, <1>3 DEF Armed, Timed, Kept
<1>6. c.removed => d.timer \in {c.timer, Off}
  BY <1>1 DEF Timed, Kept
<1>7. TimerGoes(c, d)
  BY <1>5, <1>6 DEF TimerGoes
<1>8. PICK x \in 0 .. most : Going(h, n + x, F, e) /\ Stays(h, n, c, n + x, e)
  BY DEF Onward
<1>9. Going(h, n + x, F, d)
  BY <1>3, <1>8 DEF Going, Marks
<1>10. Stays(h, n, c, n + x, d)
  <2>1. Placed(e) => Placed(d)
    BY <1>3 DEF Placed, Holds
  <2> QED
    BY <1>3, <1>8, <2>1 DEF Whole, Stays
<1>11. Onward(h, n, F, c, d, most)
  BY <1>8, <1>9, <1>10 DEF Onward
<1> QED
  BY <1>2, <1>4, <1>5, <1>7, <1>11 DEF Does, d

(* ieee80211_sta_reorder_release() *)
LEMMA ReorderReleaseDoes ==
  ASSUME WholeTurns, NEW h \in SNs, NEW n, NEW F, NEW c, Tidy(c), Going(h, n, F, c),
         n + BufSize \in SNs
  PROVE  Does(h, n, F, c, ReorderRelease(c), BufSize) /\ Armed(ReorderRelease(c))
<1> DEFINE s == Searched(c)
           e == InTurn(c)
<1>1. c \in Buffers
  BY DEF Tidy
<1>2. CASE ~Ready(c, Slot(c.head)) /\ c.stored > 0
  <2>1. /\ Tidy(s.c) /\ Kept(c, s.c) /\ Fewer(c, s.c) /\ Onward(h, n, F, c, s.c, BufSize)
        /\ s.done => TimerGoes(c, s.c) /\ Armed(s.c)
        /\ ~s.done => s.c.timer = c.timer /\ s.c.stored <= c.stored
    BY <1>2, SearchedDoes
  <2>2. ReorderRelease(c) = IF s.done THEN s.c ELSE Arm(s.c)
    BY <1>2 DEF ReorderRelease
  <2> HIDE DEF s
  <2>3. CASE s.done
    BY <2>1, <2>2, <2>3 DEF Does
  <2>4. CASE ~s.done
    BY <1>1, <2>1, <2>2, <2>4, ArmDoes
  <2> QED
    BY <2>3, <2>4
<1>3. CASE ~(~Ready(c, Slot(c.head)) /\ c.stored > 0)
  <2>1. /\ Tidy(e) /\ Kept(c, e) /\ e.timer = c.timer /\ Fewer(c, e) /\ Onward(h, n, F, c, e, BufSize)
    BY InTurnDoes
  <2>2. ReorderRelease(c) = Arm(e)
    BY <1>3 DEF ReorderRelease
  <2> HIDE DEF e
  <2> QED
    BY <1>1, <2>1, <2>2, ArmDoes
<1> QED
  BY <1>2, <1>3

-----------------------------------------------------------------------------
(* A frame that comes.                                                     *)

(* Where a buffer is now.                                                  *)
LEMMA GoingNow ==
  ASSUME NEW c \in Buffers
  PROVE  Going(c.head, 0, c.filtered, c)
<1>1. c.head \in SNs /\ 0 \in SNs /\ c.filtered \subseteq Slots
  BY RxReorderAssumption DEF Buffers, SNs
<1>2. \A j \in c.filtered : Ahead(c.head, j, 0)
  <2>1. \A i \in 0 .. BufSize - 1 : 0 <= i
    OBVIOUS
  <2> QED
    BY <1>1, <2>1, AtOnce DEF Ahead
<1> QED
  BY <1>1, <1>2, DistPlus DEF Going, Marks

(* What a slot holds after one more part of an A-MSDU.                     *)
LEMMA Lasts ==
  ASSUME NEW s \in Seq(Frames), NEW f \in Frames
  PROVE  /\ Append(s, f) \in Seq(Frames) /\ Append(s, f) # <<>> /\ Last(Append(s, f)) = f
         /\ s = <<>> => Append(s, f) = <<f>>
         /\ ~f.more => f = [sn |-> f.sn, more |-> FALSE] /\ f.sn \in SNs
<1>1. ~f.more => f = [sn |-> f.sn, more |-> FALSE] /\ f.sn \in SNs
  BY DEF Frames
<1>2. Append(s, f) \in Seq(Frames) /\ Len(Append(s, f)) = Len(s) + 1 /\ Append(s, f)[Len(s) + 1] = f
      /\ Len(s) \in Nat
  OBVIOUS
<1>3. Append(s, f) # <<>>
  BY <1>2
<1>4. s = <<>> => Append(s, f) = <<f>>
  OBVIOUS
<1> QED
  BY <1>1, <1>2, <1>3, <1>4 DEF Last

Takes(h, n, F, c, d, most, w) ==
  /\ Tidy(d) /\ Kept(c, d) /\ TimerGoes(c, d)
  /\ \E x \in 0 .. most : Going(h, n + x, F, d) /\ (w => Stays(h, n, c, n + x, d))

(* A frame that is stored.                                                 *)
Stored(c, d, f, j) ==
  /\ d \in Buffers /\ Kept(c, d) /\ d.timer = c.timer /\ d.head = c.head
  /\ d.buf = [c.buf EXCEPT ![j] = Append(c.buf[j], f)]
  /\ d.filtered = c.filtered /\ d.frames = c.frames
  /\ d.stored = IF f.more THEN c.stored ELSE c.stored + 1

(* What storing a frame changes.                                           *)
LEMMA StoredIs ==
  ASSUME NEW c \in Buffers, NEW f \in Frames, NEW j \in Slots
  PROVE  LET kept == [c EXCEPT !.buf[j] = Append(@, f)]
         IN  Stored(c, IF f.more THEN kept ELSE [kept EXCEPT !.age[j] = 0, !.stored = @ + 1], f, j)
<1> DEFINE buf == [c.buf EXCEPT ![j] = Append(c.buf[j], f)]
           kept == [c EXCEPT !.buf[j] = Append(@, f)]
           p == [c EXCEPT !.buf = buf]
           age == [c.age EXCEPT ![j] = 0]
           full == [kept EXCEPT !.age[j] = 0, !.stored = @ + 1]
           q == [p EXCEPT !.age = age, !.stored = c.stored + 1]
<1>1. kept = p
  BY DEF Buffers
<1>2. buf \in [Slots -> Seq(Frames)]
  <2>1. c.buf \in [Slots -> Seq(Frames)]
    BY DEF Buffers
  <2>2. Append(c.buf[j], f) \in Seq(Frames)
    BY <2>1, Lasts
  <2> QED
    BY <2>1, <2>2
<1> HIDE DEF buf
<1>3. p \in Buffers /\ p.buf = buf /\ Kept(c, p) /\ p.timer = c.timer /\ p.head = c.head
      /\ p.filtered = c.filtered /\ p.frames = c.frames /\ p.stored = c.stored /\ p.age = c.age
  BY <1>2 DEF Buffers, Kept
<1> HIDE DEF kept, p
<1>4. full = q
  BY <1>1, <1>3 DEF Buffers
<1>5. age \in [Slots -> 0 .. Timeout + 1]
  <2>1. c.age \in [Slots -> 0 .. Timeout + 1]
    BY DEF Buffers
  <2>2. 0 \in 0 .. Timeout + 1
    BY RxReorderAssumption
  <2> QED
    BY <2>1, <2>2
<1>6. c.stored + 1 \in Int
  BY DEF Buffers
<1> HIDE DEF age, full
<1>7. q \in Buffers /\ q.buf = p.buf /\ Kept(p, q) /\ q.timer = p.timer /\ q.head = p.head
      /\ q.filtered = p.filtered /\ q.frames = p.frames /\ q.stored = c.stored + 1
  BY <1>3, <1>5, <1>6 DEF Buffers, Kept
<1> HIDE DEF q
<1>8. CASE f.more
  <2>1. Stored(c, p, f, j)
    BY <1>3, <1>8 DEF Stored, buf
  <2> QED
    BY <1>1, <1>8, <2>1 DEF kept
<1>9. CASE ~f.more
  <2>1. Stored(c, q, f, j)
    BY <1>3, <1>7, <1>9 DEF Stored, buf, Kept
  <2> QED
    BY <1>4, <1>9, <2>1 DEF full, kept
<1> QED
  BY <1>8, <1>9

(* A stored frame leaves the buffer tidy, and whole inside the window.     *)
LEMMA StoredDoes ==
  ASSUME WholeTurns, NEW h, NEW n, NEW F, NEW c, Tidy(c), Going(h, n, F, c), NEW f \in Frames,
         ~Ready(c, Slot(f.sn)), NEW d, Stored(c, d, f, Slot(f.sn)), Slot(f.sn) \in Slots
  PROVE  /\ Tidy(d) /\ Kept(c, d) /\ d.timer = c.timer /\ Going(h, n, F, d)
         /\ ~f.more /\ Dist(c.head, f.sn) < BufSize => Stays(h, n, c, n, d)
<1> DEFINE j == Slot(f.sn)
<1>1. /\ c \in Buffers /\ d \in Buffers /\ Kept(c, d) /\ d.timer = c.timer /\ d.head = c.head
      /\ d.filtered = c.filtered /\ d.frames = c.frames /\ j \in Slots /\ ~Ready(c, j)
      /\ d.stored = IF f.more THEN c.stored ELSE c.stored + 1
  BY DEF Stored, Tidy
<1>2. \A i \in Slots : d.buf[i] = IF i = j THEN Append(c.buf[j], f) ELSE c.buf[i]
  BY <1>1 DEF Stored, Buffers
<1>3. c.buf[j] \in Seq(Frames)
  BY <1>1 DEF Buffers
<1> HIDE DEF j
<1>4. \A i \in Slots : Complete(d, i) <=> Complete(c, i) \/ (i = j /\ ~f.more)
  <2>1. ASSUME NEW i \in Slots, i # j PROVE Complete(d, i) <=> Complete(c, i)
    BY <1>2, <2>1 DEF Complete
  <2>2. Complete(d, j) <=> ~f.more
    BY <1>1, <1>2, <1>3, Lasts DEF Complete
  <2>3. ~Complete(c, j)
    BY <1>1 DEF Ready
  <2> QED
    BY <2>1, <2>2, <2>3
<1>5. d.stored = Cardinality(Full(d))
  <2>1. j \notin Full(c) /\ IsFiniteSet(Full(c)) /\ Cardinality(Full(c)) \in Nat
        /\ c.stored = Cardinality(Full(c))
    <3>1. j \notin Full(c)
      BY <1>1 DEF Full, Ready
    <3>2. IsFiniteSet(Full(c)) /\ Cardinality(Full(c)) \in Nat
      BY FullIs
    <3>3. c.stored = Cardinality(Full(c))
      BY DEF Tidy
    <3> QED
      BY <3>1, <3>2, <3>3
  <2>2. CASE f.more
    BY <1>1, <1>4, <2>1, <2>2 DEF Full
  <2>3. CASE ~f.more
    <3>1. Full(d) = Full(c) \cup {j}
      BY <1>1, <1>4, <2>3 DEF Full
    <3>2. Cardinality(Full(c) \cup {j}) = Cardinality(Full(c)) + 1
      BY <2>1, FS_AddElement
    <3> QED
      BY <1>1, <2>1, <2>3, <3>1, <3>2
  <2> QED
    BY <2>2, <2>3
<1>6. Tidy(d)
  <2>1. \A i \in d.filtered : i \in Slots /\ i # j
    BY <1>1 DEF Ready, Buffers
  <2>2. \A i \in d.filtered : d.buf[i] = <<>>
    BY <1>1, <1>2, <2>1 DEF Tidy
  <2> QED
    BY <1>1, <1>5, <2>2 DEF Tidy
<1>7. Going(h, n, F, d)
  BY <1>1 DEF Going, Marks
<1>8. ASSUME ~f.more, Dist(c.head, f.sn) < BufSize, Placed(c) PROVE Placed(d)
  <2> SUFFICES ASSUME NEW i \in Slots, d.buf[i] # <<>> PROVE \E s : Holds(d, i, s)
    BY DEF Placed
  <2>1. CASE i # j
    <3>1. d.buf[i] = c.buf[i]
      BY <1>2, <2>1
    <3>2. PICK s : Holds(c, i, s)
      BY <1>8, <3>1 DEF Placed
    <3> QED
      BY <1>1, <3>1, <3>2 DEF Holds
  <2>2. CASE i = j
    <3>1. c.buf[j] = <<>>
      <4> SUFFICES ASSUME c.buf[j] # <<>> PROVE FALSE
        OBVIOUS
      <4>1. PICK s : Holds(c, j, s)
        BY <1>1, <1>8 DEF Placed
      <4>2. c.buf[j] = <<[sn |-> s, more |-> FALSE]>>
        BY <4>1 DEF Holds
      <4>3. Last(c.buf[j]) = [sn |-> s, more |-> FALSE]
        BY <4>2 DEF Last
      <4>4. Complete(c, j)
        BY <4>2, <4>3 DEF Complete
      <4> QED
        BY <1>1, <4>4 DEF Ready
    <3>2. d.buf[j] = <<f>> /\ f = [sn |-> f.sn, more |-> FALSE] /\ f.sn \in SNs
      BY <1>1, <1>2, <1>3, <1>8, <3>1, Lasts
    <3>3. Holds(d, j, f.sn)
      <4>1. d.buf[j] = <<[sn |-> f.sn, more |-> FALSE]>>
        BY <3>2, Zenon
      <4> QED
        BY <1>1, <1>8, <3>2, <4>1 DEF Holds, j
    <3> QED
      BY <2>2, <3>3
  <2> QED
    BY <2>1, <2>2
<1>9. ~f.more /\ Dist(c.head, f.sn) < BufSize => Stays(h, n, c, n, d)
  BY <1>1, <1>8 DEF Stays, Whole
<1> QED
  BY <1>1, <1>6, <1>7, <1>9

(* ieee80211_sta_manage_reorder_buf() *)
LEMMA ManageDoes ==
  ASSUME WholeTurns, NEW h \in SNs, NEW n, NEW F, NEW c, Tidy(c), Going(h, n, F, c),
         n + BufSize \in SNs, NEW f \in Frames
  PROVE  Takes(h, n, F, c, Manage(c, f), BufSize, ~f.more /\ Dist(c.head, f.sn) < BufSize)
<1> DEFINE j == Slot(f.sn)
           w == ~f.more /\ Dist(c.head, f.sn) < BufSize
           d == Manage(c, f)
<1>1. /\ BufSize \in Nat \ {0} /\ 0 \in 0 .. BufSize /\ 1 \in 0 .. BufSize /\ n \in Nat /\ n \in SNs
      /\ n + 0 = n /\ n + 1 \in SNs /\ n + 1 <= SnMod /\ f.sn \in SNs /\ f.more \in BOOLEAN
      /\ c \in Buffers /\ c.head = Plus(h, n) /\ c.head \in SNs /\ c.stored \in Int /\ c.stored \in Nat
  <2>1. f.sn \in SNs /\ f.more \in BOOLEAN
    BY DEF Frames
  <2>2. c \in Buffers /\ c.head = Plus(h, n) /\ c.head \in SNs /\ n \in SNs
    BY DEF Going, Tidy, Buffers
  <2>3. c.stored \in Nat
    <3>1. Cardinality(Full(c)) \in 0 .. BufSize
      BY FullIs
    <3> QED
      BY <3>1 DEF Tidy
  <2>4. /\ BufSize \in Nat \ {0} /\ 0 \in 0 .. BufSize /\ 1 \in 0 .. BufSize /\ n \in Nat
        /\ n + 0 = n /\ n + 1 \in SNs /\ n + 1 <= SnMod
    BY <2>2, RxReorderAssumption DEF SNs
  <2> QED
    BY <2>1, <2>2, <2>3, <2>4
<1>2. j \in Slots
  BY <1>1, AtIs
<1> HIDE DEF j, w
<1>3. CASE Ready(c, j)
  <2>1. d = c
    BY <1>3 DEF Manage, j
  <2>2. Kept(c, c) /\ TimerGoes(c, c)
    BY <1>1 DEF Kept, TimerGoes
  <2>3. Going(h, n + 0, F, c) /\ Stays(h, n, c, n + 0, c)
    BY <1>1 DEF Stays
  <2>4. Takes(h, n, F, c, d, BufSize, w)
    BY <1>1, <2>1, <2>2, <2>3 DEF Takes
  <2> QED
    BY <2>4 DEF w
<1>4. CASE ~Ready(c, j) /\ f.sn = c.head /\ c.stored = 0
  <2> DEFINE frames == Append(c.frames, f)
             head == IF f.more THEN c.head ELSE Plus(c.head, 1)
             e == [c EXCEPT !.frames = frames, !.head = head]
  <2>1. d = e
    BY <1>4 DEF Manage, j, Buffers
  <2>2. head \in SNs /\ frames \in Seq(Frames)
    <3>1. head \in SNs
      BY <1>1, PlusIn
    <3>2. c.frames \in Seq(Frames)
      BY <1>1 DEF Buffers
    <3> QED
      BY <3>1, <3>2, Lasts
  <2>3. (f.more => head = Plus(h, n)) /\ (~f.more => head = Plus(h, n + 1))
    <3>1. 1 \in Nat
      OBVIOUS
    <3> QED
      BY <1>1, <3>1, PlusPlus
  <2> HIDE DEF head
  <2>4. /\ e \in Buffers /\ Kept(c, e) /\ e.timer = c.timer /\ e.stored = c.stored /\ e.buf = c.buf
        /\ e.filtered = c.filtered /\ e.frames = frames /\ e.head = head
    BY <1>1, <2>2 DEF Buffers, Kept
  <2> HIDE DEF d, e
  <2>5. Tidy(e)
    <3>1. Full(e) = Full(c)
      BY <2>4 DEF Full, Complete
    <3> QED
      BY <2>4, <3>1 DEF Tidy
  <2>6. TimerGoes(c, e)
    BY <1>4, <2>4 DEF TimerGoes
  <2>7. CASE f.more
    <3>1. Going(h, n + 0, F, e)
      BY <1>1, <2>3, <2>4, <2>7 DEF Going, Marks
    <3>2. ~w
      BY <2>7 DEF w
    <3>3. Takes(h, n, F, c, e, BufSize, w)
      BY <1>1, <2>4, <2>5, <2>6, <3>1, <3>2 DEF Takes
    <3> QED
      BY <2>1, <3>3 DEF w, d
  <2>8. CASE ~f.more
    <3>1. ASSUME NEW i \in e.filtered PROVE i \in F /\ Ahead(h, i, n + 1)
      <4>1. i \in Slots /\ i # j /\ i \in F /\ Ahead(h, i, n)
        BY <1>1, <1>4, <2>4 DEF Ready, Going, Marks, Buffers
      <4>2. PICK k \in 0 .. BufSize - 1 : i = At(c.head, k)
        BY <1>1, <4>1, AtOnce
      <4>3. j = At(c.head, 0)
        BY <1>1, <1>4, AtOnce DEF j
      <4>4. 1 <= k /\ 1 \in Nat
        BY <1>1, <4>1, <4>2, <4>3
      <4>5. Ahead(h, At(c.head, k), n + 1)
        BY <1>1, <4>1, <4>2, <4>4, AheadLater
      <4> QED
        BY <4>1, <4>2, <4>5
    <3>2. Going(h, n + 1, F, e)
      BY <1>1, <2>3, <2>4, <2>8, <3>1 DEF Going, Marks
    <3>3. ASSUME Placed(c) PROVE Placed(e)
      <4> SUFFICES ASSUME NEW i \in Slots, e.buf[i] # <<>> PROVE \E s : Holds(e, i, s)
        BY DEF Placed
      <4>1. PICK s : Holds(c, i, s)
        BY <2>4, <3>3 DEF Placed
      <4>2. s \in SNs /\ Slot(s) = i /\ Dist(c.head, s) \in 0 .. BufSize - 1
            /\ c.buf[i] = <<[sn |-> s, more |-> FALSE]>>
        BY <1>1, <4>1, HeldAt DEF Holds
      <4>3. i # j
        <5> SUFFICES ASSUME i = j PROVE FALSE
          OBVIOUS
        <5>1. Last(c.buf[j]) = [sn |-> s, more |-> FALSE] /\ c.buf[j] # <<>>
          BY <4>2 DEF Last
        <5>2. Complete(c, j)
          BY <5>1 DEF Complete
        <5> QED
          BY <1>4, <5>2 DEF Ready
      <4>4. Dist(c.head, s) # 0
        <5> SUFFICES ASSUME Dist(c.head, s) = 0 PROVE FALSE
          OBVIOUS
        <5>1. s = c.head
          BY <1>1, <4>2, DistPlus
        <5> QED
          BY <1>4, <4>2, <4>3, <5>1 DEF j
      <4>5. c.head \in SNs /\ s \in SNs /\ 1 < SnMod
        BY <1>1, <4>2, RxReorderAssumption DEF SNs
      <4>6. Dist(Plus(c.head, 1), s) = Dist(c.head, s) - 1
        BY <4>4, <4>5, DistNext
      <4>7. e.head = Plus(c.head, 1)
        BY <2>4, <2>8 DEF head
      <4>8. Dist(e.head, s) < BufSize
        BY <1>1, <4>2, <4>6, <4>7
      <4> QED
        BY <2>4, <4>2, <4>8 DEF Holds
    <3>4. ASSUME Whole(h, n, c) PROVE Passed(h, n + 1, e.frames)
      <4>1. Dist(h, f.sn) = n
        BY <1>1, <1>4, DistPlus
      <4>2. \A t \in SNs : Dist(h, t) \in Int
        <5>1. \A t \in SNs : Dist(h, t) \in SNs
          BY DistIs
        <5> QED
          BY <5>1 DEF SNs
      <4>3. c.frames \in Seq(Frames) /\ Passed(h, n, c.frames) /\ n \in Int /\ n + 1 \in Int
            /\ n <= Dist(h, f.sn) /\ Dist(h, f.sn) < n + 1 /\ Dist(h, f.sn) \in Int /\ n <= n + 1
        BY <1>1, <3>4, <4>1 DEF Whole, Buffers
      <4>4. Passed(h, n + 1, c.frames \o <<[sn |-> f.sn, more |-> FALSE]>>)
        BY <1>1, <4>2, <4>3, PassedOne
      <4>5. f = [sn |-> f.sn, more |-> FALSE]
        BY <2>8, <4>3, Lasts
      <4>6. Append(c.frames, f) = c.frames \o <<f>>
        BY <4>3
      <4> QED
        BY <2>4, <4>4, <4>5, <4>6, Zenon
    <3>5. Stays(h, n, c, n + 1, e)
      BY <3>3, <3>4 DEF Stays, Whole
    <3>6. Takes(h, n, F, c, e, BufSize, w)
      BY <1>1, <2>4, <2>5, <2>6, <3>2, <3>5 DEF Takes
    <3> QED
      BY <2>1, <3>6 DEF w, d
  <2> QED
    BY <2>7, <2>8
<1>5. CASE ~Ready(c, j) /\ (f.sn # c.head \/ c.stored > 0)
  <2> DEFINE kept == [c EXCEPT !.buf[j] = Append(@, f)]
             e == IF f.more THEN kept ELSE [kept EXCEPT !.age[j] = 0, !.stored = @ + 1]
  <2>1. d = IF f.more THEN e ELSE ReorderRelease(e)
    BY <1>1, <1>5 DEF Manage, j
  <2>2. Stored(c, e, f, j)
    BY <1>1, <1>2, StoredIs
  <2> HIDE DEF d, e
  <2>3. Tidy(e) /\ Kept(c, e) /\ e.timer = c.timer /\ Going(h, n, F, e)
        /\ (w => Stays(h, n, c, n, e))
    BY <1>2, <1>5, <2>2, StoredDoes DEF j, w
  <2>4. CASE f.more
    <3>1. e.stored = c.stored
      BY <2>2, <2>4 DEF Stored
    <3>2. TimerGoes(c, e)
      BY <2>3, <3>1 DEF TimerGoes
    <3>3. Going(h, n + 0, F, e) /\ (w => Stays(h, n, c, n + 0, e))
      BY <1>1, <2>3
    <3>4. Takes(h, n, F, c, e, BufSize, w)
      BY <1>1, <2>3, <3>2, <3>3 DEF Takes
    <3> QED
      BY <2>1, <2>4, <3>4 DEF w, d
  <2>5. CASE ~f.more
    <3> DEFINE q == ReorderRelease(e)
    <3>1. Does(h, n, F, e, q, BufSize) /\ Armed(q)
      BY <1>1, <2>3, ReorderReleaseDoes
    <3> HIDE DEF q
    <3>2. Tidy(q) /\ Kept(e, q) /\ TimerGoes(e, q)
      BY <3>1 DEF Does
    <3>3. PICK x \in 0 .. BufSize : Going(h, n + x, F, q) /\ Stays(h, n, e, n + x, q)
      BY <3>1 DEF Does, Onward
    <3>4. Kept(c, q)
      BY <2>3, <3>2 DEF Kept
    <3>5. TimerGoes(c, q)
      BY <2>3, <3>1, <3>2, <3>4 DEF TimerGoes, Armed, Kept
    <3>6. w => Stays(h, n, c, n + x, q)
      BY <2>3, <3>3 DEF Stays
    <3>7. Takes(h, n, F, c, q, BufSize, w)
      BY <3>2, <3>3, <3>4, <3>5, <3>6 DEF Takes
    <3> QED
      BY <2>1, <2>5, <3>7 DEF w, q, d
  <2> QED
    BY <2>4, <2>5
<1> QED
  BY <1>1, <1>3, <1>4, <1>5

(* Half of the sequence space. *)
LEMMA HalfIs ==
  /\ SnMod \div 2 \in Nat /\ 2 * (SnMod \div 2) <= SnMod /\ SnMod < 2 * (SnMod \div 2) + 2
  /\ BufSize <= SnMod \div 2 /\ SnMod \in Nat /\ BufSize \in Nat \ {0} /\ 2 * BufSize < SnMod
BY RxReorderAssumption

(* A number less than half the space ahead is released up to.              *)
LEMMA GapIs ==
  ASSUME NEW c, c.head \in SNs, NEW g \in Nat, 0 < g, SnMod \div 2 < SnMod - g
  PROVE  Gap(c, Plus(c.head, g)) = g /\ Plus(c.head, g) \in SNs
<1> DEFINE q == SnMod \div 2
           t == Plus(c.head, g)
<1>1. q \in Nat /\ SnMod \in Nat
  BY HalfIs
<1>2. q < SnMod - g
  OBVIOUS
<1> HIDE DEF q
<1>3. g \in SNs
  BY <1>1, <1>2 DEF SNs
<1>4. Dist(c.head, c.head) = 0 /\ Dist(c.head, t) = g /\ t \in SNs
  BY <1>1, <1>3, DistPlus, PlusIn
<1>5. Dist(t, c.head) = 0 + SnMod - g
  BY <1>3, <1>4, DistFrom
<1>6. Dist(t, c.head) > q
  BY <1>1, <1>2, <1>3, <1>5 DEF SNs
<1> QED
  BY <1>4, <1>6 DEF Gap, SnLess, q

(* A number that is not out of date is at most half the space ahead: the   *)
(* window holds it, or is moved as far as it.                              *)
LEMMA MakeRoomIs ==
  ASSUME WholeTurns, NEW c, c.head \in SNs, NEW sn \in SNs, ~SnLess(sn, c.head)
  PROVE  LET far == Dist(c.head, sn) IN
         /\ far \in Nat /\ far <= SnMod \div 2
         /\ far < BufSize => MakeRoom(c, sn) = c
         /\ BufSize <= far => \E head \in SNs :
              MakeRoom(c, sn) = ReleaseFrames(c, head) /\ Gap(c, head) = far - BufSize + 1
<1> DEFINE D == Dist(c.head, sn)
           q == SnMod \div 2
           edge == Plus(c.head, BufSize)
           t == Plus(sn, SnMod - BufSize + 1)
           g == D - BufSize + 1
<1>1. /\ q \in Nat /\ 2 * q <= SnMod /\ SnMod < 2 * q + 2 /\ BufSize <= q /\ SnMod \in Nat
      /\ BufSize \in Nat \ {0} /\ 2 * BufSize < SnMod /\ BufSize > 1
  BY HalfIs DEF WholeTurns
<1> HIDE DEF q
<1>2. D \in SNs /\ D \in Nat /\ D < SnMod /\ D <= q
  <2>1. D \in SNs
    BY DistIs
  <2>2. ~(D > q)
    BY DEF SnLess, q
  <2> QED
    BY <1>1, <2>1, <2>2 DEF SNs
<1>3. BufSize \in SNs /\ edge \in SNs
  <2>1. BufSize \in SNs /\ BufSize \in Nat
    BY <1>1 DEF SNs
  <2> QED
    BY <2>1, PlusIn
<1>4. /\ BufSize <= D => Dist(edge, sn) = D - BufSize
      /\ D < BufSize => Dist(edge, sn) = D + SnMod - BufSize
  BY <1>3, DistFrom
<1>5. SnLess(sn, edge) <=> Dist(edge, sn) > q
  BY DEF SnLess, q
<1> HIDE DEF D, edge
<1>6. SnLess(sn, edge) <=> D < BufSize
  BY <1>1, <1>2, <1>4, <1>5
<1>7. MakeRoom(c, sn) = IF SnLess(sn, edge) THEN c ELSE ReleaseFrames(c, t)
  BY DEF MakeRoom, edge
<1>8. ASSUME BufSize <= D PROVE t = Plus(c.head, g) /\ g \in Nat /\ 0 < g /\ q < SnMod - g
  <2>1. g \in Nat /\ 0 < g /\ q < SnMod - g /\ g \in 0 .. SnMod /\ SnMod - BufSize + 1 \in 0 .. SnMod
    BY <1>1, <1>2, <1>8
  <2> DEFINE u == Plus(c.head, g)
             z == SnMod - BufSize + 1
  <2>2. /\ c.head <= sn => D = sn - c.head
        /\ sn < c.head => D = sn + SnMod - c.head
    BY DistIs DEF D
  <2>3. /\ c.head + g < SnMod => u = c.head + g
        /\ SnMod <= c.head + g => u = c.head + g - SnMod
    BY <2>1, PlusIs
  <2>4. /\ sn + z < SnMod => t = sn + z
        /\ SnMod <= sn + z => t = sn + z - SnMod
    BY <2>1, PlusIs
  <2> HIDE DEF u, t
  <2>5. sn \in Nat /\ sn < SnMod /\ c.head \in Nat /\ c.head < SnMod
    BY <1>1 DEF SNs
  <2>6. t = u
    BY <1>1, <1>2, <1>8, <2>2, <2>3, <2>4, <2>5
  <2> QED
    BY <2>1, <2>6 DEF u
<1>9. ASSUME BufSize <= D PROVE t \in SNs /\ Gap(c, t) = g /\ MakeRoom(c, sn) = ReleaseFrames(c, t)
  <2> HIDE DEF t, g
  <2>1. Gap(c, Plus(c.head, g)) = g /\ Plus(c.head, g) \in SNs
    BY <1>8, <1>9, GapIs DEF q
  <2>2. ~SnLess(sn, edge)
    BY <1>1, <1>2, <1>6, <1>9
  <2> QED
    BY <1>7, <1>8, <1>9, <2>1, <2>2
<1>10. D < BufSize => MakeRoom(c, sn) = c
  BY <1>6, <1>7
<1> HIDE DEF t
<1> QED
  BY <1>2, <1>9, <1>10 DEF D, q

(* Room is made.                                                           *)
LEMMA MakeRoomDoes ==
  ASSUME WholeTurns, NEW c, Tidy(c), NEW sn \in SNs, ~SnLess(sn, c.head)
  PROVE  LET d == MakeRoom(c, sn) IN
         /\ Tidy(d) /\ Kept(c, d) /\ TimerGoes(c, d) /\ Dist(d.head, sn) < BufSize
         /\ \E g \in SNs : /\ g + BufSize \in SNs
                           /\ Going(c.head, g, c.filtered, d) /\ Stays(c.head, 0, c, g, d)
<1> DEFINE d == MakeRoom(c, sn)
           D == Dist(c.head, sn)
           q == SnMod \div 2
<1>1. c \in Buffers /\ c.head \in SNs /\ c.stored \in Int
  BY DEF Tidy, Buffers
<1>2. Going(c.head, 0, c.filtered, c)
  BY <1>1, GoingNow
<1>3. /\ q \in Nat /\ 2 * q <= SnMod /\ SnMod < 2 * q + 2 /\ BufSize <= q /\ SnMod \in Nat
      /\ BufSize \in Nat \ {0} /\ 2 * BufSize < SnMod /\ BufSize > 1
  BY HalfIs DEF WholeTurns
<1>4. /\ D \in Nat /\ D <= q
      /\ D < BufSize => d = c
      /\ BufSize <= D => \E head \in SNs : d = ReleaseFrames(c, head) /\ Gap(c, head) = D - BufSize + 1
  BY <1>1, MakeRoomIs
<1> HIDE DEF d, D, q
<1>5. CASE D < BufSize
  <2>1. d = c
    BY <1>4, <1>5
  <2>2. 0 \in SNs /\ 0 + BufSize \in SNs
    BY <1>3 DEF SNs
  <2>3. Kept(c, c) /\ TimerGoes(c, c) /\ Stays(c.head, 0, c, 0, c)
    BY <1>1 DEF Kept, TimerGoes, Stays
  <2>4. Dist(c.head, sn) < BufSize
    BY <1>5 DEF D
  <2> QED
    BY <1>2, <2>1, <2>2, <2>3, <2>4 DEF d
<1>6. CASE BufSize <= D
  <2> DEFINE g == D - BufSize + 1
  <2>1. PICK head \in SNs : d = ReleaseFrames(c, head) /\ Gap(c, head) = g
    BY <1>4, <1>6
  <2>2. g \in SNs /\ g + BufSize \in SNs /\ 0 + g = g /\ g <= D /\ D - g < BufSize
    BY <1>3, <1>4, <1>6 DEF SNs
  <2>3. /\ Tidy(d) /\ Kept(c, d) /\ TimerGoes(c, d)
        /\ Going(c.head, g, c.filtered, d) /\ Stays(c.head, 0, c, g, d)
    <3> HIDE DEF g
    <3>1. 0 + Gap(c, head) \in SNs /\ 0 + Gap(c, head) = g
      BY <2>1, <2>2
    <3> QED
      BY <1>1, <1>2, <2>1, <3>1, ReleaseFramesDoes
  <2> HIDE DEF g
  <2>4. d.head = Plus(c.head, g)
    BY <2>3 DEF Going
  <2>5. Dist(Plus(c.head, g), sn) = D - g
    BY <1>1, <2>2, DistFrom DEF D
  <2>6. Dist(d.head, sn) < BufSize
    BY <2>2, <2>4, <2>5
  <2> QED
    BY <2>2, <2>3, <2>6 DEF d
<1> QED
  BY <1>3, <1>4, <1>5, <1>6

(* The timer goes on through two changes.                                  *)
LEMMA TimerGoesOn ==
  ASSUME NEW c, NEW d, NEW e, Kept(c, d), TimerGoes(c, d), TimerGoes(d, e)
  PROVE  TimerGoes(c, e)
BY DEF TimerGoes, Kept

(* Fields that the buffers, the window and the timer do not depend on.     *)
Same(c, d) ==
  /\ d \in Buffers /\ d.stored = c.stored /\ d.buf = c.buf /\ d.timer = c.timer
  /\ d.removed = c.removed

(* Changes that leave the stored frames alone.                             *)
LEMMA SameIs ==
  ASSUME NEW c, NEW d, Tidy(c), Same(c, d)
  PROVE  /\ d.filtered \subseteq c.filtered => Tidy(d)
         /\ TimerGoes(c, d)
         /\ d.head = c.head /\ Placed(c) => Placed(d)
         /\ (\A j \in Slots : c.buf[j] = <<>>) => Placed(d)
<1>1. Full(d) = Full(c)
  BY DEF Full, Complete, Same
<1>2. d.filtered \subseteq c.filtered => Tidy(d)
  BY <1>1 DEF Tidy, Same
<1>3. c.stored \in Int
  BY DEF Tidy, Buffers
<1>4. TimerGoes(c, d)
  BY <1>3 DEF TimerGoes, Same
<1> QED
  BY <1>2, <1>4 DEF Placed, Holds, Same

(* ieee80211_sta_manage_reorder_buf(), all of it.                          *)
LEMMA ReceiveDoes ==
  ASSUME WholeTurns, NEW c, Tidy(c), c.frames = <<>>, NEW f \in Frames,
         c.auto_seq => \A j \in Slots : c.buf[j] = <<>>
  PROVE  LET d == ReceiveFrame(c, f) IN
         /\ Tidy(d) /\ TimerGoes(c, d) /\ d.removed = c.removed /\ ~d.auto_seq
         /\ d.filtered \subseteq c.filtered
         /\ ~f.more /\ Placed(c) => Placed(d)
         /\ ~c.auto_seq => \E n \in SNs :
              /\ Going(c.head, n, c.filtered, d)
              /\ c.started /\ ~f.more /\ Placed(c) => Passed(c.head, n, d.frames)
<1> DEFINE p == PickSsn(c, f)
           d == ReceiveFrame(c, f)
<1>1. c \in Buffers /\ c.head \in SNs /\ f.sn \in SNs
  BY DEF Tidy, Buffers, Frames
<1>2. /\ Same(c, p) /\ ~p.auto_seq /\ p.started = c.started /\ p.frames = <<>>
      /\ p.filtered = c.filtered /\ (~c.auto_seq => p = c)
  <2>1. CASE c.auto_seq
    <3> DEFINE e == [c EXCEPT !.auto_seq = FALSE, !.head = f.sn]
    <3>1. p = e
      BY <2>1 DEF PickSsn
    <3>2. /\ e \in Buffers /\ e.stored = c.stored /\ e.buf = c.buf /\ e.timer = c.timer
          /\ e.removed = c.removed /\ ~e.auto_seq /\ e.started = c.started /\ e.frames = c.frames
          /\ e.filtered = c.filtered
      BY <1>1 DEF Buffers
    <3> HIDE DEF e, p
    <3> QED
      BY <2>1, <3>1, <3>2 DEF Same
  <2>2. CASE ~c.auto_seq
    <3>1. p = c
      BY <2>2 DEF PickSsn
    <3> HIDE DEF p
    <3> QED
      BY <1>1, <2>2, <3>1 DEF Same
  <2> QED
    BY <2>1, <2>2
<1>3. d = IF SnLess(f.sn, p.head)
          THEN IF p.started THEN p ELSE [p EXCEPT !.frames = <<f>>]
          ELSE Manage(MakeRoom([p EXCEPT !.started = TRUE], f.sn), f)
  BY DEF ReceiveFrame
<1> HIDE DEF p, d
<1>4. p \in Buffers /\ p.head \in SNs
  BY <1>2 DEF Same, Buffers
<1>5. CASE SnLess(f.sn, p.head)
  <2> DEFINE e == [p EXCEPT !.frames = <<f>>]
  <2>1. <<f>> \in Seq(Frames)
    OBVIOUS
  <2>2. /\ e \in Buffers /\ e.stored = p.stored /\ e.buf = p.buf /\ e.timer = p.timer
        /\ e.removed = p.removed /\ ~e.auto_seq /\ e.filtered = p.filtered /\ e.head = p.head
    BY <1>2, <1>4, <2>1 DEF Buffers
  <2>3. d = IF p.started THEN p ELSE e
    BY <1>3, <1>5
  <2> HIDE DEF e
  <2>4. Same(c, d) /\ ~d.auto_seq /\ d.filtered = c.filtered /\ d.head = p.head
        /\ (c.started => d.frames = <<>>)
    BY <1>2, <1>4, <2>2, <2>3 DEF Same
  <2>5. Tidy(d) /\ TimerGoes(c, d) /\ (~c.auto_seq /\ Placed(c) => Placed(d))
        /\ ((\A j \in Slots : c.buf[j] = <<>>) => Placed(d))
    BY <1>2, <2>4, SameIs
  <2>6. Placed(c) => Placed(d)
    BY <2>5
  <2>7. ~c.auto_seq => Going(c.head, 0, c.filtered, d)
    <3>1. Going(d.head, 0, d.filtered, d)
      BY <2>4, GoingNow DEF Same
    <3> QED
      BY <1>2, <2>4, <3>1
  <2>8. Passed(c.head, 0, <<>>) /\ 0 \in SNs
    BY RxReorderAssumption DEF Passed, SNs
  <2> QED
    BY <2>4, <2>5, <2>6, <2>7, <2>8 DEF d, Same
<1>6. CASE ~SnLess(f.sn, p.head)
  <2> DEFINE q == [p EXCEPT !.started = TRUE]
             r == MakeRoom(q, f.sn)
             h == q.head
  <2>1. /\ q \in Buffers /\ q.stored = p.stored /\ q.buf = p.buf /\ q.timer = p.timer
        /\ q.removed = p.removed /\ ~q.auto_seq /\ q.filtered = p.filtered /\ q.head = p.head
        /\ q.frames = <<>>
    BY <1>2, <1>4 DEF Buffers
  <2>2. d = Manage(r, f)
    BY <1>3, <1>6
  <2> HIDE DEF q
  <2>3. Same(c, q) /\ h \in SNs /\ q.filtered = c.filtered
    BY <1>2, <1>4, <2>1 DEF Same
  <2>4. Tidy(q) /\ TimerGoes(c, q) /\ (Placed(c) => Placed(q))
    <3>1. ~c.auto_seq => q.head = c.head
      BY <1>2, <2>1
    <3> QED
      BY <2>3, <3>1, SameIs
  <2>5. ~SnLess(f.sn, q.head)
    BY <1>6, <2>1
  <2>6. /\ Tidy(r) /\ Kept(q, r) /\ TimerGoes(q, r) /\ Dist(r.head, f.sn) < BufSize
        /\ \E g \in SNs : /\ g + BufSize \in SNs
                          /\ Going(h, g, q.filtered, r) /\ Stays(h, 0, q, g, r)
    BY <1>1, <2>4, <2>5, MakeRoomDoes
  <2> HIDE DEF r, h
  <2>7. PICK g \in SNs : g + BufSize \in SNs /\ Going(h, g, q.filtered, r) /\ Stays(h, 0, q, g, r)
    BY <2>6
  <2>8. Takes(h, g, q.filtered, r, d, BufSize, ~f.more /\ Dist(r.head, f.sn) < BufSize)
    BY <2>2, <2>3, <2>6, <2>7, ManageDoes
  <2>9. Tidy(d) /\ Kept(r, d) /\ TimerGoes(r, d)
    BY <2>8 DEF Takes
  <2>10. PICK x \in 0 .. BufSize :
           Going(h, g + x, q.filtered, d) /\ (~f.more => Stays(h, g, r, g + x, d))
    BY <2>6, <2>8 DEF Takes
  <2>11. TimerGoes(c, d)
    <3>1. TimerGoes(q, d)
      BY <2>6, <2>9, TimerGoesOn
    <3>2. q.removed = c.removed
      BY <2>3 DEF Same
    <3> QED
      BY <2>4, <3>1, <3>2 DEF TimerGoes
  <2>12. d.removed = c.removed /\ ~d.auto_seq
    BY <2>1, <2>3, <2>6, <2>9 DEF Kept, Same
  <2>13. g + x \in SNs
    BY <2>10 DEF Going
  <2>14. d.filtered \subseteq c.filtered
    BY <2>3, <2>10 DEF Going, Marks
  <2>15. ~f.more /\ Placed(c) => Placed(d) /\ Passed(h, g + x, d.frames)
    <3>1. Passed(h, 0, q.frames)
      BY <2>1 DEF Passed
    <3> QED
      BY <2>4, <2>7, <2>10, <3>1 DEF Stays, Whole
  <2>16. ~c.auto_seq => h = c.head
    BY <1>2, <2>1 DEF h
  <2> QED
    BY <2>3, <2>9, <2>10, <2>11, <2>12, <2>13, <2>14, <2>15, <2>16 DEF d
<1> QED
  BY <1>5, <1>6

(* ieee80211_release_reorder_frames() for a BAR.                           *)
LEMMA BarDoes ==
  ASSUME WholeTurns, NEW c, Tidy(c), c.frames = <<>>, NEW ssn \in SNs
  PROVE  LET d == ReleaseFrames(c, ssn) IN
         /\ Tidy(d) /\ TimerGoes(c, d) /\ Kept(c, d) /\ Fewer(c, d) /\ (Placed(c) => Placed(d))
         /\ BufSize <= Gap(c, ssn) => \A j \in Slots : d.buf[j] = <<>>
         /\ \E n \in SNs :
              Going(c.head, n, c.filtered, d) /\ (Placed(c) => Passed(c.head, n, d.frames))
<1> DEFINE g == Gap(c, ssn)
           d == ReleaseFrames(c, ssn)
<1>1. c \in Buffers /\ c.head \in SNs
  BY DEF Tidy, Buffers
<1>2. g \in SNs
  BY <1>1, ReleaseFramesIs
<1>3. 0 + g = g
  BY <1>2 DEF SNs
<1> HIDE DEF g
<1>4. 0 + Gap(c, ssn) \in SNs /\ 0 + Gap(c, ssn) = g
  BY <1>2, <1>3 DEF g
<1>5. Going(c.head, 0, c.filtered, c)
  BY <1>1, GoingNow
<1>6. /\ Tidy(d) /\ Kept(c, d) /\ TimerGoes(c, d) /\ Fewer(c, d)
      /\ Going(c.head, g, c.filtered, d) /\ Stays(c.head, 0, c, g, d)
      /\ BufSize <= Gap(c, ssn) => \A j \in Slots : d.buf[j] = <<>>
  BY <1>1, <1>4, <1>5, ReleaseFramesDoes
<1> HIDE DEF d
<1>7. Passed(c.head, 0, c.frames)
  BY DEF Passed
<1>8. Placed(c) => Placed(d) /\ Passed(c.head, g, d.frames)
  BY <1>6, <1>7 DEF Stays, Whole
<1> QED
  BY <1>2, <1>6, <1>8 DEF d

(* A number marked is in the slot that the bitmap has for it.              *)
LEMMA MarkedSlot ==
  ASSUME WholeTurns, NEW ssn \in SNs, NEW diff \in 0 .. BufSize - 1, NEW i \in 0 .. BufSize - 1,
         i + diff \in 0 .. BufSize - 1
  PROVE  /\ (ssn + diff + i) % BufSize = Slot(Plus(ssn, i + diff))
         /\ Slot(Plus(ssn, i + diff)) \in Slots
<1> DEFINE k == i + diff
           x == ssn + k
<1>1. /\ BufSize \in Nat \ {0} /\ ssn \in Nat /\ k \in Nat /\ k \in 0 .. BufSize
      /\ ssn + diff + i = x
  BY RxReorderAssumption DEF SNs
<1>2. Slot(Plus(ssn, k)) = At(ssn, k) /\ At(ssn, k) \in Slots
  BY <1>1, SlotPlus, AtIs
<1> HIDE DEF k
<1>3. At(ssn, k) = (ssn + k) % BufSize
  BY <1>1, ModAdd DEF At, Slot
<1> QED
  BY <1>1, <1>2, <1>3 DEF k

(* The window is moved or given up.                                        *)
LEMMA MovedDoes ==
  ASSUME WholeTurns, NEW c, Tidy(c), c.frames = <<>>, NEW ssn \in SNs, NEW giveup \in BOOLEAN
  PROVE  LET d == IF giveup THEN [ReleaseFrames(c, Plus(c.head, BufSize)) EXCEPT !.head = ssn]
                            ELSE ReleaseFrames(c, ssn)
         IN  /\ Tidy(d) /\ TimerGoes(c, d) /\ Kept(c, d) /\ Fewer(c, d) /\ (Placed(c) => Placed(d))
<1> DEFINE edge == Plus(c.head, BufSize)
           e == ReleaseFrames(c, edge)
           d == [e EXCEPT !.head = ssn]
<1>1. CASE ~giveup
  BY <1>1, BarDoes
<1>2. CASE giveup
  <2>1. c.head \in SNs
    BY DEF Tidy, Buffers
  <2>2. BufSize \in Nat /\ 0 < BufSize /\ SnMod \div 2 < SnMod - BufSize
    BY HalfIs
  <2>3. Gap(c, edge) = BufSize /\ edge \in SNs /\ BufSize <= BufSize
    BY <2>1, <2>2, GapIs
  <2> HIDE DEF edge
  <2>4. Tidy(e) /\ TimerGoes(c, e) /\ Kept(c, e) /\ Fewer(c, e) /\ \A j \in Slots : e.buf[j] = <<>>
    BY <2>3, BarDoes
  <2> HIDE DEF e
  <2>5. e \in Buffers
    BY <2>4 DEF Tidy
  <2>6. Same(e, d) /\ Kept(e, d) /\ d.filtered = e.filtered
    BY <2>5 DEF Same, Kept, Buffers
  <2> HIDE DEF d
  <2>7. Tidy(d) /\ TimerGoes(e, d) /\ Placed(d)
    BY <2>4, <2>6, SameIs
  <2>8. TimerGoes(c, d)
    BY <2>4, <2>7, TimerGoesOn
  <2>9. Kept(c, d) /\ Fewer(c, d)
    BY <2>4, <2>6 DEF Kept, Fewer, Same
  <2> QED
    BY <1>2, <2>7, <2>8, <2>9 DEF d, e, edge
<1> QED
  BY <1>1, <1>2

(* ieee80211_mark_rx_ba_filtered_frames()                                  *)
LEMMA MarkFilteredDoes ==
  ASSUME WholeTurns, NEW c, Tidy(c), c.frames = <<>>, NEW ssn \in SNs,
         NEW marked \in SUBSET (0 .. BufSize - 1), NEW giveup \in BOOLEAN,
         \A i \in marked : c.buf[Slot(Plus(ssn, i))] = <<>>
  PROVE  LET d == MarkFiltered(c, ssn, marked, giveup) IN
         Tidy(d) /\ TimerGoes(c, d) /\ Kept(c, d) /\ Fewer(c, d) /\ (Placed(c) => Placed(d))
<1> DEFINE e == IF giveup THEN [ReleaseFrames(c, Plus(c.head, BufSize)) EXCEPT !.head = ssn]
                          ELSE ReleaseFrames(c, ssn)
           diff == Dist(ssn, e.head)
           K == {k \in 0 .. BufSize - 1 : k + diff \in marked}
           G == {(ssn + diff + i) % BufSize : i \in K}
           none == [e EXCEPT !.filtered = {}]
           some == [e EXCEPT !.filtered = G]
           d == MarkFiltered(c, ssn, marked, giveup)
<1>1. Tidy(e) /\ TimerGoes(c, e) /\ Kept(c, e) /\ Fewer(c, e) /\ (Placed(c) => Placed(e))
  BY MovedDoes
<1>2. d = IF diff >= BufSize THEN none ELSE ReorderRelease(some)
  BY DEF MarkFiltered
<1> HIDE DEF e, d
<1>3. e \in Buffers /\ e.head \in SNs /\ diff \in SNs
  <2>1. e \in Buffers /\ e.head \in SNs
    BY <1>1 DEF Tidy, Buffers
  <2> QED
    BY <2>1, DistIs
<1> HIDE DEF diff
<1>4. CASE diff >= BufSize
  <2>1. d = none
    BY <1>2, <1>4
  <2>2. Same(e, none) /\ Kept(e, none) /\ none.filtered \subseteq e.filtered /\ none.head = e.head
    BY <1>3 DEF Same, Kept, Buffers
  <2> HIDE DEF none
  <2>3. Tidy(none) /\ TimerGoes(e, none) /\ (Placed(e) => Placed(none))
    BY <1>1, <2>2, SameIs
  <2>4. TimerGoes(c, none) /\ Kept(c, none) /\ Fewer(c, none)
    <3>1. TimerGoes(c, none)
      BY <1>1, <2>3, TimerGoesOn
    <3>2. Kept(c, none) /\ Fewer(c, none)
      BY <1>1, <2>2 DEF Kept, Fewer, Same
    <3> QED
      BY <3>1, <3>2
  <2> QED
    BY <1>1, <2>1, <2>3, <2>4 DEF d
<1>5. CASE ~(diff >= BufSize)
  <2>1. diff \in 0 .. BufSize - 1
    BY <1>3, <1>5, RxReorderAssumption DEF SNs
  <2>2. \A j \in G : j \in Slots /\ e.buf[j] = <<>>
    <3> SUFFICES ASSUME NEW i \in K
                 PROVE  LET j == (ssn + diff + i) % BufSize IN j \in Slots /\ e.buf[j] = <<>>
      OBVIOUS
    <3>1. i \in 0 .. BufSize - 1 /\ i + diff \in marked /\ i + diff \in 0 .. BufSize - 1
      OBVIOUS
    <3> DEFINE j == Slot(Plus(ssn, i + diff))
    <3>2. (ssn + diff + i) % BufSize = j /\ j \in Slots
      BY <2>1, <3>1, MarkedSlot
    <3>3. c.buf[j] = <<>>
      BY <3>1
    <3> HIDE DEF j
    <3>4. e.buf[j] = <<>>
      BY <1>1, <3>2, <3>3 DEF Fewer
    <3> QED
      BY <3>2, <3>4
  <2>3. G \subseteq Slots
    BY <2>2
  <2> HIDE DEF G
  <2>4. d = ReorderRelease(some)
    BY <1>2, <1>5
  <2>5. Same(e, some) /\ Kept(e, some) /\ some.filtered = G /\ some.head = e.head
    BY <1>3, <2>3 DEF Same, Kept, Buffers
  <2> HIDE DEF some
  <2>6. TimerGoes(e, some) /\ (Placed(e) => Placed(some)) /\ some \in Buffers /\ some.head \in SNs
    BY <1>1, <1>3, <2>5, SameIs DEF Same
  <2>7. Tidy(some)
    <3>1. Full(some) = Full(e)
      BY <2>5 DEF Full, Complete, Same
    <3>2. some.stored = Cardinality(Full(some))
      BY <1>1, <2>5, <3>1 DEF Tidy, Same
    <3>3. \A j \in some.filtered : some.buf[j] = <<>>
      BY <2>2, <2>5 DEF Same
    <3> QED
      BY <2>6, <3>2, <3>3 DEF Tidy
  <2>8. Going(some.head, 0, some.filtered, some) /\ 0 + BufSize \in SNs
    <3>1. 0 + BufSize \in SNs
      BY RxReorderAssumption DEF SNs
    <3> QED
      BY <2>6, <3>1, GoingNow
  <2>9. Does(some.head, 0, some.filtered, some, d, BufSize)
    BY <2>4, <2>6, <2>7, <2>8, ReorderReleaseDoes
  <2>10. Tidy(d) /\ Kept(some, d) /\ TimerGoes(some, d) /\ Fewer(some, d) /\ (Placed(some) => Placed(d))
    BY <2>9 DEF Does, Onward, Stays
  <2>11. Kept(c, some) /\ Kept(c, d)
    BY <1>1, <2>5, <2>10 DEF Kept
  <2>12. TimerGoes(c, some)
    BY <1>1, <2>6, TimerGoesOn
  <2>14. Fewer(c, d)
    BY <1>1, <2>5, <2>10 DEF Fewer, Same
  <2>13. TimerGoes(c, d)
    BY <2>10, <2>11, <2>12, TimerGoesOn
  <2> QED
    BY <1>1, <2>6, <2>10, <2>11, <2>13, <2>14 DEF d
<1> QED
  BY <1>4, <1>5

-----------------------------------------------------------------------------
(* The inductive invariant. *)

Kinds ==
  /\ session \in Lives /\ session_timer \in BOOLEAN
  /\ rx \in {"idle", "held", "bar"} /\ amsdu \in SNs \cup {NoAmsdu} /\ th \in {"idle", "found"}

(* A session that is freed keeps its count, though its slots are empty.    *)
Content ==
  /\ b \in Buffers /\ b.stored \in 0 .. BufSize
  /\ session # "freed" => Tidy(b)

(* The end of the session. *)
Ended ==
  /\ b.removed <=> session \in {"removed", "condemned", "freed"}
  /\ session \in {"condemned", "freed"} => b.timer = Off /\ th = "idle"
  /\ session = "freed" => rx = "idle"

(* A session that waits for its first frame has none, and what the         *)
(* environment does not cause is not there.                                *)
Unset ==
  /\ b.auto_seq => "auto_seq" \in Events /\ ~b.started /\ \A j \in Slots : b.buf[j] = <<>>
  /\ "filter" \notin Events => b.filtered = {}
  /\ "amsdu" \notin Events => Placed(b)

Sound == Kinds /\ Content /\ Ended /\ Unset /\ TimerArmed

(* What a call under reorder_lock does to the buffer.                      *)
Turn(c, d) ==
  /\ Tidy(d) /\ TimerGoes(c, d) /\ d.removed = c.removed
  /\ d.auto_seq => c.auto_seq /\ d.started = c.started /\ Fewer(c, d)
  /\ "filter" \notin Events /\ c.filtered = {} => d.filtered = {}
  /\ "amsdu" \notin Events /\ Placed(c) => Placed(d)

(* The buffer of a new session. *)
LEMMA FreshIs ==
  ASSUME NEW ssn \in SNs, NEW auto \in BOOLEAN
  PROVE  LET c == Fresh(ssn, auto) IN
         /\ Tidy(c) /\ ~c.removed /\ c.auto_seq = auto /\ ~c.started /\ c.filtered = {} /\ Placed(c)
         /\ c.stored = 0 /\ \A j \in Slots : c.buf[j] = <<>>
<1> DEFINE c == Fresh(ssn, auto)
           buf == [j \in Slots |-> <<>>]
           age == [j \in Slots |-> Timeout + 1]
<1>1. buf \in [Slots -> Seq(Frames)] /\ \A j \in Slots : buf[j] = <<>>
  OBVIOUS
<1>2. age \in [Slots -> 0 .. Timeout + 1]
  <2>1. Timeout + 1 \in 0 .. Timeout + 1
    BY RxReorderAssumption
  <2> QED
    BY <2>1
<1>3. Off \in 0 .. Off
  BY RxReorderAssumption DEF Off
<1>4. c = [head |-> ssn, stored |-> 0, buf |-> buf, filtered |-> {}, age |-> age, timer |-> Off,
           started |-> FALSE, auto_seq |-> auto, removed |-> FALSE, frames |-> <<>>]
  BY DEF Fresh
<1> HIDE DEF buf, age, c
<1>5. c \in Buffers
  BY <1>1, <1>2, <1>3, <1>4 DEF Buffers
<1>6. /\ ~c.removed /\ c.auto_seq = auto /\ ~c.started /\ c.filtered = {} /\ c.stored = 0
      /\ \A j \in Slots : c.buf[j] = <<>>
  BY <1>1, <1>4
<1>7. Full(c) = {}
  BY <1>6 DEF Full, Complete
<1>8. Tidy(c)
  BY <1>5, <1>6, <1>7, FS_EmptySet DEF Tidy
<1> QED
  BY <1>6, <1>8 DEF Placed, c

(* No session yet: the buffer of the first one is empty.                   *)
LEMMA InitSound ==
  Init => Sound
<1> SUFFICES ASSUME Init PROVE Sound
  OBVIOUS
<1> DEFINE c == Fresh(0, FALSE)
<1>1. 0 \in SNs
  BY RxReorderAssumption DEF SNs
<1>2. Tidy(c) /\ ~c.removed /\ ~c.auto_seq /\ c.filtered = {} /\ Placed(c) /\ c.stored = 0
  BY <1>1, FreshIs
<1> HIDE DEF c
<1>3. b = c
  BY DEF Init, c
<1>4. Kinds
  BY DEF Init, Kinds, Lives, NoAmsdu
<1>5. Content
  <2>1. c \in Buffers /\ c.stored \in 0 .. BufSize
    BY <1>2, RxReorderAssumption DEF Tidy
  <2> QED
    BY <1>2, <1>3, <2>1 DEF Content
<1>6. Ended /\ Unset /\ TimerArmed
  BY <1>2, <1>3 DEF Ended, Unset, TimerArmed, Init
<1> QED
  BY <1>4, <1>5, <1>6 DEF Sound

(* Taking the lock drops what the last call released.                      *)
LEMMA LockedIs ==
  ASSUME b \in Buffers
  PROVE  LET c == Locked IN
         /\ Same(b, c) /\ Kept(b, c) /\ c.head = b.head /\ c.filtered = b.filtered /\ c.frames = <<>>
         /\ Tidy(b) => Tidy(c)
<1> DEFINE c == [b EXCEPT !.frames = <<>>]
<1>1. /\ c \in Buffers /\ c.stored = b.stored /\ c.buf = b.buf /\ c.timer = b.timer
      /\ Kept(b, c) /\ c.head = b.head /\ c.filtered = b.filtered /\ c.frames = <<>>
  <2>1. <<>> \in Seq(Frames)
    OBVIOUS
  <2>2. c \in Buffers
    BY <2>1 DEF Buffers
  <2>3. /\ c.stored = b.stored /\ c.buf = b.buf /\ c.timer = b.timer
        /\ Kept(b, c) /\ c.head = b.head /\ c.filtered = b.filtered /\ c.frames = <<>>
    BY DEF Buffers, Kept
  <2> QED
    BY <2>2, <2>3
<1> HIDE DEF c
<1>2. Same(b, c)
  BY <1>1 DEF Same, Kept
<1>3. Tidy(b) => Tidy(c)
  BY <1>1, <1>2, SameIs
<1> QED
  BY <1>1, <1>2, <1>3 DEF Locked, c

(* A call under reorder_lock keeps the invariant.                          *)
LEMMA TurnKeeps ==
  ASSUME Sound, session # "freed", session' = session, Kinds', NEW d, b' = d, Turn(Locked, d),
         th' = th \/ (th' = "idle" /\ Armed(d))
  PROVE  Sound'
<1> DEFINE c == Locked
<1>1. b \in Buffers /\ Tidy(b)
  BY DEF Sound, Content
<1>2. /\ Same(b, c) /\ Kept(b, c) /\ c.head = b.head /\ c.filtered = b.filtered
  BY <1>1, LockedIs
<1> HIDE DEF c
<1>3. Tidy(d) /\ TimerGoes(c, d) /\ d.removed = b.removed /\ c.timer = b.timer /\ c.stored = b.stored
      /\ c.removed = b.removed
  BY <1>2 DEF Turn, Same, c
<1>4. Content'
  <2>1. d \in Buffers /\ d.stored = Cardinality(Full(d))
    BY <1>3 DEF Tidy
  <2>2. Cardinality(Full(d)) \in 0 .. BufSize
    BY FullIs
  <2> QED
    BY <1>3, <2>1, <2>2 DEF Content
<1>5. Ended'
  BY <1>3 DEF Sound, Ended, TimerGoes
<1>6. Unset'
  <2>1. d.auto_seq => "auto_seq" \in Events /\ ~d.started /\ \A j \in Slots : d.buf[j] = <<>>
    <3> SUFFICES ASSUME d.auto_seq
                 PROVE  "auto_seq" \in Events /\ ~d.started /\ \A j \in Slots : d.buf[j] = <<>>
      OBVIOUS
    <3>1. c.auto_seq /\ d.started = c.started /\ Fewer(c, d)
      BY DEF Turn, c
    <3>2. b.auto_seq /\ d.started = b.started /\ c.buf = b.buf
      BY <1>2, <3>1 DEF Kept, Same
    <3>3. "auto_seq" \in Events /\ ~b.started /\ \A j \in Slots : b.buf[j] = <<>>
      BY <3>2 DEF Sound, Unset
    <3> QED
      BY <3>1, <3>2, <3>3 DEF Fewer
  <2>2. "filter" \notin Events => d.filtered = {}
    BY <1>2 DEF Turn, c, Sound, Unset
  <2>3. "amsdu" \notin Events => Placed(d)
    <3>1. Placed(b) => Placed(c)
      BY <1>1, <1>2, SameIs
    <3> QED
      BY <3>1 DEF Turn, c, Sound, Unset
  <2> QED
    BY <2>1, <2>2, <2>3 DEF Unset
<1>7. TimerArmed'
  <2> SUFFICES ASSUME session = "live", d.stored > 0 PROVE d.timer # Off \/ th' = "found"
    BY DEF TimerArmed
  <2>1. ~d.removed
    BY <1>3 DEF Sound, Ended
  <2>2. CASE th' = "idle" /\ Armed(d)
    BY <2>1, <2>2 DEF Armed
  <2>3. CASE th' = th
    <3>1. d.timer # Off \/ (b.stored > 0 /\ d.timer = b.timer)
      BY <1>3, <2>1 DEF TimerGoes
    <3> QED
      BY <2>3, <3>1 DEF Sound, TimerArmed
  <2> QED
    BY <2>2, <2>3
<1> QED
  BY <1>4, <1>5, <1>6, <1>7 DEF Sound

(* ieee80211_start_rx_ba_session() starts with an empty buffer.            *)
LEMMA StartSound ==
  ASSUME Sound, StartRxBaSession
  PROVE  Sound'
<1>1. PICK ssn \in SNs, auto \in IF "auto_seq" \in Events THEN BOOLEAN ELSE {FALSE} : b' = Fresh(ssn, auto)
  BY DEF StartRxBaSession
<1> DEFINE c == Fresh(ssn, auto)
<1>2. auto \in BOOLEAN /\ (auto => "auto_seq" \in Events)
  OBVIOUS
<1>3. /\ Tidy(c) /\ ~c.removed /\ c.auto_seq = auto /\ ~c.started /\ c.filtered = {} /\ Placed(c)
      /\ c.stored = 0 /\ \A j \in Slots : c.buf[j] = <<>>
  BY <1>2, FreshIs
<1> HIDE DEF c
<1>4. b' = c /\ session' = "live"
  BY <1>1 DEF StartRxBaSession, c
<1>5. Kinds'
  BY <1>4 DEF StartRxBaSession, Kinds, Lives, Sound
<1>6. Content'
  <2>1. c \in Buffers /\ c.stored \in 0 .. BufSize
    BY <1>3, RxReorderAssumption DEF Tidy
  <2> QED
    BY <1>3, <1>4, <2>1 DEF Content
<1>7. Ended' /\ TimerArmed'
  BY <1>3, <1>4 DEF Ended, TimerArmed
<1>8. Unset'
  BY <1>2, <1>3, <1>4 DEF Unset
<1> QED
  BY <1>5, <1>6, <1>7, <1>8 DEF Sound

(* The end of the session. *)
LEMMA StopSound ==
  ASSUME Sound, Stop
  PROVE  Sound'
<1>1. b \in Buffers /\ Kinds /\ Off \in 0 .. Off
  BY RxReorderAssumption DEF Sound, Content, Off
<1> DEFINE c == Locked
<1>2. /\ Same(b, c) /\ Kept(b, c) /\ c.head = b.head /\ c.filtered = b.filtered /\ c.frames = <<>>
      /\ Tidy(b) => Tidy(c)
  BY <1>1, LockedIs
<1>3. c \in Buffers
  BY <1>2 DEF Same
<1> HIDE DEF c
<1>4. CASE StopRxBaSession
  BY <1>4 DEF StopRxBaSession, Sound, Kinds, Lives, Content, Ended, Unset, TimerArmed
<1>5. CASE StopSessionTimer
  BY <1>5 DEF StopSessionTimer, Sound, Kinds, Lives, Content, Ended, Unset, TimerArmed
<1>6. ASSUME NEW d, b' = d, d \in Buffers, d.stored = c.stored, d.buf = c.buf,
             d.filtered = c.filtered, d.head = c.head, d.started = c.started, d.auto_seq = c.auto_seq,
             session # "freed", session' # "freed", session' # "live"
      PROVE  Content' /\ Unset' /\ TimerArmed'
  <2>1. d \in Buffers /\ d.stored = c.stored /\ d.buf = c.buf
    BY <1>6
  <2>2. Tidy(b) /\ Tidy(c)
    BY <1>2, <1>6 DEF Sound, Content
  <2>3. Full(d) = Full(c)
    BY <2>1 DEF Full, Complete
  <2>4. Tidy(d)
    BY <1>6, <2>1, <2>2, <2>3 DEF Tidy
  <2>5. Placed(c) => Placed(d)
    BY <1>6, <2>1 DEF Placed, Holds
  <2>6. Placed(b) => Placed(c)
    BY <1>2, <2>2, SameIs
  <2>7. Content'
    <3>1. c.stored = b.stored
      BY <1>2 DEF Same
    <3> QED
      BY <1>6, <2>1, <2>4, <3>1 DEF Sound, Content
  <2>8. Unset'
    <3>1. c.buf = b.buf /\ c.auto_seq = b.auto_seq /\ c.started = b.started
      BY <1>2 DEF Same, Kept
    <3> QED
      BY <1>2, <1>6, <2>1, <2>5, <2>6, <3>1 DEF Sound, Unset
  <2> QED
    BY <1>6, <2>7, <2>8 DEF TimerArmed
<1>7. CASE StopMarkRemoved
  <2> DEFINE d == [c EXCEPT !.removed = TRUE]
  <2>1. /\ d \in Buffers /\ d.stored = c.stored /\ d.buf = c.buf /\ d.timer = c.timer /\ d.removed = TRUE
        /\ d.filtered = c.filtered /\ d.head = c.head /\ d.started = c.started /\ d.auto_seq = c.auto_seq
    BY <1>3 DEF Buffers
  <2>2. b' = d /\ session = "quiet" /\ session' = "removed"
    BY <1>7 DEF StopMarkRemoved, c
  <2> HIDE DEF d
  <2>4. Content' /\ Unset' /\ TimerArmed'
    BY <1>6, <2>1, <2>2
  <2>5. Kinds'
    BY <1>1, <1>7 DEF StopMarkRemoved, Kinds, Lives
  <2>6. Ended'
    BY <2>1, <2>2 DEF Ended
  <2> QED
    BY <2>4, <2>5, <2>6 DEF Sound
<1>8. CASE StopReorderTimer
  <2> DEFINE d == [c EXCEPT !.timer = Off]
  <2>1. /\ d \in Buffers /\ d.stored = c.stored /\ d.buf = c.buf /\ d.timer = Off /\ d.removed = c.removed
        /\ d.filtered = c.filtered /\ d.head = c.head /\ d.started = c.started /\ d.auto_seq = c.auto_seq
    BY <1>1, <1>3 DEF Buffers
  <2>2. b' = d /\ session = "removed" /\ session' = "condemned" /\ th = "idle" /\ th' = "idle"
    BY <1>8 DEF StopReorderTimer, c
  <2> HIDE DEF d
  <2>4. Content' /\ Unset' /\ TimerArmed'
    BY <1>6, <2>1, <2>2
  <2>5. Kinds'
    BY <1>1, <1>8 DEF StopReorderTimer, Kinds, Lives
  <2>6. Ended'
    <3>1. b.removed /\ c.removed = b.removed
      BY <1>2, <2>2 DEF Same, Sound, Ended
    <3> QED
      BY <2>1, <2>2, <3>1 DEF Ended
  <2> QED
    BY <2>4, <2>5, <2>6 DEF Sound
<1>9. CASE FreeTidRx
  <2> DEFINE buf == [j \in Slots |-> <<>>]
             d == [c EXCEPT !.buf = buf]
  <2>1. buf \in [Slots -> Seq(Frames)] /\ \A j \in Slots : buf[j] = <<>>
    OBVIOUS
  <2>2. b' = d /\ session = "condemned" /\ session' = "freed" /\ th = "idle" /\ th' = "idle" /\ rx' = "idle"
    BY <1>9 DEF FreeTidRx, c
  <2> HIDE DEF buf
  <2>3. /\ d \in Buffers /\ d.stored = c.stored /\ d.buf = buf /\ d.timer = c.timer /\ d.removed = c.removed
        /\ d.filtered = c.filtered /\ d.head = c.head /\ d.started = c.started /\ d.auto_seq = c.auto_seq
    BY <1>3, <2>1 DEF Buffers
  <2> HIDE DEF d
  <2>4. c.stored = b.stored /\ c.timer = b.timer /\ c.removed = b.removed /\ c.auto_seq = b.auto_seq
        /\ c.started = b.started
    BY <1>2 DEF Same, Kept
  <2>5. Content'
    BY <2>2, <2>3, <2>4 DEF Sound, Content
  <2>6. Kinds'
    BY <1>1, <1>9 DEF FreeTidRx, Kinds, Lives
  <2>7. Ended'
    BY <2>2, <2>3, <2>4 DEF Sound, Ended
  <2>8. Unset'
    <3>1. Placed(d)
      BY <2>1, <2>3 DEF Placed
    <3> QED
      BY <1>2, <2>1, <2>2, <2>3, <2>4, <3>1 DEF Sound, Unset
  <2> QED
    BY <2>2, <2>5, <2>6, <2>7, <2>8 DEF Sound, TimerArmed
<1> QED
  BY <1>4, <1>5, <1>7, <1>8, <1>9 DEF Stop

(* The receive path. *)
LEMMA ReceiveSound ==
  ASSUME WholeTurns, Sound, Receive
  PROVE  Sound'
<1> DEFINE c == Locked
<1>1. b \in Buffers /\ Kinds
  BY DEF Sound, Content
<1>2. /\ Same(b, c) /\ Kept(b, c) /\ c.head = b.head /\ c.filtered = b.filtered /\ c.frames = <<>>
      /\ Tidy(b) => Tidy(c)
  BY <1>1, LockedIs
<1>3. rx # "idle" => session # "freed" /\ Tidy(c)
  BY <1>2 DEF Sound, Ended, Content
<1> HIDE DEF c
<1>4. CASE FindSession
  BY <1>4 DEF FindSession, Sound, Kinds, Content, Ended, Unset, TimerArmed
<1>5. CASE RxBarTimer
  BY <1>5 DEF RxBarTimer, Sound, Kinds, Content, Ended, Unset, TimerArmed
<1>6. CASE RxFrame
  <2>1. PICK f \in Frames :
          /\ f.more => "amsdu" \in Events
          /\ amsdu' = IF f.more THEN f.sn ELSE NoAmsdu
          /\ b' = ReceiveFrame(c, f)
    BY <1>6 DEF RxFrame, c
  <2>2. session # "freed" /\ Tidy(c) /\ session' = session /\ th' = th
    BY <1>3, <1>6 DEF RxFrame
  <2>3. Kinds'
    BY <1>1, <1>6, <2>1 DEF RxFrame, Kinds, Frames
  <2> DEFINE d == ReceiveFrame(c, f)
  <2>4. c.auto_seq => \A j \in Slots : c.buf[j] = <<>>
    BY <1>2 DEF Sound, Unset, Kept, Same
  <2>5. /\ Tidy(d) /\ TimerGoes(c, d) /\ d.removed = c.removed /\ ~d.auto_seq
        /\ d.filtered \subseteq c.filtered /\ (~f.more /\ Placed(c) => Placed(d))
    BY <1>2, <2>2, <2>4, ReceiveDoes
  <2>6. b' = d
    BY <2>1
  <2> HIDE DEF d
  <2>7. Turn(c, d)
    BY <2>1, <2>5 DEF Turn
  <2> QED
    BY <2>2, <2>3, <2>6, <2>7, TurnKeeps DEF c
<1>7. CASE RxBar
  <2>1. PICK ssn \in SNs : b' = ReleaseFrames(c, ssn)
    BY <1>7, Zenon DEF RxBar, c
  <2>2. session # "freed" /\ Tidy(c) /\ session' = session /\ th' = th
    BY <1>3, <1>7 DEF RxBar
  <2>3. Kinds'
    BY <1>1, <1>7 DEF RxBar, Kinds
  <2> DEFINE d == ReleaseFrames(c, ssn)
  <2>4. /\ Tidy(d) /\ TimerGoes(c, d) /\ Kept(c, d) /\ Fewer(c, d) /\ (Placed(c) => Placed(d))
        /\ \E n \in SNs : Going(c.head, n, c.filtered, d)
    BY <1>2, <2>2, BarDoes
  <2>5. b' = d
    BY <2>1
  <2> HIDE DEF d
  <2>6. d.filtered \subseteq c.filtered
    BY <2>4 DEF Going, Marks
  <2>7. Turn(c, d)
    BY <2>4, <2>6 DEF Turn, Kept
  <2> QED
    BY <2>2, <2>3, <2>5, <2>7, TurnKeeps DEF c
<1>8. CASE RxFiltered
  <2>1. PICK ssn \in SNs, marked \in SUBSET (0 .. BufSize - 1), giveup \in BOOLEAN :
          /\ \A i \in marked : b.buf[Slot(Plus(ssn, i))] = <<>>
          /\ b' = MarkFiltered(c, ssn, marked, giveup)
    BY <1>8, Zenon DEF RxFiltered, c
  <2>2. session # "freed" /\ Tidy(c) /\ session' = session /\ th' = th /\ "filter" \in Events
    BY <1>3, <1>8 DEF RxFiltered
  <2>3. Kinds'
    BY <1>1, <1>8 DEF RxFiltered, Kinds
  <2> DEFINE d == MarkFiltered(c, ssn, marked, giveup)
  <2>4. \A i \in marked : c.buf[Slot(Plus(ssn, i))] = <<>>
    BY <1>2, <2>1 DEF Same
  <2>5. Tidy(d) /\ TimerGoes(c, d) /\ Kept(c, d) /\ Fewer(c, d) /\ (Placed(c) => Placed(d))
    BY <1>2, <2>2, <2>4, MarkFilteredDoes
  <2>6. b' = d
    BY <2>1
  <2> HIDE DEF d
  <2>7. Turn(c, d)
    BY <2>2, <2>5 DEF Turn, Kept
  <2> QED
    BY <2>2, <2>3, <2>6, <2>7, TurnKeeps DEF c
<1> QED
  BY <1>4, <1>5, <1>6, <1>7, <1>8 DEF Receive

(* Time. *)
LEMMA TimeSound ==
  ASSUME WholeTurns, Sound, Time
  PROVE  Sound'
<1> DEFINE c == Locked
<1>1. b \in Buffers /\ Kinds /\ Off \in Nat /\ Off # 0 /\ Timeout \in Nat
  BY RxReorderAssumption DEF Sound, Content, Off
<1>2. /\ Same(b, c) /\ Kept(b, c) /\ c.head = b.head /\ c.filtered = b.filtered /\ c.frames = <<>>
      /\ Tidy(b) => Tidy(c)
  BY <1>1, LockedIs
<1>3. c \in Buffers /\ c.stored = b.stored /\ c.buf = b.buf /\ c.timer = b.timer /\ c.removed = b.removed
      /\ c.auto_seq = b.auto_seq /\ c.started = b.started
  BY <1>2 DEF Same, Kept
<1> HIDE DEF c
<1>4. CASE SessionTimerExpired
  BY <1>4 DEF SessionTimerExpired, Sound, Kinds, Content, Ended, Unset, TimerArmed
(* The time left changes, and nothing else that the invariant speaks of.   *)
<1>5. ASSUME NEW d, b' = d, d \in Buffers, d.stored = c.stored, d.buf = c.buf, d.removed = c.removed,
             d.filtered = c.filtered, d.head = c.head, d.started = c.started, d.auto_seq = c.auto_seq,
             session' = session
      PROVE  Content' /\ Unset'
  <2>1. Full(d) = Full(c) /\ Full(c) = Full(b)
    BY <1>3, <1>5 DEF Full, Complete
  <2>2. Tidy(b) => Tidy(d)
    BY <1>2, <1>3, <1>5, <2>1 DEF Tidy
  <2>3. Placed(b) => Placed(d)
    BY <1>2, <1>3, <1>5 DEF Placed, Holds
  <2>4. Content'
    BY <1>3, <1>5, <2>2 DEF Sound, Content
  <2>5. Unset'
    BY <1>2, <1>3, <1>5, <2>3 DEF Sound, Unset
  <2> QED
    BY <2>4, <2>5
<1>6. CASE Tick
  <2> DEFINE age == [j \in Slots |-> IF c.age[j] > Timeout THEN c.age[j] ELSE c.age[j] + 1]
             timer == IF c.timer \in {0, Off} THEN c.timer ELSE c.timer - 1
             d == [c EXCEPT !.age = age, !.timer = timer]
  <2>1. b' = d
    BY <1>3, <1>6 DEF Tick, c, Buffers
  <2>2. age \in [Slots -> 0 .. Timeout + 1]
    <3>1. \A j \in Slots : c.age[j] \in 0 .. Timeout + 1
      BY <1>3 DEF Buffers
    <3> QED
      BY <1>1, <3>1
  <2>3. timer \in 0 .. Off /\ (timer = Off <=> c.timer = Off)
    <3>1. c.timer \in 0 .. Off
      BY <1>3 DEF Buffers
    <3> QED
      BY <1>1, <3>1
  <2> HIDE DEF age, timer
  <2>4. /\ d \in Buffers /\ d.stored = c.stored /\ d.buf = c.buf /\ d.timer = timer /\ d.removed = c.removed
        /\ d.filtered = c.filtered /\ d.head = c.head /\ d.started = c.started /\ d.auto_seq = c.auto_seq
    BY <1>3, <2>2, <2>3 DEF Buffers
  <2> HIDE DEF d
  <2>5. session' = session /\ th' = th /\ rx' = rx
    BY <1>6 DEF Tick
  <2>6. Content' /\ Unset'
    BY <1>5, <2>1, <2>4, <2>5
  <2>7. Kinds'
    BY <1>1, <1>6 DEF Tick, Kinds
  <2>8. Ended' /\ TimerArmed'
    BY <1>3, <2>1, <2>3, <2>4, <2>5 DEF Sound, Ended, TimerArmed
  <2> QED
    BY <2>6, <2>7, <2>8 DEF Sound
<1>7. CASE ReorderTimerExpired
  <2> DEFINE d == [c EXCEPT !.timer = Off]
  <2>1. Off \in 0 .. Off
    BY <1>1
  <2>2. /\ d \in Buffers /\ d.stored = c.stored /\ d.buf = c.buf /\ d.timer = Off /\ d.removed = c.removed
        /\ d.filtered = c.filtered /\ d.head = c.head /\ d.started = c.started /\ d.auto_seq = c.auto_seq
    BY <1>3, <2>1 DEF Buffers
  <2>3. /\ b' = d /\ session' = session /\ rx' = rx /\ b.timer = 0
        /\ th' = IF session = "live" THEN "found" ELSE "idle"
    BY <1>7 DEF ReorderTimerExpired, c
  <2> HIDE DEF d
  <2>4. Content' /\ Unset'
    BY <1>5, <2>2, <2>3
  <2>5. Kinds'
    BY <1>1, <1>7 DEF ReorderTimerExpired, Kinds
  <2>6. Ended' /\ TimerArmed'
    BY <1>1, <1>3, <2>2, <2>3 DEF Sound, Ended, TimerArmed
  <2> QED
    BY <2>4, <2>5, <2>6 DEF Sound
<1>8. CASE ReorderTimeout
  <2>1. session # "freed" /\ Tidy(c) /\ session' = session /\ th' = "idle" /\ b' = ReorderRelease(c)
    BY <1>2, <1>8 DEF ReorderTimeout, Sound, Ended, Content, c
  <2>2. Kinds'
    BY <1>1, <1>8 DEF ReorderTimeout, Kinds
  <2> DEFINE d == ReorderRelease(c)
  <2>3. c.head \in SNs /\ Going(c.head, 0, c.filtered, c) /\ 0 + BufSize \in SNs
    <3>1. 0 + BufSize \in SNs
      BY RxReorderAssumption DEF SNs
    <3> QED
      BY <1>3, <3>1, GoingNow DEF Buffers
  <2>4. Does(c.head, 0, c.filtered, c, d, BufSize) /\ Armed(d)
    BY <2>1, <2>3, ReorderReleaseDoes
  <2>5. b' = d
    BY <2>1
  <2> HIDE DEF d
  <2>6. Tidy(d) /\ Kept(c, d) /\ TimerGoes(c, d) /\ Fewer(c, d) /\ (Placed(c) => Placed(d))
        /\ d.filtered \subseteq c.filtered
    BY <2>4 DEF Does, Onward, Stays, Going, Marks
  <2>7. Turn(c, d)
    BY <2>6 DEF Turn, Kept
  <2> QED
    BY <2>1, <2>2, <2>4, <2>5, <2>7, TurnKeeps DEF c
<1> QED
  BY <1>4, <1>6, <1>7, <1>8 DEF Time

(* Every step keeps the invariant.                                         *)
LEMMA NextSound ==
  ASSUME WholeTurns, Sound, [Next]_vars
  PROVE  Sound'
<1>1. CASE UNCHANGED vars
  BY <1>1 DEF vars, Sound, Kinds, Content, Ended, Unset, TimerArmed
<1> QED
  BY <1>1, StartSound, StopSound, ReceiveSound, TimeSound DEF Next

(* The invariant of every run, whatever the events.                        *)
THEOREM AlwaysSound ==
  ASSUME WholeTurns
  PROVE  Spec => []Sound
<1>1. Sound /\ [Next]_vars => Sound'
  BY NextSound
<1> QED
  BY InitSound, <1>1, PTL DEF Spec

(* The record that reorder_lock protects, and the session around it, stay  *)
(* within their types: the count stays from 0 to the size of the buffer    *)
(* and sequence numbers are masked.                                        *)
THEOREM TypeCorrect ==
  ASSUME WholeTurns
  PROVE  Spec => []TypeOK
<1>1. Sound => TypeOK
  BY DEF Sound, Kinds, Content, Buffers, TypeOK
<1> QED
  BY AlwaysSound, <1>1, PTL

-----------------------------------------------------------------------------
(* What the invariant gives. *)

LEMMA CountTended ==
  ASSUME Sound
  PROVE  StoredCount /\ TimerArmed /\ ReorderTimerGone
BY DEF Sound, Content, Tidy, Full, Ended, StoredCount, TimerArmed, ReorderTimerGone

(* What the start of a session makes of a frame is in its range.           *)
LEMMA RangeTended ==
  ASSUME WholeTurns, Sound
  PROVE  NewFrameInRange
<1> SUFFICES ASSUME session = "live", NEW sn \in SNs, ~SnLess(sn, b.head)
             PROVE  sn \in Window(MakeRoom(b, sn))
  BY DEF NewFrameInRange
<1>1. Tidy(b)
  BY DEF Sound, Content
<1> DEFINE d == MakeRoom(b, sn)
<1>2. Tidy(d) /\ Dist(d.head, sn) < BufSize
  BY <1>1, MakeRoomDoes
<1> HIDE DEF d
<1>3. d.head \in SNs
  BY <1>2 DEF Tidy, Buffers
<1>4. Window(d) = {s \in SNs : Dist(d.head, s) < BufSize}
  BY <1>3, WindowIs
<1>5. sn \in Window(d)
  BY <1>2, <1>4
<1> QED
  BY <1>5 DEF d

(* Without A-MSDUs the buffer is tended.                                   *)
LEMMA FramesTended ==
  ASSUME WholeTurns, Sound, "amsdu" \notin Events
  PROVE  NoFalseDuplicate /\ NothingLeftBehind
<1>1. b \in Buffers /\ b.head \in SNs /\ Placed(b)
  BY DEF Sound, Content, Unset, Buffers
<1>2. Window(b) = {s \in SNs : Dist(b.head, s) < BufSize}
  BY <1>1, WindowIs
<1>3. ASSUME NEW sn \in Window(b), Complete(b, Slot(sn))
      PROVE  \E i \in DOMAIN b.buf[Slot(sn)] : b.buf[Slot(sn)][i].sn = sn
  <2> DEFINE j == Slot(sn)
  <2>1. sn \in SNs /\ Dist(b.head, sn) < BufSize /\ j \in Slots
    BY <1>2, AtIs, RxReorderAssumption
  <2>2. b.buf[j] # <<>>
    BY <1>3 DEF Complete
  <2>3. PICK s : Holds(b, j, s)
    BY <1>1, <2>1, <2>2 DEF Placed
  <2>4. s \in SNs /\ Slot(s) = j /\ Dist(b.head, s) < BufSize /\ b.buf[j] = <<[sn |-> s, more |-> FALSE]>>
    BY <2>3 DEF Holds
  <2>5. s = sn
    BY <1>1, <2>1, <2>4, SlotOnce
  <2>6. 1 \in DOMAIN b.buf[j] /\ b.buf[j][1].sn = s
    BY <2>4
  <2> QED
    BY <2>5, <2>6
<1>4. ASSUME NEW j \in Slots, NEW i \in DOMAIN b.buf[j]
      PROVE  b.buf[j][i].sn \in Window(b)
  <2>1. b.buf[j] # <<>>
    OBVIOUS
  <2>2. PICK s : Holds(b, j, s)
    BY <1>1, <2>1 DEF Placed
  <2>3. s \in SNs /\ Dist(b.head, s) < BufSize /\ b.buf[j] = <<[sn |-> s, more |-> FALSE]>>
    BY <2>2 DEF Holds
  <2>4. i = 1 /\ b.buf[j][i].sn = s
    BY <2>3
  <2> QED
    BY <1>2, <2>3, <2>4
<1> QED
  BY <1>3, <1>4 DEF NoFalseDuplicate, NothingLeftBehind

(* Whatever mix of frames, releases, timeouts, BARs and marks: the count   *)
(* is that of what is stored, the reorder timer is armed as long as        *)
(* something is stored and gone when the session is freed, and the window  *)
(* reaches a new frame.  Subframes of A-MSDUs are allowed for.             *)
THEOREM CountStaysTrue ==
  ASSUME WholeTurns
  PROVE  Spec => [](StoredCount /\ TimerArmed /\ ReorderTimerGone /\ NewFrameInRange)
<1>1. Sound => StoredCount /\ TimerArmed /\ ReorderTimerGone /\ NewFrameInRange
  BY CountTended, RangeTended
<1> QED
  BY AlwaysSound, <1>1, PTL

(* The buffer is tended: count, slots, window and timer go together, no    *)
(* new frame is taken for one that is stored and no slot keeps a frame     *)
(* that the window has passed, unless the driver splits A-MSDUs.           *)
THEOREM BufferStaysTended ==
  ASSUME WholeTurns, "amsdu" \notin Events
  PROVE  Spec => []BufferTended
<1>1. Sound => BufferTended
  BY CountTended, RangeTended, FramesTended DEF BufferTended
<1> QED
  BY AlwaysSound, <1>1, PTL

-----------------------------------------------------------------------------
(* The steps. *)

(* The head goes on, and what is handed up and what stays marked with it.  *)
Moves(c, d) ==
  /\ d.filtered \subseteq c.filtered
  /\ ~c.auto_seq => \E n \in SNs :
       /\ Going(c.head, n, c.filtered, d)
       /\ c.started /\ "amsdu" \notin Events => Passed(c.head, n, d.frames)

(* Every step of a live session moves the head on, and drops marks only.   *)
LEMMA StepMoves ==
  ASSUME WholeTurns, Sound, Next, session = "live", session' = "live", ~RxFiltered
  PROVE  b' = b \/ Moves(b, b')
<1> DEFINE c == Locked
<1>1. b \in Buffers /\ Tidy(b)
  BY DEF Sound, Content
<1>2. /\ Same(b, c) /\ Kept(b, c) /\ c.head = b.head /\ c.filtered = b.filtered /\ c.frames = <<>>
      /\ Tidy(c)
  BY <1>1, LockedIs
<1>3. c \in Buffers /\ c.head \in SNs /\ c.auto_seq = b.auto_seq /\ c.started = b.started /\ 0 \in SNs
  BY <1>2, RxReorderAssumption DEF Same, Kept, Buffers, SNs
<1>4. "amsdu" \notin Events => Placed(c)
  <2>1. Placed(b) => Placed(c)
    BY <1>1, <1>2, SameIs
  <2> QED
    BY <2>1 DEF Sound, Unset
<1> HIDE DEF c
<1>5. ASSUME NEW d, b' = d, Moves(c, d) PROVE Moves(b, b')
  BY <1>2, <1>3, <1>5 DEF Moves
<1>6. ASSUME NEW d, b' = d, d.head = c.head, d.filtered = c.filtered, d.frames = c.frames
      PROVE  Moves(c, d)
  <2>1. Going(c.head, 0, c.filtered, c)
    BY <1>3, GoingNow
  <2>2. Going(c.head, 0, c.filtered, d)
    BY <1>6, <2>1 DEF Going, Marks
  <2>3. Passed(c.head, 0, d.frames)
    BY <1>2, <1>6 DEF Passed
  <2> QED
    BY <1>3, <1>6, <2>2, <2>3 DEF Moves
<1>7. CASE RxFrame
  <2>1. PICK f \in Frames :
          /\ f.more => "amsdu" \in Events
          /\ b' = ReceiveFrame(c, f)
    BY <1>7 DEF RxFrame, c
  <2> DEFINE d == ReceiveFrame(c, f)
  <2>2. c.auto_seq => \A j \in Slots : c.buf[j] = <<>>
    BY <1>2 DEF Sound, Unset, Kept, Same
  <2>3. /\ d.filtered \subseteq c.filtered
        /\ ~c.auto_seq => \E n \in SNs :
             /\ Going(c.head, n, c.filtered, d)
             /\ c.started /\ ~f.more /\ Placed(c) => Passed(c.head, n, d.frames)
    BY <1>2, <2>2, ReceiveDoes
  <2>4. b' = d
    BY <2>1
  <2> HIDE DEF d
  <2>5. Moves(c, d)
    BY <1>4, <2>1, <2>3 DEF Moves
  <2> QED
    BY <1>5, <2>4, <2>5
<1>8. CASE RxBar
  <2>1. PICK ssn \in SNs : b' = ReleaseFrames(c, ssn)
    BY <1>8 DEF RxBar, c
  <2> DEFINE d == ReleaseFrames(c, ssn)
  <2>2. \E n \in SNs : Going(c.head, n, c.filtered, d) /\ (Placed(c) => Passed(c.head, n, d.frames))
    BY <1>2, BarDoes
  <2>3. b' = d
    BY <2>1
  <2> HIDE DEF d
  <2>4. d.filtered \subseteq c.filtered
    BY <2>2 DEF Going, Marks
  <2>5. Moves(c, d)
    BY <1>4, <2>2, <2>4 DEF Moves
  <2> QED
    BY <1>5, <2>3, <2>5
<1>9. CASE ReorderTimeout
  <2> DEFINE d == ReorderRelease(c)
  <2>1. Going(c.head, 0, c.filtered, c) /\ 0 + BufSize \in SNs
    <3>1. 0 + BufSize \in SNs
      BY RxReorderAssumption DEF SNs
    <3> QED
      BY <1>3, <3>1, GoingNow
  <2>2. Does(c.head, 0, c.filtered, c, d, BufSize)
    BY <1>2, <1>3, <2>1, ReorderReleaseDoes
  <2>3. b' = d
    BY <1>9 DEF ReorderTimeout, c
  <2> HIDE DEF d
  <2>4. PICK x \in 0 .. BufSize : Going(c.head, 0 + x, c.filtered, d) /\ Stays(c.head, 0, c, 0 + x, d)
    BY <2>2 DEF Does, Onward
  <2>5. 0 + x \in SNs
    BY <2>4 DEF Going
  <2>6. Passed(c.head, 0, c.frames)
    BY <1>2 DEF Passed
  <2>7. Placed(c) => Passed(c.head, 0 + x, d.frames)
    BY <2>4, <2>6 DEF Stays, Whole
  <2>8. d.filtered \subseteq c.filtered
    BY <2>4 DEF Going, Marks
  <2>9. Moves(c, d)
    BY <1>4, <2>4, <2>5, <2>7, <2>8 DEF Moves
  <2> QED
    BY <1>5, <2>3, <2>9
<1>10. CASE Tick
  <2>1. b'.head = c.head /\ b'.filtered = c.filtered /\ b'.frames = c.frames
    BY <1>3, <1>10 DEF Tick, c, Buffers
  <2> QED
    BY <1>5, <1>6, <2>1
<1>11. CASE ReorderTimerExpired
  <2>1. b'.head = c.head /\ b'.filtered = c.filtered /\ b'.frames = c.frames
    BY <1>3, <1>11 DEF ReorderTimerExpired, c, Buffers
  <2> QED
    BY <1>5, <1>6, <2>1
<1>12. CASE FindSession \/ RxBarTimer \/ SessionTimerExpired
  BY <1>12 DEF FindSession, RxBarTimer, SessionTimerExpired
<1>13. ~StartRxBaSession
  BY DEF StartRxBaSession
<1>14. ~Stop
  BY DEF Stop, StopRxBaSession, StopSessionTimer, StopMarkRemoved, StopReorderTimer, FreeTidRx
<1> QED
  BY <1>7, <1>8, <1>9, <1>10, <1>11, <1>12, <1>13, <1>14 DEF Next, Receive, Time

(* Frames that have been passed, seen from the heads before and after.     *)
LEMMA PassedInOrder ==
  ASSUME NEW h \in SNs, NEW n \in SNs, NEW out, Passed(h, n, out)
  PROVE  /\ \A i \in DOMAIN out : Dist(h, out[i].sn) < Dist(h, Plus(h, n))
         /\ \A i, k \in DOMAIN out : i < k => Dist(h, out[i].sn) < Dist(h, out[k].sn)
BY DistPlus DEF Passed

(* Frames reach the stack in order and once: each call hands over frames   *)
(* in rising order of sequence number, and all of them are passed by the   *)
(* head, which never moves back, unless the driver splits A-MSDUs.         *)
THEOREM FramesInOrder ==
  ASSUME WholeTurns, "amsdu" \notin Events
  PROVE  Spec => InOrder
<1> DEFINE out == b'.frames
           Ordered ==
             session = "live" /\ session' = "live" /\ b.started /\ b'.started /\ ~RxFiltered =>
               /\ \A i \in DOMAIN out :
                    \/ Dist(b.head, out[i].sn) < Dist(b.head, b'.head)
                    \/ out[i].more /\ out[i].sn = b.head
               /\ \A i, k \in DOMAIN out : i < k =>
                    \/ Dist(b.head, out[i].sn) < Dist(b.head, out[k].sn)
                    \/ out[i].more /\ out[i].sn = out[k].sn
<1>1. ASSUME Sound, [Next]_vars PROVE [Ordered]_b
  <2>1. CASE UNCHANGED vars
    BY <2>1 DEF vars
  <2>2. CASE Next
    <3> SUFFICES ASSUME b' # b, session = "live", session' = "live", b.started, ~RxFiltered
                 PROVE  /\ \A i \in DOMAIN out : Dist(b.head, out[i].sn) < Dist(b.head, b'.head)
                        /\ \A i, k \in DOMAIN out : i < k =>
                             Dist(b.head, out[i].sn) < Dist(b.head, out[k].sn)
      OBVIOUS
    <3>1. Moves(b, b')
      BY <1>1, <2>2, StepMoves
    <3>2. ~b.auto_seq /\ b.head \in SNs
      BY <1>1 DEF Sound, Content, Unset, Buffers
    <3>3. PICK n \in SNs : Going(b.head, n, b.filtered, b') /\ Passed(b.head, n, out)
      BY <3>1, <3>2 DEF Moves
    <3>4. b'.head = Plus(b.head, n)
      BY <3>3 DEF Going
    <3> HIDE DEF out
    <3> QED
      BY <3>2, <3>3, <3>4, PassedInOrder
  <2> QED
    BY <1>1, <2>1, <2>2
<1>2. Spec => [][Ordered]_b
  <2> HIDE DEF Ordered
  <2> QED
    BY AlwaysSound, <1>1, PTL DEF Spec
<1> QED
  BY <1>2 DEF InOrder

(* The number in a slot of the window. *)
LEMMA NumberIs ==
  ASSUME WholeTurns, NEW c, c.head \in SNs, NEW s \in SNs, Dist(c.head, s) < BufSize
  PROVE  NumberIn(c, Slot(s)) = s
<1>1. Window(c) = {t \in SNs : Dist(c.head, t) < BufSize}
  BY WindowIs
<1>2. \A t \in Window(c) : Slot(t) = Slot(s) => t = s
  BY <1>1, SlotOnce
<1>3. s \in Window(c)
  BY <1>1
<1> QED
  BY <1>2, <1>3 DEF NumberIn

(* A mark that stays is for the number it was for.                         *)
LEMMA NumberStays ==
  ASSUME WholeTurns, NEW c, c.head \in SNs, NEW d, NEW n, Going(c.head, n, c.filtered, d),
         NEW j \in d.filtered
  PROVE  j \in c.filtered /\ NumberIn(d, j) = NumberIn(c, j)
<1>1. n \in SNs /\ d.head = Plus(c.head, n) /\ j \in c.filtered /\ Ahead(c.head, j, n)
  BY DEF Going, Marks
<1>2. PICK i \in 0 .. BufSize - 1 : j = At(c.head, i) /\ n <= i
  BY <1>1 DEF Ahead
<1> DEFINE s == Plus(c.head, i)
<1>3. i \in SNs /\ i \in 0 .. BufSize /\ i < BufSize /\ n \in Nat /\ i \in Nat /\ BufSize \in Nat
  BY <1>1, RxReorderAssumption DEF SNs
<1>4. s \in SNs /\ Dist(c.head, s) = i /\ Slot(s) = j
  BY <1>2, <1>3, PlusIn, DistPlus, SlotPlus
<1> HIDE DEF s
<1>5. NumberIn(c, j) = s
  BY <1>3, <1>4, NumberIs
<1>6. Dist(d.head, s) = i - n
  BY <1>1, <1>2, <1>4, DistFrom
<1>7. Dist(d.head, s) < BufSize /\ d.head \in SNs
  <2>1. d.head \in SNs
    BY <1>1, <1>3, PlusIn
  <2> QED
    BY <1>2, <1>3, <1>6, <2>1
<1>8. NumberIn(d, j) = s
  BY <1>4, <1>7, NumberIs
<1> QED
  BY <1>1, <1>5, <1>8

(* A mark left by the firmware stays with its number until it is cleared   *)
(* or written anew.  (A session that has yet to take its number from the   *)
(* first frame gives the marks it has other numbers.)                      *)
THEOREM MarksStayCurrent ==
  ASSUME WholeTurns, "auto_seq" \notin Events \/ "filter" \notin Events
  PROVE  Spec => MarksAreCurrent
<1> DEFINE Current ==
             session = "live" /\ session' = "live" =>
               \/ \A j \in b'.filtered : j \in b.filtered /\ NumberIn(b', j) = NumberIn(b, j)
               \/ RxFiltered
<1>1. ASSUME Sound, [Next]_vars PROVE [Current]_b
  <2>1. CASE UNCHANGED vars
    BY <2>1 DEF vars
  <2>2. CASE Next
    <3> SUFFICES ASSUME b' # b, session = "live", session' = "live", ~RxFiltered, NEW j \in b'.filtered
                 PROVE  j \in b.filtered /\ NumberIn(b', j) = NumberIn(b, j)
      OBVIOUS
    <3>1. Moves(b, b')
      BY <1>1, <2>2, StepMoves
    <3>2. ~b.auto_seq
      <4>1. j \in b.filtered
        BY <3>1 DEF Moves
      <4> QED
        BY <1>1, <4>1 DEF Sound, Unset
    <3>3. PICK n \in SNs : Going(b.head, n, b.filtered, b')
      BY <3>1, <3>2 DEF Moves
    <3>4. b.head \in SNs
      BY <1>1 DEF Sound, Content, Buffers
    <3> QED
      BY <3>3, <3>4, NumberStays
  <2> QED
    BY <1>1, <2>1, <2>2
<1>2. Spec => [][Current]_b
  <2> HIDE DEF Current
  <2> QED
    BY AlwaysSound, <1>1, PTL DEF Spec
<1> QED
  BY <1>2 DEF MarksAreCurrent
=============================================================================
