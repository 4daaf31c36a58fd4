-------------------------- MODULE OffChannel_proofs --------------------------
(***************************************************************************)
(* What TLAPS proves of OffChannel, for any number of interfaces, channels,*)
(* scan requests and ROCs, and for every kind of driver.                   *)
(***************************************************************************)
EXTENDS OffChannel, Induction

-----------------------------------------------------------------------------
(* Lists. *)

(* No entry is twice on a list: list_add() of one that is on it already    *)
(* would corrupt it.                                                       *)
NoDup(s) == \A a, b \in 1 .. Len(s) : a < b => s[a] # s[b]

(* What comes before a member of a set is in it too. *)
Prefix(s, some) == \A a, b \in 1 .. Len(s) : a < b /\ s[b] \in some => s[a] \in some

(* The first n entries of a list without those in a set. *)
IsKept(k, s, gone) ==
  k = [n \in 0 .. Len(s) |->
         IF n = 0 THEN <<>>
         ELSE IF s[n] \in gone THEN k[n - 1] ELSE Append(k[n - 1], s[n])]

LEMMA KeptExists ==
  ASSUME NEW S, NEW s \in Seq(S), NEW gone
  PROVE  \E k : IsKept(k, s, gone)
<1> DEFINE more(n, x) == IF n \in 1 .. Len(s) /\ s[n] \notin gone THEN Append(x, s[n]) ELSE x
           F == [n \in Nat |-> [x \in Seq(S) |-> more(n, x)]]
<1>1. \A n \in Nat : \A x \in Seq(S) : more(n, x) \in Seq(S)
  OBVIOUS
<1>2. F \in [Nat -> [Seq(S) -> Seq(S)]]
  BY <1>1
<1>3. \A n \in Nat : \A x \in Seq(S) : F[n][x] = more(n, x)
  OBVIOUS
<1> HIDE DEF F
<1>4. <<>> \in Seq(S) /\ Len(s) \in Nat
  OBVIOUS
<1>5. PICK k : GoesOn(k, Seq(S), F, <<>>, Len(s))
  BY <1>2, <1>4, Recursion
<1>6. k \in [0 .. Len(s) -> Seq(S)] /\ k[0] = <<>>
  BY <1>5 DEF GoesOn
<1>7. ASSUME NEW n \in 1 .. Len(s)
      PROVE  k[n] = IF s[n] \in gone THEN k[n - 1] ELSE Append(k[n - 1], s[n])
  <2>1. n \in Nat /\ n - 1 \in 0 .. Len(s)
    BY <1>4
  <2>2. k[n - 1] \in Seq(S)
    BY <1>6, <2>1
  <2>3. k[n] = F[n][k[n - 1]]
    BY <1>5 DEF GoesOn
  <2>4. F[n][k[n - 1]] = more(n, k[n - 1])
    BY <1>3, <2>1, <2>2, Zenon
  <2> QED
    BY <2>3, <2>4
<1>8. k = [n \in 0 .. Len(s) |-> k[n]]
  BY <1>6
<1>9. \A n \in 0 .. Len(s) : k[n] = IF n = 0 THEN <<>>
         ELSE IF s[n] \in gone THEN k[n - 1] ELSE Append(k[n - 1], s[n])
  <2>1. \A n \in 0 .. Len(s) : n = 0 \/ n \in 1 .. Len(s)
    BY <1>4
  <2> QED
    BY <1>6, <1>7, <2>1
<1> QED
  BY <1>8, <1>9, Zenon DEF IsKept

LEMMA WithoutKept ==
  ASSUME NEW S, NEW s \in Seq(S), NEW gone
  PROVE  \E k : IsKept(k, s, gone) /\ Without(s, gone) = k[Len(s)]
<1> DEFINE k == CHOOSE k : IsKept(k, s, gone)
<1>1. IsKept(k, s, gone)
  BY KeptExists
<1>2. Without(s, gone) = k[Len(s)]
  BY DEF Without, IsKept
<1> QED
  BY <1>1, <1>2

(* An entry is left if it is not taken out, and two that are left are in   *)
(* the order they were in.                                                 *)
LEMMA WithoutIs ==
  ASSUME NEW S, NEW s \in Seq(S), NEW gone
  PROVE  /\ Without(s, gone) \in Seq(S)
         /\ \A e : Contains(Without(s, gone), e) <=> Contains(s, e) /\ e \notin gone
         /\ \A a, b \in 1 .. Len(Without(s, gone)) :
              a < b => \E c, d \in 1 .. Len(s) :
                         c < d /\ Without(s, gone)[a] = s[c] /\ Without(s, gone)[b] = s[d]
<1>1. PICK k : IsKept(k, s, gone) /\ Without(s, gone) = k[Len(s)]
  BY WithoutKept
<1>2. Len(s) \in Nat
  OBVIOUS
<1>3. k[0] = <<>>
  BY <1>1, <1>2 DEF IsKept
<1>4. \A n \in 1 .. Len(s) :
         k[n] = IF s[n] \in gone THEN k[n - 1] ELSE Append(k[n - 1], s[n])
  <2> SUFFICES ASSUME NEW n \in 1 .. Len(s)
               PROVE  k[n] = IF s[n] \in gone THEN k[n - 1] ELSE Append(k[n - 1], s[n])
    OBVIOUS
  <2>1. n \in 0 .. Len(s) /\ n # 0
    BY <1>2
  <2> QED
    BY <1>1, <2>1, Zenon DEF IsKept
<1> DEFINE Members(n) == \A e : Contains(k[n], e) <=> (\E c \in 1 .. n : s[c] = e) /\ e \notin gone
           Places(n)  == \A a \in 1 .. Len(k[n]) : \E c \in 1 .. n : k[n][a] = s[c]
           InOrder(n) == \A a, b \in 1 .. Len(k[n]) :
                           a < b => \E c, d \in 1 .. n : c < d /\ k[n][a] = s[c] /\ k[n][b] = s[d]
           G == {n \in 0 .. Len(s) : k[n] \in Seq(S) /\ Members(n) /\ Places(n) /\ InOrder(n)}
<1>5. 0 \in G
  <2>1. 1 .. 0 = {} /\ Len(k[0]) = 0 /\ k[0] \in Seq(S)
    BY <1>3
  <2>2. Members(0) /\ Places(0) /\ InOrder(0)
    BY <2>1, Zenon DEF Contains
  <2> QED
    BY <1>2, <2>1, <2>2
<1>6. ASSUME NEW n \in 1 .. Len(s), n - 1 \in G PROVE n \in G
  <2>1. k[n - 1] \in Seq(S) /\ Members(n - 1) /\ Places(n - 1) /\ InOrder(n - 1)
    BY <1>6
  <2>2. n \in 0 .. Len(s) /\ s[n] \in S /\ n \in Nat /\ n \in 1 .. n /\ \A c \in 1 .. n - 1 : c \in 1 .. n /\ c < n
    BY <1>2
  <2>3. \A c \in 1 .. n : c = n \/ c \in 1 .. n - 1
    BY <2>2
  <2>4. CASE s[n] \in gone
    <3>1. k[n] = k[n - 1]
      BY <1>4, <2>4
    <3>2. Members(n)
      BY <2>1, <2>2, <2>3, <2>4, <3>1, Zenon
    <3>3. Places(n)
      <4>1. \A a \in 1 .. Len(k[n]) : \E c \in 1 .. n - 1 : k[n][a] = s[c]
        BY <2>1, <3>1
      <4> QED
        BY <2>2, <4>1, Zenon
    <3>4. InOrder(n)
      <4> SUFFICES ASSUME NEW a \in 1 .. Len(k[n]), NEW b \in 1 .. Len(k[n]), a < b
                   PROVE  \E c, d \in 1 .. n : c < d /\ k[n][a] = s[c] /\ k[n][b] = s[d]
        OBVIOUS
      <4>1. /\ a \in 1 .. Len(k[n - 1]) /\ b \in 1 .. Len(k[n - 1])
            /\ k[n][a] = k[n - 1][a] /\ k[n][b] = k[n - 1][b]
        BY <3>1
      <4>2. PICK c \in 1 .. n - 1, d \in 1 .. n - 1 :
              c < d /\ k[n - 1][a] = s[c] /\ k[n - 1][b] = s[d]
        BY <2>1, <4>1, Zenon
      <4>3. c \in 1 .. n /\ d \in 1 .. n
        BY <2>2
      <4> QED
        BY <4>1, <4>2, <4>3, Zenon
    <3> QED
      BY <2>1, <2>2, <3>1, <3>2, <3>3, <3>4
  <2>5. CASE s[n] \notin gone
    <3>1. k[n] = Append(k[n - 1], s[n])
      BY <1>4, <2>5
    <3> DEFINE q == k[n - 1]
               len == Len(q)
    <3>2. q \in Seq(S) /\ len \in Nat
      BY <2>1
    <3>3. /\ k[n] \in Seq(S) /\ Len(k[n]) = len + 1 /\ k[n][len + 1] = s[n]
          /\ \A a \in 1 .. len : k[n][a] = q[a]
      BY <3>1, <3>2, <2>2
    <3>4. \A a \in 1 .. Len(k[n]) : a = len + 1 \/ a \in 1 .. len
      BY <3>2, <3>3
    <3>5. \A a \in 1 .. len : a \in 1 .. Len(k[n]) /\ ~(len + 1 < a)
      BY <3>2, <3>3
    <3>6. len + 1 \in 1 .. Len(k[n]) /\ ~(len + 1 < len + 1)
      BY <3>2, <3>3
    <3> HIDE DEF len
    <3>7. Members(n)
      <4>1. \A e : Contains(k[n], e) <=> Contains(q, e) \/ e = s[n]
        BY <3>3, <3>4, <3>5, <3>6, Zenon DEF Contains, len
      <4> QED
        BY <4>1, <2>1, <2>2, <2>3, <2>5, Zenon
    <3>8. Places(n)
      BY <2>1, <2>2, <3>3, <3>4, SMTT(40) DEF len
    <3>9. InOrder(n)
      <4> SUFFICES ASSUME NEW a \in 1 .. Len(k[n]), NEW b \in 1 .. Len(k[n]), a < b
                   PROVE  \E c, d \in 1 .. n : c < d /\ k[n][a] = s[c] /\ k[n][b] = s[d]
        OBVIOUS
      <4>1. a \in 1 .. len
        BY <3>2, <3>3
      <4>2. PICK c \in 1 .. n - 1 : k[n][a] = s[c]
        BY <2>1, <3>3, <4>1 DEF len
      <4>3. CASE b \in 1 .. len
        BY <2>1, <2>2, <3>3, <4>1, <4>3 DEF len
      <4>4. CASE b = len + 1
        BY <2>2, <3>3, <4>2, <4>4, Zenon
      <4> QED
        BY <3>4, <4>3, <4>4
    <3> QED
      BY <2>2, <3>3, <3>7, <3>8, <3>9, Zenon
  <2> QED
    BY <2>4, <2>5
<1> HIDE DEF G
<1>7. \A n \in 0 .. Len(s) : n \in G
  BY <1>2, <1>5, <1>6, SetInductionUpTo
<1>8. Len(s) \in 0 .. Len(s)
  BY <1>2
<1>9. k[Len(s)] \in Seq(S) /\ Members(Len(s)) /\ InOrder(Len(s))
  BY <1>7, <1>8 DEF G
<1> HIDE DEF Members, InOrder
<1>10. Without(s, gone) = k[Len(s)] /\ Members(Len(s)) /\ InOrder(Len(s)) /\ k[Len(s)] \in Seq(S)
  BY <1>1, <1>9
<1> QED
  BY <1>10 DEF Contains, Members, InOrder

(* No hw_roc_start is queued behind an hw_roc_done. *)
StartFirstThenDone(s) ==
  \A a, b \in 1 .. Len(s) : a < b => ~(s[a] = "hw_roc_done" /\ s[b] = "hw_roc_start")


LEMMA WithoutKeeps ==
  ASSUME NEW S, NEW s \in Seq(S), NEW gone
  PROVE  /\ NoDup(s) => NoDup(Without(s, gone))
         /\ StartFirstThenDone(s) => StartFirstThenDone(Without(s, gone))
         /\ \A some : Prefix(s, some) => Prefix(Without(s, gone), some \ gone)
<1>1. \A a, b \in 1 .. Len(Without(s, gone)) :
         a < b => \E c, d \in 1 .. Len(s) :
                    c < d /\ Without(s, gone)[a] = s[c] /\ Without(s, gone)[b] = s[d]
  BY WithoutIs
<1>2. \A a \in 1 .. Len(Without(s, gone)) : Without(s, gone)[a] \notin gone
  <2>1. \A a \in 1 .. Len(Without(s, gone)) : Contains(Without(s, gone), Without(s, gone)[a])
    BY DEF Contains
  <2> QED
    BY <2>1, WithoutIs
<1>3. NoDup(s) => NoDup(Without(s, gone))
  BY <1>1 DEF NoDup
<1>4. StartFirstThenDone(s) => StartFirstThenDone(Without(s, gone))
  BY <1>1 DEF StartFirstThenDone
<1>5. ASSUME NEW some, Prefix(s, some) PROVE Prefix(Without(s, gone), some \ gone)
  BY <1>1, <1>2, <1>5 DEF Prefix
<1> QED
  BY <1>3, <1>4, <1>5

LEMMA AppendIs ==
  ASSUME NEW S, NEW s \in Seq(S), NEW e \in S
  PROVE  /\ Append(s, e) \in Seq(S)
         /\ \A v : Contains(Append(s, e), v) <=> Contains(s, v) \/ v = e
         /\ NoDup(s) /\ ~Contains(s, e) => NoDup(Append(s, e))
         /\ StartFirstThenDone(s) /\ (e = "hw_roc_start" => ~Contains(s, "hw_roc_done"))
              => StartFirstThenDone(Append(s, e))
         /\ \A some : Prefix(s, some) /\ e \notin some => Prefix(Append(s, e), some)
<1> DEFINE q   == Append(s, e)
           len == Len(s)
<1>1. /\ q \in Seq(S) /\ len \in Nat /\ Len(q) = len + 1 /\ q[len + 1] = e
      /\ \A a \in 1 .. len : q[a] = s[a]
  OBVIOUS
<1>2. /\ \A a \in 1 .. Len(q) : a = len + 1 \/ a \in 1 .. len
      /\ \A a \in 1 .. len : a \in 1 .. Len(q)
      /\ len + 1 \in 1 .. Len(q)
      /\ \A a, b \in 1 .. Len(q) : a < b => a \in 1 .. len
  BY <1>1
<1> HIDE DEF q
<1>3. \A v : Contains(q, v) <=> Contains(s, v) \/ v = e
  BY <1>1, <1>2 DEF Contains
<1>4. NoDup(s) /\ ~Contains(s, e) => NoDup(q)
  BY <1>1, <1>2 DEF NoDup, Contains
<1>5. StartFirstThenDone(s) /\ (e = "hw_roc_start" => ~Contains(s, "hw_roc_done"))
         => StartFirstThenDone(q)
  BY <1>1, <1>2 DEF StartFirstThenDone, Contains
<1>6. \A some : Prefix(s, some) /\ e \notin some => Prefix(q, some)
  BY <1>1, <1>2 DEF Prefix
<1> QED
  BY <1>1, <1>3, <1>4, <1>5, <1>6 DEF q

LEMMA TailIs ==
  ASSUME NEW S, NEW s \in Seq(S), s # <<>>, NoDup(s)
  PROVE  /\ Tail(s) \in Seq(S) /\ Head(s) \in S /\ Contains(s, Head(s))
         /\ \A v : Contains(Tail(s), v) <=> Contains(s, v) /\ v # Head(s)
         /\ NoDup(Tail(s))
         /\ StartFirstThenDone(s) => StartFirstThenDone(Tail(s))
         /\ StartFirstThenDone(s) /\ Head(s) = "hw_roc_done" => ~Contains(s, "hw_roc_start")
<1> DEFINE q   == Tail(s)
           len == Len(s)
<1>1. /\ q \in Seq(S) /\ len \in Nat \ {0} /\ Len(q) = len - 1 /\ Head(s) = s[1] /\ s[1] \in S
      /\ \A a \in 1 .. Len(q) : q[a] = s[a + 1]
  OBVIOUS
<1>2. /\ \A a \in 1 .. Len(q) : a + 1 \in 1 .. len /\ 1 < a + 1
      /\ \A a, b \in 1 .. Len(q) : a < b => a + 1 < b + 1
      /\ \A a \in 1 .. len : a = 1 \/ (a - 1 \in 1 .. Len(q) /\ (a - 1) + 1 = a /\ 1 < a)
      /\ 1 \in 1 .. len
  BY <1>1
<1> HIDE DEF q, len
<1>3. ASSUME NEW v PROVE Contains(q, v) <=> Contains(s, v) /\ v # s[1]
  <2>1. Contains(q, v) => Contains(s, v) /\ v # s[1]
    BY <1>1, <1>2 DEF Contains, NoDup, len
  <2>2. ASSUME Contains(s, v), v # s[1] PROVE Contains(q, v)
    <3>1. PICK a \in 1 .. len : s[a] = v
      BY <2>2 DEF Contains, len
    <3>2. a - 1 \in 1 .. Len(q) /\ (a - 1) + 1 = a
      BY <1>2, <2>2, <3>1
    <3> QED
      BY <1>1, <3>1, <3>2 DEF Contains
  <2> QED
    BY <2>1, <2>2
<1>4. NoDup(q)
  BY <1>1, <1>2 DEF NoDup, len
<1>5. StartFirstThenDone(s) => StartFirstThenDone(q)
  BY <1>1, <1>2 DEF StartFirstThenDone, len
<1>6. StartFirstThenDone(s) /\ Head(s) = "hw_roc_done" => ~Contains(s, "hw_roc_start")
  BY <1>1, <1>2 DEF StartFirstThenDone, Contains, len
<1>7. Contains(s, Head(s))
  BY <1>1, <1>2 DEF Contains, len
<1> QED
  BY <1>1, <1>3, <1>4, <1>5, <1>6, <1>7 DEF q

LEMMA ConcatIs ==
  ASSUME NEW S, NEW s \in Seq(S), NEW t \in Seq(S)
  PROVE  /\ s \o t \in Seq(S) /\ Len(s \o t) = Len(s) + Len(t)
         /\ \A a \in 1 .. Len(s) : (s \o t)[a] = s[a]
         /\ \A a \in 1 .. Len(t) : (s \o t)[Len(s) + a] = t[a]
  OBVIOUS

(* An entry is added behind the one at position n. *)
LEMMA InsertIs ==
  ASSUME NEW S, NEW s \in Seq(S), NEW n \in 1 .. Len(s), NEW e \in S
  PROVE  LET q == InsertAt(s, n + 1, e)
         IN  /\ q \in Seq(S)
             /\ \A v : Contains(q, v) <=> Contains(s, v) \/ v = e
             /\ NoDup(s) /\ ~Contains(s, e) => NoDup(q)
             /\ \A some : Prefix(s, some) /\ s[n] \notin some /\ e \notin some => Prefix(q, some)
             /\ \A some : Prefix(s, some) /\ s[n] \in some /\ ~Contains(s, e)
                  => Prefix(q, some \cup {e})
<1> DEFINE q   == InsertAt(s, n + 1, e)
           len == Len(s)
           old(a) == IF a <= n THEN a ELSE a - 1
<1>1. /\ q \in Seq(S) /\ len \in Nat /\ Len(q) = len + 1 /\ q[n + 1] = e
      /\ \A a \in 1 .. len + 1 : a # n + 1 => q[a] = s[old(a)]
  <2>1. q = SubSeq(s, 1, n) \o <<e>> \o SubSeq(s, n + 1, len)
    <3>1. (n + 1) - 1 = n
      OBVIOUS
    <3> QED
      BY <3>1 DEF InsertAt
  <2> DEFINE front == SubSeq(s, 1, n)
             back  == SubSeq(s, n + 1, len)
  <2>2. len \in Nat /\ n \in Nat /\ n <= len
    OBVIOUS
  <2>3. front \in Seq(S) /\ Len(front) = n /\ \A a \in 1 .. n : front[a] = s[a]
    BY <2>2
  <2>4. back \in Seq(S) /\ Len(back) = len - n /\ \A a \in 1 .. len - n : back[a] = s[n + a]
    BY <2>2
  <2> HIDE DEF front, back
  <2>5. q = (front \o <<e>>) \o back
    BY <2>1 DEF front, back
  <2> HIDE DEF q, len
  <2>6. front \o <<e>> \in Seq(S) /\ Len(front \o <<e>>) = n + 1 /\ (front \o <<e>>)[n + 1] = e
        /\ \A a \in 1 .. n : (front \o <<e>>)[a] = s[a]
    BY <2>2, <2>3
  <2> DEFINE start == front \o <<e>>
  <2> HIDE DEF start
  <2>21. start \in Seq(S) /\ Len(start) = n + 1 /\ q = start \o back
    BY <2>5, <2>6 DEF start
  <2>22. /\ q \in Seq(S) /\ Len(q) = (n + 1) + (len - n)
         /\ \A a \in 1 .. n + 1 : q[a] = start[a]
         /\ \A a \in 1 .. len - n : q[(n + 1) + a] = back[a]
    <3>1. back \in Seq(S) /\ Len(back) = len - n
      BY <2>4
    <3>2. /\ start \o back \in Seq(S) /\ Len(start \o back) = Len(start) + Len(back)
          /\ \A a \in 1 .. Len(start) : (start \o back)[a] = start[a]
          /\ \A a \in 1 .. Len(back) : (start \o back)[Len(start) + a] = back[a]
      <4>1. start \in Seq(S)
        BY <2>21
      <4>2. back \in Seq(S)
        BY <3>1
      <4>3. start \o back \in Seq(S)
        BY <4>1, <4>2, ConcatIs
      <4>4. Len(start \o back) = Len(start) + Len(back)
        BY <4>1, <4>2, ConcatIs
      <4>5. \A a \in 1 .. Len(start) : (start \o back)[a] = start[a]
        BY <4>1, <4>2, ConcatIs
      <4>6. \A a \in 1 .. Len(back) : (start \o back)[Len(start) + a] = back[a]
        BY <4>1, <4>2, ConcatIs
      <4> QED
        BY <4>3, <4>4, <4>5, <4>6
    <3> QED
      BY <2>21, <3>1, <3>2
  <2>7. q \in Seq(S) /\ Len(q) = len + 1 /\ q[n + 1] = e /\ (\A a \in 1 .. n : q[a] = s[a])
    BY <2>2, <2>6, <2>22 DEF start
  <2>8. ASSUME NEW a \in n + 2 .. len + 1 PROVE q[a] = s[a - 1]
    <3>1. a - (n + 1) \in 1 .. len - n /\ n + (a - (n + 1)) = a - 1
      BY <2>2
    <3>2. q[(n + 1) + (a - (n + 1))] = back[a - (n + 1)] /\ (n + 1) + (a - (n + 1)) = a
      BY <2>2, <2>22, <3>1
    <3> QED
      BY <2>4, <3>1, <3>2
  <2>9. \A a \in 1 .. len + 1 : a # n + 1 => (a <= n /\ a \in 1 .. n) \/ (~(a <= n) /\ a \in n + 2 .. len + 1)
    BY <2>2
  <2> QED
    BY <2>2, <2>7, <2>8, <2>9
<1>2. /\ \A a \in 1 .. Len(q) : a # n + 1 => old(a) \in 1 .. len
      /\ \A a, b \in 1 .. Len(q) : a # n + 1 /\ b # n + 1 /\ a < b => old(a) < old(b)
      /\ \A b \in 1 .. Len(q) : n + 1 < b => n < old(b)
      /\ \A a \in 1 .. Len(q) : a < n + 1 => a = n \/ old(a) < n
      /\ n + 1 \in 1 .. Len(q) /\ old(n) = n
      /\ \A a \in 1 .. len : a <= n \/ a + 1 > n + 1
      /\ \A a \in 1 .. len : a <= n => a \in 1 .. Len(q) /\ a # n + 1 /\ old(a) = a
      /\ \A a \in 1 .. len : a > n => a + 1 \in 1 .. Len(q) /\ a + 1 # n + 1 /\ old(a + 1) = a
  BY <1>1
<1> HIDE DEF q, old
<1>3. \A a \in 1 .. Len(q) : q[a] = e \/ \E c \in 1 .. len : q[a] = s[c]
  BY <1>1, <1>2
<1>4. ASSUME NEW c \in 1 .. len PROVE \E a \in 1 .. Len(q) : q[a] = s[c]
  <2>1. CASE c <= n
    BY <1>1, <1>2, <2>1
  <2>2. CASE c > n
    BY <1>1, <1>2, <2>2
  <2> QED
    BY <2>1, <2>2
<1>5. \A v : Contains(q, v) <=> Contains(s, v) \/ v = e
  <2>1. \A v : Contains(q, v) => Contains(s, v) \/ v = e
    BY <1>3, Zenon DEF Contains
  <2>2. \A v : Contains(s, v) => Contains(q, v)
    BY <1>4, Zenon DEF Contains
  <2>3. Contains(q, e)
    BY <1>1, <1>2, Zenon DEF Contains
  <2> QED
    BY <2>1, <2>2, <2>3, Zenon
<1>6. NoDup(s) /\ ~Contains(s, e) => NoDup(q)
  <2> SUFFICES ASSUME NoDup(s), ~Contains(s, e),
                      NEW a \in 1 .. Len(q), NEW b \in 1 .. Len(q), a < b
               PROVE  q[a] # q[b]
    BY DEF NoDup
  <2>1. CASE a = n + 1
    BY <1>1, <1>2, <2>1 DEF Contains
  <2>2. CASE b = n + 1
    BY <1>1, <1>2, <2>2 DEF Contains
  <2>3. CASE a # n + 1 /\ b # n + 1
    BY <1>1, <1>2, <2>3, SMTT(30) DEF NoDup
  <2> QED
    BY <2>1, <2>2, <2>3
<1>7. ASSUME NEW some, Prefix(s, some), s[n] \notin some, e \notin some PROVE Prefix(q, some)
  <2> SUFFICES ASSUME NEW a \in 1 .. Len(q), NEW b \in 1 .. Len(q), a < b, q[b] \in some
               PROVE  q[a] \in some
    BY DEF Prefix
  <2>1. b # n + 1 /\ q[b] = s[old(b)] /\ old(b) \in 1 .. len
    BY <1>1, <1>2, <1>7
  <2>2. ~(n < old(b))
    BY <1>7, <2>1 DEF Prefix
  <2>3. a # n + 1
    BY <1>2, <2>2
  <2> QED
    BY <1>1, <1>2, <1>7, <2>1, <2>3 DEF Prefix
<1>8. ASSUME NEW some, Prefix(s, some), s[n] \in some, ~Contains(s, e) PROVE Prefix(q, some \cup {e})
  <2> SUFFICES ASSUME NEW a \in 1 .. Len(q), NEW b \in 1 .. Len(q), a < b, q[b] \in some \cup {e}
               PROVE  q[a] \in some \cup {e}
    BY DEF Prefix
  <2>1. CASE a = n + 1
    BY <1>1, <2>1
  <2>2. CASE a # n + 1 /\ a <= n
    <3>1. q[a] = s[old(a)] /\ old(a) \in 1 .. len /\ (old(a) = n \/ old(a) < n)
      BY <1>1, <1>2, <2>2
    <3>2. \A c \in 1 .. len : c < n => s[c] \in some
      BY <1>8 DEF Prefix
    <3> QED
      BY <1>8, <3>1, <3>2
  <2>3. CASE a # n + 1 /\ ~(a <= n)
    <3>1. b # n + 1 /\ q[a] = s[old(a)] /\ old(a) \in 1 .. len /\ q[b] = s[old(b)]
          /\ old(b) \in 1 .. len /\ old(a) < old(b)
      BY <1>1, <1>2, <2>3
    <3>2. s[old(b)] \in some
      BY <1>8, <3>1 DEF Contains
    <3> QED
      BY <1>8, <3>1, <3>2 DEF Prefix
  <2> QED
    BY <2>1, <2>2, <2>3
<1> QED
  BY <1>1, <1>5, <1>6, <1>7, <1>8 DEF q

-----------------------------------------------------------------------------
(* The inductive invariant.  It is stated of a struct ieee80211_local, so  *)
(* that each handler has a lemma about the one it finds and those it may   *)
(* leave.                                                                  *)

Queued(l, w)  == w \in l.armed \/ Contains(l.works, w)

(* The lists and the marks of the ROCs on them, whatever happens. *)
Listed(l) ==
  /\ NoDup(l.works) /\ NoDup(l.roc_list)
  /\ \A r \in l.started : Contains(l.roc_list, r)
  /\ l.hw_begun \cup l.notified \cup l.abort \cup l.on_channel \cup l.over \subseteq l.started
  /\ l.armed \subseteq {"scan_work", "roc_work"}

(* Each driver uses its own works only. *)
OwnWorks(l) ==
  /\ driver.roc => ~Queued(l, "roc_work")
  /\ ~driver.roc =>
       /\ ~Contains(l.works, "hw_roc_start") /\ ~Contains(l.works, "hw_roc_done")
       /\ l.hw_roc = "idle" /\ Prefix(l.roc_list, l.started)

Good(l) == l \in LocalState /\ Listed(l) /\ OwnWorks(l)

SoftEnd(l) == ~driver.roc /\ l.started # {} => Queued(l, "roc_work")

(* A scan, whatever happens. *)
Scanned(l) ==
  /\ l.asked <=> (l.scan_req # NoRequest /\ l.scan_req.user)
  /\ "HW" \in l.scanning =>
       /\ l.scan_req # NoRequest
       /\ l.hw_scan \/ ("COMPLETED" \in l.scanning /\ Contains(l.works, "scan_work"))
  /\ "HW_CANCELLED" \in l.scanning => "HW" \in l.scanning

(* A scan while all is calm; lp is looping. *)
Kinds(l) ==
  /\ l.scanning # {} => {"HW", "SW", "ONCHANNEL"} \cap l.scanning # {}
  /\ "HW" \in l.scanning => /\ l.scanning \cap {"SW", "ONCHANNEL", "BEACON_WAIT"} = {}
                            /\ driver.scan
  /\ "SW" \in l.scanning => "ONCHANNEL" \notin l.scanning
  /\ l.scan_req = NoRequest => l.scanning = {}
  /\ l.hw_scan <=> ("HW" \in l.scanning /\ "COMPLETED" \notin l.scanning)
  /\ "COMPLETED" \in l.scanning => "HW" \in l.scanning
  /\ ~l.rx

(* Where a scan has left queues and channel. *)
Tuned(l) ==
  /\ "SW" \notin l.scanning => l.scan_chan = NoChan
  /\ "SW" \in l.scanning =>
       /\ l.stopped <=> l.next # "RESUME"
       /\ l.next = "RESUME" => l.scan_chan = NoChan
       /\ l.next \in {"SUSPEND", "RESUME", "SET_CHANNEL"} => l.idx < Len(l.scan_req.channels)
  /\ {"HW", "ONCHANNEL"} \cap l.scanning # {} => ~l.stopped

(* What runs on behalf of a scan. *)
Timely(l, lp) ==
  /\ lp => "SW" \in l.scanning /\ "BEACON_WAIT" \notin l.scanning
  /\ l.in_reconfig => ~l.hw_scan
  /\ driver.scan =>
       /\ ~(Contains(l.works, "scan_work") /\ "scan_work" \in l.armed)
       /\ lp \/ l.scan_req = NoRequest => ~Queued(l, "scan_work")
       /\ "HW" \in l.scanning =>
            "scan_work" \notin l.armed /\ (Contains(l.works, "scan_work") => "COMPLETED" \in l.scanning)

(* ROCs that mac80211 does. *)
SoftRocsKept(l) ==
  /\ Queued(l, "roc_work") => l.roc_list # <<>> /\ l.scanning = {}
  /\ "roc_work" \in l.armed => l.started \cap (l.over \cup l.abort) = {}
  /\ \/ l.started = {}
     \/ l.started \subseteq l.on_channel /\ l.tmp_channel = NoChan /\ ~l.stopped
     \/ l.started \cap l.on_channel = {} /\ l.tmp_channel # NoChan /\ l.stopped

(* ROCs that the driver does. *)
HwRocsKept(l) ==
  /\ l.tmp_channel = NoChan
  /\ Contains(l.works, "hw_roc_done") =>
       l.roc_list # <<>> /\ l.scanning = {} /\ l.hw_roc = "idle"
  /\ l.hw_roc # "idle" => l.started # {} /\ ~l.in_reconfig
  /\ Contains(l.works, "hw_roc_start") =>
       l.hw_roc = "begun" \/ Contains(l.works, "hw_roc_done")
  /\ l.notified = l.hw_begun /\ Prefix(l.roc_list, l.notified)
  /\ l.notified # {} => l.hw_roc = "begun" \/ Contains(l.works, "hw_roc_done")
  /\ StartFirstThenDone(l.works)

Radio(l) ==
  /\ l.scanning # {} => l.started = {} /\ l.tmp_channel = NoChan
  /\ l.scanning = {} /\ (l.started = {} \/ driver.roc) => l.tmp_channel = NoChan /\ ~l.stopped
  /\ IF driver.roc THEN HwRocsKept(l) ELSE SoftRocsKept(l)

CalmInv(l, lp) == Kinds(l) /\ Tuned(l) /\ Timely(l, lp) /\ Radio(l)

IInv ==
  /\ driver \in Drivers /\ looping \in BOOLEAN
  /\ Good(local) /\ SoftEnd(local) /\ Scanned(local)
  /\ looping => local.scan_req # NoRequest
  /\ Calm => CalmInv(local, looping)

-----------------------------------------------------------------------------
(* Queues of works. *)

LEMMA EmptyIs ==
  ASSUME NEW S, NEW s \in Seq(S)
  PROVE  s = <<>> <=> \A v : ~Contains(s, v)
<1>1. ASSUME s # <<>> PROVE Contains(s, s[1])
  BY <1>1 DEF Contains
<1>2. ASSUME s = <<>>, NEW v PROVE ~Contains(s, v)
  BY <1>2 DEF Contains
<1> QED
  BY <1>1, <1>2

(* The rest of the struct is as it was. *)
OnlyWorks(l, m) ==
  m \in LocalState /\ m = [l EXCEPT !.works = m.works, !.armed = m.armed]

LEMMA QueueWorkIs ==
  ASSUME NEW l \in LocalState, NEW w \in Works
  PROVE  /\ OnlyWorks(l, QueueWork(l, w))
         /\ QueueWork(l, w).armed = l.armed \ {w}
         /\ \A v : Contains(QueueWork(l, w).works, v) <=> Contains(l.works, v) \/ v = w
         /\ NoDup(l.works) => NoDup(QueueWork(l, w).works)
         /\ StartFirstThenDone(l.works) /\ (w = "hw_roc_start" => ~Contains(l.works, "hw_roc_done"))
              => StartFirstThenDone(QueueWork(l, w).works)
<1> DEFINE m == QueueWork(l, w)
<1>1. l.works \in Seq(Works)
  BY DEF LocalState
<1> DEFINE q == IF Contains(l.works, w) THEN l.works ELSE Append(l.works, w)
<1>2. q \in Seq(Works)
  BY <1>1
<1>3. m = [l EXCEPT !.armed = l.armed \ {w}, !.works = q]
  BY DEF QueueWork
<1> HIDE DEF m
<1>4. /\ \A v : Contains(q, v) <=> Contains(l.works, v) \/ v = w
      /\ NoDup(l.works) => NoDup(q)
      /\ StartFirstThenDone(l.works) /\ (w = "hw_roc_start" => ~Contains(l.works, "hw_roc_done"))
           => StartFirstThenDone(q)
  BY <1>1, AppendIs
<1> HIDE DEF q
<1>5. m.works = q /\ m.armed = l.armed \ {w}
  BY <1>3 DEF LocalState
<1>6. m \in LocalState
  BY <1>2, <1>3 DEF LocalState
<1>7. OnlyWorks(l, m)
  BY <1>3, <1>5, <1>6, Zenon DEF OnlyWorks
<1> QED
  BY <1>4, <1>5, <1>7 DEF m

LEMMA QueueLaterIs ==
  ASSUME NEW l \in LocalState, NEW w \in Works
  PROVE  OnlyWorks(l, QueueLater(l, w)) /\ QueueLater(l, w).works = l.works /\ QueueLater(l, w).armed = l.armed \cup {w}
  BY ZenonT(60) DEF QueueLater, OnlyWorks, LocalState

LEMMA CancelWorkIs ==
  ASSUME NEW l \in LocalState, NEW w \in Works
  PROVE  /\ OnlyWorks(l, CancelWork(l, w))
         /\ CancelWork(l, w).armed = l.armed \ {w}
         /\ \A v : Contains(CancelWork(l, w).works, v) <=> Contains(l.works, v) /\ v # w
         /\ NoDup(l.works) => NoDup(CancelWork(l, w).works)
         /\ StartFirstThenDone(l.works) => StartFirstThenDone(CancelWork(l, w).works)
<1> DEFINE m == CancelWork(l, w)
<1>1. l.works \in Seq(Works)
  BY DEF LocalState
<1> DEFINE q == Without(l.works, {w})
<1>2. /\ q \in Seq(Works)
      /\ \A v : Contains(q, v) <=> Contains(l.works, v) /\ v # w
  BY <1>1, WithoutIs
<1>3. /\ NoDup(l.works) => NoDup(q)
      /\ StartFirstThenDone(l.works) => StartFirstThenDone(q)
  BY <1>1, WithoutKeeps
<1>4. m = [l EXCEPT !.armed = l.armed \ {w}, !.works = q]
  BY DEF CancelWork
<1> HIDE DEF q, m
<1>5. m.works = q /\ m.armed = l.armed \ {w}
  BY <1>4 DEF LocalState
<1>6. m \in LocalState
  BY <1>2, <1>4 DEF LocalState
<1>7. OnlyWorks(l, m)
  BY <1>4, <1>5, <1>6 DEF OnlyWorks, LocalState
<1> QED
  BY <1>2, <1>3, <1>5, <1>7 DEF m

Take(l) == [l EXCEPT !.works = Tail(@)]

LEMMA TakenIs ==
  ASSUME NEW l \in LocalState, l.works # <<>>, NoDup(l.works)
  PROVE  /\ OnlyWorks(l, Take(l)) /\ Take(l).armed = l.armed
         /\ Contains(l.works, Head(l.works)) /\ Head(l.works) \in Works
         /\ \A v : Contains(Take(l).works, v) <=> Contains(l.works, v) /\ v # Head(l.works)
         /\ NoDup(Take(l).works)
         /\ StartFirstThenDone(l.works) => StartFirstThenDone(Take(l).works)
         /\ StartFirstThenDone(l.works) /\ Head(l.works) = "hw_roc_done"
              => ~Contains(Take(l).works, "hw_roc_start")
<1> DEFINE m == Take(l)
<1>1. l.works \in Seq(Works)
  BY DEF LocalState
<1> DEFINE q == Tail(l.works)
<1>2. /\ q \in Seq(Works) /\ Head(l.works) \in Works /\ Contains(l.works, Head(l.works))
      /\ \A v : Contains(q, v) <=> Contains(l.works, v) /\ v # Head(l.works)
      /\ NoDup(q)
      /\ StartFirstThenDone(l.works) => StartFirstThenDone(q)
      /\ StartFirstThenDone(l.works) /\ Head(l.works) = "hw_roc_done"
           => ~Contains(l.works, "hw_roc_start")
  BY <1>1, TailIs
<1>3. m = [l EXCEPT !.works = q]
  BY DEF Take
<1> HIDE DEF q, m
<1>4. m.works = q /\ m.armed = l.armed
  BY <1>3 DEF LocalState
<1>5. m \in LocalState
  BY <1>2, <1>3 DEF LocalState
<1>6. OnlyWorks(l, m)
  BY <1>3, <1>4, <1>5 DEF OnlyWorks, LocalState
<1> QED
  BY <1>2, <1>4, <1>6 DEF m

-----------------------------------------------------------------------------
(* The list of ROCs. *)

LEMMA FirstIs ==
  ASSUME NEW l \in LocalState, l.roc_list # <<>>
  PROVE  /\ First(l) = l.roc_list[1] /\ First(l) \in Rocs /\ Contains(l.roc_list, First(l))
         /\ \A some : /\ Prefix(l.roc_list, some) /\ First(l) \notin some
                      /\ \A r \in some : Contains(l.roc_list, r)
                      => some = {}
<1>1. l.roc_list \in Seq(Rocs)
  BY DEF LocalState
<1> DEFINE s == l.roc_list
<1>2. s \in Seq(Rocs) /\ s # <<>>
  BY <1>1
<1> HIDE DEF s
<1>3. Head(s) = s[1] /\ s[1] \in Rocs /\ 1 \in 1 .. Len(s) /\ \A a \in 1 .. Len(s) : a = 1 \/ 1 < a
  BY <1>2
<1>4. Contains(s, s[1])
  BY <1>3 DEF Contains
<1>5. ASSUME NEW some, Prefix(s, some), s[1] \notin some, \A r \in some : Contains(s, r)
      PROVE  some = {}
  BY <1>3, <1>5 DEF Prefix, Contains
<1> QED
  BY <1>3, <1>4, <1>5 DEF First, s

LEMMA FrontIs ==
  ASSUME NEW l \in LocalState, NEW some
  PROVE  /\ FrontRocs(l, some) \subseteq some /\ FrontRocs(l, some) \subseteq Rocs
         /\ \A r \in FrontRocs(l, some) : Contains(l.roc_list, r)
         /\ NoDup(l.roc_list) => Prefix(l.roc_list, FrontRocs(l, some))
         /\ \A sub : /\ Prefix(l.roc_list, sub) /\ sub \subseteq some
                     /\ \A r \in sub : Contains(l.roc_list, r)
                     => sub \subseteq FrontRocs(l, some)
         /\ l.roc_list # <<>> /\ First(l) \in some => First(l) \in FrontRocs(l, some)
<1>1. l.roc_list \in Seq(Rocs)
  BY DEF LocalState
<1> DEFINE s     == l.roc_list
           front == {m \in DOMAIN s : \A k \in 1 .. m : s[k] \in some}
<1>2. s \in Seq(Rocs) /\ DOMAIN s = 1 .. Len(s) /\ Len(s) \in Nat
  BY <1>1
<1> HIDE DEF s
<1>3. FrontRocs(l, some) = {s[n] : n \in front}
  BY DEF FrontRocs, s
<1>4. ASSUME NEW r \in FrontRocs(l, some)
      PROVE  r \in some /\ r \in Rocs /\ Contains(s, r)
  <2>1. PICK n \in front : r = s[n]
    BY <1>3
  <2>2. n \in 1 .. n /\ n \in 1 .. Len(s)
    BY <1>2
  <2> QED
    BY <1>2, <2>1, <2>2 DEF Contains
<1>5. ASSUME NoDup(s) PROVE Prefix(s, FrontRocs(l, some))
  <2> SUFFICES ASSUME NEW a \in 1 .. Len(s), NEW b \in 1 .. Len(s), a < b, s[b] \in FrontRocs(l, some)
               PROVE  s[a] \in FrontRocs(l, some)
    BY DEF Prefix
  <2>1. PICK n \in front : s[b] = s[n]
    BY <1>3
  <2>2. n \in 1 .. Len(s) /\ n = b
    BY <1>2, <1>5, <2>1 DEF NoDup
  <2>3. a \in front
    BY <1>2, <2>2
  <2> QED
    BY <1>3, <2>3
<1>6. ASSUME NEW sub, Prefix(s, sub), sub \subseteq some, \A r \in sub : Contains(s, r),
             NEW r \in sub
      PROVE  r \in FrontRocs(l, some)
  <2>1. PICK n \in 1 .. Len(s) : s[n] = r
    BY <1>6 DEF Contains
  <2>2. ASSUME NEW k \in 1 .. n PROVE s[k] \in some
    <3>1. k \in 1 .. Len(s) /\ (k = n \/ k < n)
      BY <1>2
    <3> QED
      BY <1>6, <2>1, <3>1 DEF Prefix
  <2>3. n \in front
    BY <1>2, <2>2
  <2> QED
    BY <1>3, <2>1, <2>3
<1>7. ASSUME s # <<>>, First(l) \in some PROVE First(l) \in FrontRocs(l, some)
  <2>1. First(l) = s[1] /\ 1 \in 1 .. Len(s)
    BY <1>2, <1>7, FirstIs DEF s
  <2>2. 1 \in front
    BY <1>2, <1>7, <2>1
  <2> QED
    BY <1>3, <2>1, <2>2
<1> QED
  BY <1>4, <1>5, <1>6, <1>7 DEF s

-----------------------------------------------------------------------------
(* What a handler for ROCs leaves alone of a scan: it may only queue the   *)
(* work of one that is deferred.                                           *)

ScanFields(l, m) ==
  /\ m.scan_req = l.scan_req /\ m.scanning = l.scanning /\ m.next = l.next /\ m.idx = l.idx
  /\ m.scan_chan = l.scan_chan /\ m.rx = l.rx /\ m.hw_scan = l.hw_scan /\ m.asked = l.asked
  /\ m.in_reconfig = l.in_reconfig

SameScan(l, m) ==
  /\ ScanFields(l, m)
  /\ Contains(l.works, "scan_work") => Contains(m.works, "scan_work")
  /\ l.scan_req = NoRequest \/ l.scanning # {} =>
       /\ Contains(m.works, "scan_work") <=> Contains(l.works, "scan_work")
       /\ "scan_work" \in m.armed <=> "scan_work" \in l.armed
  /\ Calm /\ driver.scan /\ "scan_work" \in m.armed =>
       /\ "scan_work" \in l.armed
       /\ Contains(m.works, "scan_work") => Contains(l.works, "scan_work")

LEMMA SameScanTrans ==
  ASSUME NEW l, NEW m, NEW n, SameScan(l, m), SameScan(m, n) PROVE SameScan(l, n)
  BY DEF SameScan, ScanFields

RocFields(l, m) ==
  /\ m.roc_list = l.roc_list /\ m.started = l.started /\ m.hw_begun = l.hw_begun
  /\ m.notified = l.notified /\ m.abort = l.abort /\ m.on_channel = l.on_channel
  /\ m.over = l.over

LEMMA OnlyWorksIs ==
  ASSUME NEW l \in LocalState, NEW m, OnlyWorks(l, m)
  PROVE  /\ m \in LocalState /\ ScanFields(l, m) /\ RocFields(l, m)
         /\ m.hw_roc = l.hw_roc /\ m.stopped = l.stopped /\ m.tmp_channel = l.tmp_channel
<1>1. m \in LocalState /\ m = [l EXCEPT !.works = m.works, !.armed = m.armed]
  BY DEF OnlyWorks
<1>2. ScanFields(l, m)
  BY <1>1 DEF ScanFields, LocalState
<1>3. RocFields(l, m)
  BY <1>1 DEF RocFields, LocalState
<1>4. m.hw_roc = l.hw_roc /\ m.stopped = l.stopped /\ m.tmp_channel = l.tmp_channel
  BY <1>1 DEF LocalState
<1> QED
  BY <1>1, <1>2, <1>3, <1>4

LEMMA GoodWorks ==
  ASSUME NEW l, NEW m, Good(l), OnlyWorks(l, m), NoDup(m.works),
         m.armed \subseteq {"scan_work", "roc_work"},
         \A v : Queued(m, v) =>
           Queued(l, v) \/ v = "scan_work"
             \/ IF driver.roc THEN v # "roc_work" ELSE v = "roc_work"
  PROVE  Good(m)
<1>1. l \in LocalState /\ Listed(l) /\ OwnWorks(l)
  BY DEF Good
<1>2. m \in LocalState /\ RocFields(l, m) /\ m.hw_roc = l.hw_roc
  BY <1>1, OnlyWorksIs
<1>3. Listed(m)
  BY <1>1, <1>2 DEF Listed, RocFields
<1>4. OwnWorks(m)
  <2>1. ASSUME driver.roc PROVE ~Queued(m, "roc_work")
    BY <1>1, <2>1 DEF OwnWorks
  <2>2. ASSUME ~driver.roc
        PROVE  ~Contains(m.works, "hw_roc_start") /\ ~Contains(m.works, "hw_roc_done")
    <3>1. ~Queued(l, "hw_roc_start") /\ ~Queued(l, "hw_roc_done")
      BY <1>1, <2>2 DEF OwnWorks, Listed, Queued
    <3>2. ~Queued(m, "hw_roc_start") /\ ~Queued(m, "hw_roc_done")
      BY <2>2, <3>1
    <3> QED
      BY <3>2 DEF Queued
  <2> QED
    BY <1>1, <1>2, <2>1, <2>2 DEF OwnWorks, RocFields
<1> QED
  BY <1>2, <1>3, <1>4 DEF Good

(* The works of ROCs and of scans are queued apart from each other. *)
LEMMA QueueRocWork ==
  ASSUME NEW l, Good(l), NEW w \in {"roc_work", "hw_roc_start", "hw_roc_done"},
         IF driver.roc THEN w # "roc_work" ELSE w = "roc_work"
  PROVE  Good(QueueWork(l, w)) /\ SameScan(l, QueueWork(l, w))
<1>1. l \in LocalState /\ w \in Works /\ Listed(l)
  BY DEF Good, Works
<1>2. /\ OnlyWorks(l, QueueWork(l, w))
      /\ QueueWork(l, w).armed = l.armed \ {w}
      /\ \A v : Contains(QueueWork(l, w).works, v) <=> Contains(l.works, v) \/ v = w
      /\ NoDup(l.works) => NoDup(QueueWork(l, w).works)
  BY <1>1, QueueWorkIs
<1>3. Good(QueueWork(l, w))
  BY <1>1, <1>2, GoodWorks DEF Listed, Queued
<1>4. ScanFields(l, QueueWork(l, w))
  BY <1>1, <1>2, OnlyWorksIs
<1> QED
  BY <1>2, <1>3, <1>4 DEF SameScan

LEMMA QueueRocLater ==
  ASSUME NEW l, Good(l), ~driver.roc
  PROVE  /\ Good(QueueLater(l, "roc_work")) /\ SameScan(l, QueueLater(l, "roc_work"))
         /\ SoftEnd(QueueLater(l, "roc_work"))
<1>1. l \in LocalState /\ "roc_work" \in Works /\ Listed(l)
  BY DEF Good, Works
<1>2. /\ OnlyWorks(l, QueueLater(l, "roc_work"))
      /\ QueueLater(l, "roc_work").armed = l.armed \cup {"roc_work"}
      /\ QueueLater(l, "roc_work").works = l.works
  BY <1>1, QueueLaterIs
<1>3. Good(QueueLater(l, "roc_work"))
  BY <1>1, <1>2, GoodWorks DEF Listed, Queued
<1>4. ScanFields(l, QueueLater(l, "roc_work"))
  BY <1>1, <1>2, OnlyWorksIs
<1> QED
  BY <1>2, <1>3, <1>4 DEF SameScan, SoftEnd, Queued

LEMMA QueueScanWork ==
  ASSUME NEW l, Good(l)
  PROVE  /\ Good(QueueWork(l, "scan_work")) /\ ScanFields(l, QueueWork(l, "scan_work"))
         /\ SoftEnd(l) => SoftEnd(QueueWork(l, "scan_work"))
         /\ Contains(QueueWork(l, "scan_work").works, "scan_work")
         /\ "scan_work" \notin QueueWork(l, "scan_work").armed
<1>1. l \in LocalState /\ "scan_work" \in Works /\ Listed(l)
  BY DEF Good, Works
<1>2. /\ OnlyWorks(l, QueueWork(l, "scan_work"))
      /\ QueueWork(l, "scan_work").armed = l.armed \ {"scan_work"}
      /\ \A v : Contains(QueueWork(l, "scan_work").works, v) <=> Contains(l.works, v) \/ v = "scan_work"
      /\ NoDup(l.works) => NoDup(QueueWork(l, "scan_work").works)
  BY <1>1, QueueWorkIs
<1>3. Good(QueueWork(l, "scan_work"))
  BY <1>1, <1>2, GoodWorks DEF Listed, Queued
<1>4. ScanFields(l, QueueWork(l, "scan_work")) /\ RocFields(l, QueueWork(l, "scan_work"))
  BY <1>1, <1>2, OnlyWorksIs
<1> QED
  BY <1>2, <1>3, <1>4 DEF SoftEnd, Queued, RocFields

LEMMA QueueScanLater ==
  ASSUME NEW l, Good(l)
  PROVE  /\ Good(QueueLater(l, "scan_work")) /\ ScanFields(l, QueueLater(l, "scan_work"))
         /\ SoftEnd(l) => SoftEnd(QueueLater(l, "scan_work"))
<1>1. l \in LocalState /\ "scan_work" \in Works /\ Listed(l)
  BY DEF Good, Works
<1>2. /\ OnlyWorks(l, QueueLater(l, "scan_work"))
      /\ QueueLater(l, "scan_work").armed = l.armed \cup {"scan_work"}
      /\ QueueLater(l, "scan_work").works = l.works
  BY <1>1, QueueLaterIs
<1>3. Good(QueueLater(l, "scan_work"))
  BY <1>1, <1>2, GoodWorks DEF Listed, Queued
<1>4. ScanFields(l, QueueLater(l, "scan_work")) /\ RocFields(l, QueueLater(l, "scan_work"))
  BY <1>1, <1>2, OnlyWorksIs
<1> QED
  BY <1>2, <1>3, <1>4 DEF SoftEnd, Queued, RocFields

LEMMA CancelGood ==
  ASSUME NEW l, Good(l), NEW w \in Works
  PROVE  /\ Good(CancelWork(l, w)) /\ ScanFields(l, CancelWork(l, w))
         /\ w # "roc_work" /\ SoftEnd(l) => SoftEnd(CancelWork(l, w))
         /\ w # "scan_work" => SameScan(l, CancelWork(l, w))
<1>1. l \in LocalState /\ Listed(l)
  BY DEF Good
<1>2. /\ OnlyWorks(l, CancelWork(l, w))
      /\ CancelWork(l, w).armed = l.armed \ {w}
      /\ \A v : Contains(CancelWork(l, w).works, v) <=> Contains(l.works, v) /\ v # w
      /\ NoDup(l.works) => NoDup(CancelWork(l, w).works)
  BY <1>1, CancelWorkIs
<1>3. Good(CancelWork(l, w))
  BY <1>1, <1>2, GoodWorks DEF Listed, Queued
<1>4. ScanFields(l, CancelWork(l, w)) /\ RocFields(l, CancelWork(l, w))
  BY <1>1, <1>2, OnlyWorksIs
<1>5. w # "roc_work" /\ SoftEnd(l) => SoftEnd(CancelWork(l, w))
  BY <1>2, <1>4 DEF SoftEnd, Queued, RocFields
<1> QED
  BY <1>2, <1>3, <1>4, <1>5 DEF SameScan

LEMMA TakeGood ==
  ASSUME NEW l, Good(l), l.works # <<>>
  PROVE  /\ Good(Take(l)) /\ ScanFields(l, Take(l))
         /\ Head(l.works) # "roc_work" /\ SoftEnd(l) => SoftEnd(Take(l))
         /\ Head(l.works) # "scan_work" => SameScan(l, Take(l))
<1>1. l \in LocalState /\ Listed(l)
  BY DEF Good
<1>2. /\ OnlyWorks(l, Take(l))
      /\ Take(l).armed = l.armed
      /\ \A v : Contains(Take(l).works, v) <=> Contains(l.works, v) /\ v # Head(l.works)
      /\ NoDup(Take(l).works)
  BY <1>1, TakenIs DEF Listed
<1>3. Good(Take(l))
  BY <1>1, <1>2, GoodWorks DEF Listed, Queued
<1>4. ScanFields(l, Take(l)) /\ RocFields(l, Take(l))
  BY <1>1, <1>2, OnlyWorksIs
<1>5. Head(l.works) # "roc_work" /\ SoftEnd(l) => SoftEnd(Take(l))
  BY <1>2, <1>4 DEF SoftEnd, Queued, RocFields
<1> QED
  BY <1>2, <1>3, <1>4, <1>5 DEF SameScan

-----------------------------------------------------------------------------
(* The handlers for ROCs: what they keep whatever happens. *)

(* Only the ROCs that go change. *)
LEMMA DestroyIs ==
  ASSUME NEW l \in LocalState, NEW gone
  PROVE  /\ Destroy(l, gone) \in LocalState /\ ScanFields(l, Destroy(l, gone))
         /\ Destroy(l, gone).works = l.works /\ Destroy(l, gone).armed = l.armed
         /\ Destroy(l, gone).hw_roc = l.hw_roc /\ Destroy(l, gone).stopped = l.stopped
         /\ Destroy(l, gone).tmp_channel = l.tmp_channel
         /\ Destroy(l, gone).started = l.started \ gone
         /\ Destroy(l, gone).hw_begun = l.hw_begun \ gone
         /\ Destroy(l, gone).notified = l.notified \ gone
         /\ Destroy(l, gone).abort = l.abort \ gone
         /\ Destroy(l, gone).on_channel = l.on_channel \ gone
         /\ Destroy(l, gone).over = l.over \ gone
         /\ \A r : Contains(Destroy(l, gone).roc_list, r) <=> Contains(l.roc_list, r) /\ r \notin gone
         /\ NoDup(l.roc_list) => NoDup(Destroy(l, gone).roc_list)
         /\ \A some : Prefix(l.roc_list, some) => Prefix(Destroy(l, gone).roc_list, some \ gone)
<1> DEFINE m == Destroy(l, gone)
           q == Without(l.roc_list, gone)
<1>1. l.roc_list \in Seq(Rocs)
  BY DEF LocalState
<1>2. q \in Seq(Rocs) /\ \A r : Contains(q, r) <=> Contains(l.roc_list, r) /\ r \notin gone
  BY <1>1, WithoutIs
<1>3. /\ NoDup(l.roc_list) => NoDup(q)
      /\ \A some : Prefix(l.roc_list, some) => Prefix(q, some \ gone)
  BY <1>1, WithoutKeeps
<1>4. m = [l EXCEPT !.roc_list = q, !.started = l.started \ gone, !.hw_begun = l.hw_begun \ gone,
                    !.notified = l.notified \ gone, !.abort = l.abort \ gone,
                    !.on_channel = l.on_channel \ gone, !.over = l.over \ gone]
  BY DEF Destroy
<1> HIDE DEF m, q
<1>5. m \in LocalState
  BY <1>2, <1>4 DEF LocalState
<1>6. /\ m.works = l.works /\ m.armed = l.armed
      /\ m.hw_roc = l.hw_roc /\ m.stopped = l.stopped /\ m.tmp_channel = l.tmp_channel
  BY <1>4 DEF LocalState
<1>7. ScanFields(l, m)
  BY <1>4 DEF LocalState, ScanFields
<1>8. /\ m.started = l.started \ gone /\ m.hw_begun = l.hw_begun \ gone
      /\ m.notified = l.notified \ gone /\ m.abort = l.abort \ gone
      /\ m.on_channel = l.on_channel \ gone /\ m.over = l.over \ gone
      /\ m.roc_list = q
  BY <1>4 DEF LocalState
<1> QED
  BY <1>2, <1>3, <1>5, <1>6, <1>7, <1>8 DEF m

LEMMA DestroyGood ==
  ASSUME NEW l, Good(l), NEW gone
  PROVE  /\ Good(Destroy(l, gone)) /\ SameScan(l, Destroy(l, gone))
         /\ SoftEnd(l) => SoftEnd(Destroy(l, gone))
<1> DEFINE m == Destroy(l, gone)
<1>1. l \in LocalState /\ Listed(l) /\ OwnWorks(l)
  BY DEF Good
<1>2. /\ m \in LocalState /\ ScanFields(l, m)
      /\ m.works = l.works /\ m.armed = l.armed /\ m.hw_roc = l.hw_roc
      /\ m.started = l.started \ gone /\ m.hw_begun = l.hw_begun \ gone
      /\ m.notified = l.notified \ gone /\ m.abort = l.abort \ gone
      /\ m.on_channel = l.on_channel \ gone /\ m.over = l.over \ gone
      /\ \A r : Contains(m.roc_list, r) <=> Contains(l.roc_list, r) /\ r \notin gone
      /\ NoDup(l.roc_list) => NoDup(m.roc_list)
      /\ \A some : Prefix(l.roc_list, some) => Prefix(m.roc_list, some \ gone)
  BY <1>1, DestroyIs, ZenonT(60)
<1> HIDE DEF m
<1>3. Listed(m)
  BY <1>1, <1>2 DEF Listed
<1>4. OwnWorks(m)
  BY <1>1, <1>2 DEF OwnWorks, Queued
<1>5. SoftEnd(l) => SoftEnd(m)
  BY <1>2 DEF SoftEnd, Queued
<1> QED
  BY <1>2, <1>3, <1>4, <1>5 DEF Good, SameScan, m

(* In software, the ROCs that have started are at the front of the list. *)
LEMMA FrontStarted ==
  ASSUME NEW l, Good(l)
  PROVE  /\ StartedFront(l) \subseteq l.started
         /\ \A r \in StartedFront(l) : Contains(l.roc_list, r)
         /\ ~driver.roc => StartedFront(l) = l.started
<1>1. l \in LocalState /\ Listed(l) /\ OwnWorks(l)
  BY DEF Good
<1>2. /\ StartedFront(l) \subseteq l.started
      /\ \A r \in StartedFront(l) : Contains(l.roc_list, r)
      /\ \A sub : /\ Prefix(l.roc_list, sub) /\ sub \subseteq l.started
                  /\ \A r \in sub : Contains(l.roc_list, r)
                  => sub \subseteq StartedFront(l)
  BY <1>1, FrontIs DEF StartedFront
<1>3. ~driver.roc => l.started \subseteq StartedFront(l)
  BY <1>1, <1>2 DEF Listed, OwnWorks
<1> QED
  BY <1>2, <1>3

LEMMA RecalcGood ==
  ASSUME NEW l, Good(l), ~driver.roc
  PROVE  /\ Good(RecalcSwWork(l)) /\ SameScan(l, RecalcSwWork(l)) /\ SoftEnd(RecalcSwWork(l))
<1> DEFINE m == EndFinished(l)
<1>1. Good(m) /\ SameScan(l, m)
  BY DestroyGood DEF EndFinished
<1>2. StartedFront(m) = m.started
  BY <1>1, FrontStarted
<1>3. RecalcSwWork(l) = IF StartedFront(m) = {} THEN m ELSE QueueLater(m, "roc_work")
  BY DEF RecalcSwWork
<1> HIDE DEF m
<1>4. CASE StartedFront(m) = {}
  BY <1>1, <1>2, <1>3, <1>4 DEF SoftEnd
<1>5. CASE StartedFront(m) # {}
  <2>1. Good(QueueLater(m, "roc_work")) /\ SameScan(m, QueueLater(m, "roc_work"))
        /\ SoftEnd(QueueLater(m, "roc_work"))
    BY <1>1, QueueRocLater
  <2> QED
    BY <1>1, <1>3, <1>5, <2>1, SameScanTrans
<1> QED
  BY <1>4, <1>5

(* The fields of ROCs that start change, the list does not. *)
LEMMA MarksGood ==
  ASSUME NEW l, Good(l), NEW m \in LocalState, ScanFields(l, m),
         m.works = l.works, m.armed = l.armed, m.roc_list = l.roc_list,
         NEW rs, m.started = l.started \cup rs,
         \A r \in rs : Contains(l.roc_list, r),
         m.hw_begun \cup m.notified \cup m.abort \cup m.on_channel \cup m.over
           \subseteq l.started \cup rs,
         ~driver.roc => m.hw_roc = l.hw_roc /\ Prefix(l.roc_list, m.started)
  PROVE  Good(m) /\ SameScan(l, m)
<1>1. Listed(l) /\ OwnWorks(l)
  BY DEF Good
<1>2. Listed(m)
  BY <1>1 DEF Listed
<1>3. OwnWorks(m)
  BY <1>1 DEF OwnWorks, Queued
<1> QED
  BY <1>2, <1>3 DEF Good, SameScan

(* A ROC is to be started. *)
Fresh(l) == l.roc_list # <<>> /\ First(l) \notin l.started

(* The ROCs that StartFirst starts. *)
Batch(l) == FrontRocs(l, {r \in Rocs : SameTarget(r, First(l))})

LEMMA BatchIs ==
  ASSUME NEW l, Good(l), Fresh(l)
  PROVE  /\ Batch(l) \subseteq Rocs /\ First(l) \in Batch(l)
         /\ \A r \in Batch(l) : Contains(l.roc_list, r)
         /\ ~driver.roc => l.started = {} /\ Prefix(l.roc_list, Batch(l))
<1>1. l \in LocalState /\ Listed(l) /\ OwnWorks(l) /\ l.roc_list # <<>>
  BY DEF Good, Fresh
<1>2. First(l) \in Rocs /\ SameTarget(First(l), First(l))
  BY <1>1, FirstIs DEF SameTarget
<1>3. /\ Batch(l) \subseteq Rocs
      /\ \A r \in Batch(l) : Contains(l.roc_list, r)
      /\ NoDup(l.roc_list) => Prefix(l.roc_list, Batch(l))
  BY <1>1, FrontIs DEF Batch
<1>4. First(l) \in Batch(l)
  BY <1>1, <1>2, FrontIs DEF Batch
<1>5. ~driver.roc => l.started = {}
  BY <1>1, FirstIs DEF Listed, OwnWorks, Fresh
<1> QED
  BY <1>1, <1>3, <1>4, <1>5 DEF Listed

(* What StartFirst leaves, by the kind of driver. *)
Accepted(l) == [l EXCEPT !.hw_roc = "accepted", !.started = @ \cup Batch(l)]
Refused(l)  == [l EXCEPT !.started = @ \cup Batch(l), !.abort = @ \cup Batch(l)]
Here(l)     == ChanOf[First(l)] = Channel(l)
Away(l)     == IF Here(l) THEN l ELSE [StopVifs(l) EXCEPT !.tmp_channel = ChanOf[First(l)]]
Begun(l)    ==
  HandleStarted([QueueLater(Away(l), "roc_work") EXCEPT
                   !.on_channel = IF Here(l) THEN @ \cup Batch(l) ELSE @], Batch(l))

LEMMA StartFirstIs ==
  ASSUME NEW l, NEW m \in StartFirst(l)
  PROVE  \/ ~Fresh(l) /\ m = l
         \/ Fresh(l) /\ driver.roc /\ l.hw_roc = "idle" /\ ~l.in_reconfig /\ m = Accepted(l)
         \/ Fresh(l) /\ driver.roc /\ m = QueueWork(Refused(l), "hw_roc_done")
         \/ Fresh(l) /\ ~driver.roc /\ m = Begun(l)
<1>1. CASE ~Fresh(l)
  BY <1>1 DEF StartFirst, Fresh
<1>2. CASE Fresh(l) /\ driver.roc
  <2>1. \/ \E a \in DriverAccepts(l) : m = [a EXCEPT !.started = @ \cup Batch(l)]
        \/ m = QueueWork(Refused(l), "hw_roc_done")
    BY <1>2 DEF StartFirst, Fresh, Batch, Refused
  <2>2. ASSUME NEW a \in DriverAccepts(l), m = [a EXCEPT !.started = @ \cup Batch(l)]
        PROVE  l.hw_roc = "idle" /\ ~l.in_reconfig /\ m = Accepted(l)
    <3>1. l.hw_roc = "idle" /\ ~l.in_reconfig /\ a = [l EXCEPT !.hw_roc = "accepted"]
      BY DEF DriverAccepts
    <3> QED
      BY <2>2, <3>1 DEF Accepted
  <2> QED
    BY <1>2, <2>1, <2>2
<1>3. CASE Fresh(l) /\ ~driver.roc
  BY <1>3 DEF StartFirst, Fresh, Batch, Begun, Here, Away
<1> QED
  BY <1>1, <1>2, <1>3

LEMMA AwayIs ==
  ASSUME NEW l, Good(l), Fresh(l)
  PROVE  /\ Good(Away(l)) /\ SameScan(l, Away(l)) /\ RocFields(l, Away(l))
         /\ Away(l).works = l.works /\ Away(l).armed = l.armed /\ Away(l).hw_roc = l.hw_roc
         /\ IF Here(l) THEN Away(l).stopped = l.stopped /\ Away(l).tmp_channel = l.tmp_channel
            ELSE Away(l).stopped /\ Away(l).tmp_channel = ChanOf[First(l)]
<1> DEFINE m == Away(l)
<1>1. l \in LocalState /\ ChanOf[First(l)] \in Chans
  BY FirstIs, OffChannelAssumption DEF Good, Fresh
<1>2. m = l \/ m = [l EXCEPT !.stopped = TRUE, !.tmp_channel = ChanOf[First(l)]]
  BY <1>1 DEF Away, StopVifs, LocalState
<1>6. IF Here(l) THEN m.stopped = l.stopped /\ m.tmp_channel = l.tmp_channel
      ELSE m.stopped /\ m.tmp_channel = ChanOf[First(l)]
  BY <1>1 DEF Away, StopVifs, LocalState
<1> HIDE DEF m
<1>3. m \in LocalState
  <2>1. [l EXCEPT !.stopped = TRUE, !.tmp_channel = ChanOf[First(l)]] \in LocalState
    BY <1>1 DEF LocalState
  <2> QED
    BY <1>1, <1>2, <2>1
<1>4. ScanFields(l, m) /\ RocFields(l, m)
  BY <1>1, <1>2 DEF ScanFields, RocFields, LocalState
<1>5. m.works = l.works /\ m.armed = l.armed /\ m.hw_roc = l.hw_roc
  BY <1>1, <1>2 DEF LocalState
<1>7. Good(m) /\ SameScan(l, m)
  BY <1>3, <1>4, <1>5 DEF Good, Listed, OwnWorks, Queued, RocFields, SameScan
<1> QED
  BY <1>4, <1>5, <1>6, <1>7 DEF m

(* What a ROC that begins in software leaves. *)
LEMMA BegunIs ==
  ASSUME NEW l, Good(l), Fresh(l), ~driver.roc
  PROVE  /\ Good(Begun(l)) /\ SameScan(l, Begun(l)) /\ SoftEnd(Begun(l))
         /\ Begun(l).roc_list = l.roc_list /\ Begun(l).started = Batch(l)
         /\ Begun(l).works = l.works /\ Begun(l).armed = l.armed \cup {"roc_work"}
         /\ Begun(l).over = l.over /\ Begun(l).abort = l.abort
         /\ IF Here(l) THEN /\ Begun(l).stopped = l.stopped
                            /\ Begun(l).tmp_channel = l.tmp_channel
                            /\ Begun(l).on_channel = l.on_channel \cup Batch(l)
            ELSE /\ Begun(l).stopped /\ Begun(l).tmp_channel = ChanOf[First(l)]
                 /\ Begun(l).on_channel = l.on_channel
<1> DEFINE a == Away(l)
           x == QueueLater(a, "roc_work")
           m == Begun(l)
<1>1. /\ Good(a) /\ SameScan(l, a) /\ RocFields(l, a)
      /\ a.works = l.works /\ a.armed = l.armed /\ a.hw_roc = l.hw_roc
      /\ IF Here(l) THEN a.stopped = l.stopped /\ a.tmp_channel = l.tmp_channel
         ELSE a.stopped /\ a.tmp_channel = ChanOf[First(l)]
  BY AwayIs
<1>2. /\ Batch(l) \subseteq Rocs /\ \A r \in Batch(l) : Contains(l.roc_list, r)
      /\ l.started = {} /\ Prefix(l.roc_list, Batch(l))
  BY BatchIs
<1> HIDE DEF a
<1>3. Good(x) /\ SameScan(a, x)
  BY <1>1, QueueRocLater
<1>4. OnlyWorks(a, x) /\ x.works = a.works /\ x.armed = a.armed \cup {"roc_work"} /\ a \in LocalState
  BY <1>1, QueueLaterIs DEF Good, Works
<1>5. /\ x \in LocalState /\ RocFields(a, x) /\ x.hw_roc = a.hw_roc
      /\ x.stopped = a.stopped /\ x.tmp_channel = a.tmp_channel
  BY <1>4, OnlyWorksIs
<1>6. m = HandleStarted([x EXCEPT !.on_channel = IF Here(l) THEN @ \cup Batch(l) ELSE @], Batch(l))
  BY DEF Begun, a
<1> HIDE DEF x, m
<1> DEFINE y == [x EXCEPT !.on_channel = IF Here(l) THEN @ \cup Batch(l) ELSE @]
<1>7. /\ y \in LocalState /\ ScanFields(x, y)
      /\ y.works = x.works /\ y.armed = x.armed /\ y.hw_roc = x.hw_roc
      /\ y.stopped = x.stopped /\ y.tmp_channel = x.tmp_channel /\ y.roc_list = x.roc_list
      /\ y.started = x.started /\ y.hw_begun = x.hw_begun /\ y.notified = x.notified
      /\ y.abort = x.abort /\ y.over = x.over
      /\ y.on_channel = IF Here(l) THEN x.on_channel \cup Batch(l) ELSE x.on_channel
  BY <1>2, <1>5 DEF LocalState, ScanFields
<1>8. m = [y EXCEPT !.started = @ \cup Batch(l), !.notified = @ \cup Batch(l)]
  BY <1>6 DEF HandleStarted
<1> HIDE DEF y
<1>9. /\ m \in LocalState /\ ScanFields(y, m)
      /\ m.works = y.works /\ m.armed = y.armed /\ m.hw_roc = y.hw_roc
      /\ m.stopped = y.stopped /\ m.tmp_channel = y.tmp_channel /\ m.roc_list = y.roc_list
      /\ m.started = y.started \cup Batch(l) /\ m.hw_begun = y.hw_begun
      /\ m.notified = y.notified \cup Batch(l)
      /\ m.abort = y.abort /\ m.over = y.over /\ m.on_channel = y.on_channel
  BY <1>2, <1>7, <1>8 DEF LocalState, ScanFields
<1>10. ScanFields(x, m)
  BY <1>7, <1>9 DEF ScanFields
<1>11. Listed(x) /\ x.hw_roc = "idle"
  BY <1>3 DEF Good, OwnWorks
<1>12. x.started = {} /\ x.roc_list = l.roc_list
  BY <1>1, <1>2, <1>5 DEF RocFields
<1>13. Good(m) /\ SameScan(x, m)
  <2>1. m.hw_begun \cup m.notified \cup m.abort \cup m.on_channel \cup m.over
          \subseteq x.started \cup Batch(l)
    BY <1>7, <1>9, <1>11 DEF Listed
  <2>2. /\ m.started = x.started \cup Batch(l) /\ m.works = x.works /\ m.armed = x.armed
        /\ m.roc_list = x.roc_list /\ m.hw_roc = x.hw_roc
    BY <1>7, <1>9
  <2>3. Prefix(x.roc_list, m.started) /\ \A r \in Batch(l) : Contains(x.roc_list, r)
    BY <1>2, <1>12, <2>2
  <2> QED
    BY <1>3, <1>9, <1>10, <2>1, <2>2, <2>3, MarksGood
<1>14. SameScan(l, m)
  BY <1>1, <1>3, <1>13, SameScanTrans
<1>15. SoftEnd(m)
  BY <1>4, <1>7, <1>9 DEF SoftEnd, Queued
<1> QED
  BY <1>1, <1>4, <1>5, <1>7, <1>9, <1>12, <1>13, <1>14, <1>15 DEF m, RocFields

(* What a ROC that the driver accepts or refuses leaves. *)
LEMMA AcceptedIs ==
  ASSUME NEW l, Good(l), Fresh(l), driver.roc
  PROVE  /\ Good(Accepted(l)) /\ SameScan(l, Accepted(l))
         /\ Accepted(l).roc_list = l.roc_list /\ Accepted(l).started = l.started \cup Batch(l)
         /\ Accepted(l).hw_begun = l.hw_begun /\ Accepted(l).notified = l.notified
         /\ Accepted(l).works = l.works /\ Accepted(l).armed = l.armed
         /\ Accepted(l).hw_roc = "accepted"
         /\ Accepted(l).stopped = l.stopped /\ Accepted(l).tmp_channel = l.tmp_channel
<1> DEFINE m == Accepted(l)
<1>1. l \in LocalState /\ Listed(l)
  BY DEF Good
<1>2. Batch(l) \subseteq Rocs /\ \A r \in Batch(l) : Contains(l.roc_list, r)
  BY BatchIs
<1>3. m = [l EXCEPT !.hw_roc = "accepted", !.started = l.started \cup Batch(l)]
  BY DEF Accepted
<1> HIDE DEF m
<1>4. m \in LocalState
  BY <1>1, <1>2, <1>3 DEF LocalState
<1>5. ScanFields(l, m)
  BY <1>1, <1>3 DEF ScanFields, LocalState
<1>6. /\ m.roc_list = l.roc_list /\ m.started = l.started \cup Batch(l)
      /\ m.hw_begun = l.hw_begun /\ m.notified = l.notified
      /\ m.abort = l.abort /\ m.on_channel = l.on_channel /\ m.over = l.over
      /\ m.works = l.works /\ m.armed = l.armed /\ m.hw_roc = "accepted"
      /\ m.stopped = l.stopped /\ m.tmp_channel = l.tmp_channel
  BY <1>1, <1>3 DEF LocalState
<1>7. m.hw_begun \cup m.notified \cup m.abort \cup m.on_channel \cup m.over
        \subseteq l.started \cup Batch(l)
  BY <1>1, <1>6 DEF Listed
<1>8. Good(m) /\ SameScan(l, m)
  BY <1>2, <1>4, <1>5, <1>6, <1>7, MarksGood
<1> QED
  BY <1>6, <1>8 DEF m

LEMMA RefusedIs ==
  ASSUME NEW l, Good(l), Fresh(l), driver.roc
  PROVE  /\ Good(Refused(l)) /\ SameScan(l, Refused(l))
         /\ Refused(l).roc_list = l.roc_list /\ Refused(l).started = l.started \cup Batch(l)
         /\ Refused(l).hw_begun = l.hw_begun /\ Refused(l).notified = l.notified
         /\ Refused(l).works = l.works /\ Refused(l).armed = l.armed
         /\ Refused(l).hw_roc = l.hw_roc
         /\ Refused(l).stopped = l.stopped /\ Refused(l).tmp_channel = l.tmp_channel
<1> DEFINE m == Refused(l)
<1>1. l \in LocalState /\ Listed(l)
  BY DEF Good
<1>2. Batch(l) \subseteq Rocs /\ \A r \in Batch(l) : Contains(l.roc_list, r)
  BY BatchIs
<1>3. m = [l EXCEPT !.started = l.started \cup Batch(l), !.abort = l.abort \cup Batch(l)]
  BY DEF Refused
<1> HIDE DEF m
<1>4. m \in LocalState
  BY <1>1, <1>2, <1>3 DEF LocalState
<1>5. ScanFields(l, m)
  BY <1>1, <1>3 DEF ScanFields, LocalState
<1>6. /\ m.roc_list = l.roc_list /\ m.started = l.started \cup Batch(l)
      /\ m.hw_begun = l.hw_begun /\ m.notified = l.notified
      /\ m.abort = l.abort \cup Batch(l) /\ m.on_channel = l.on_channel /\ m.over = l.over
      /\ m.works = l.works /\ m.armed = l.armed /\ m.hw_roc = l.hw_roc
      /\ m.stopped = l.stopped /\ m.tmp_channel = l.tmp_channel
  BY <1>1, <1>3 DEF LocalState
<1>7. m.hw_begun \cup m.notified \cup m.abort \cup m.on_channel \cup m.over
        \subseteq l.started \cup Batch(l)
  BY <1>1, <1>6 DEF Listed
<1>8. Good(m) /\ SameScan(l, m)
  BY <1>2, <1>4, <1>5, <1>6, <1>7, MarksGood
<1> QED
  BY <1>6, <1>8 DEF m

LEMMA StartFirstGood ==
  ASSUME NEW l, Good(l), NEW m \in StartFirst(l)
  PROVE  /\ Good(m) /\ SameScan(l, m) /\ m.roc_list = l.roc_list
         /\ SoftEnd(l) \/ Fresh(l) => SoftEnd(m)
<1>1. CASE ~Fresh(l) /\ m = l
  BY <1>1 DEF SameScan, ScanFields
<1>2. CASE Fresh(l) /\ driver.roc /\ m = Accepted(l)
  BY <1>2, AcceptedIs DEF SoftEnd
<1>3. CASE Fresh(l) /\ driver.roc /\ m = QueueWork(Refused(l), "hw_roc_done")
  <2>1. Good(Refused(l)) /\ SameScan(l, Refused(l)) /\ Refused(l).roc_list = l.roc_list
    BY <1>3, RefusedIs
  <2>2. Good(m) /\ SameScan(Refused(l), m)
    BY <1>3, <2>1, QueueRocWork
  <2>3. m.roc_list = Refused(l).roc_list
    BY <1>3, <2>1, QueueWorkIs, OnlyWorksIs DEF Good, Works, RocFields
  <2> QED
    BY <1>3, <2>1, <2>2, <2>3, SameScanTrans DEF SoftEnd
<1>4. CASE Fresh(l) /\ ~driver.roc /\ m = Begun(l)
  BY <1>4, BegunIs
<1> QED
  BY <1>1, <1>2, <1>3, <1>4, StartFirstIs

LEMMA RunDeferredScanGood ==
  ASSUME NEW l, Good(l), NEW m \in RunDeferredScan(l)
  PROVE  /\ Good(m) /\ SameScan(l, m)
         /\ SoftEnd(l) => SoftEnd(m)
         /\ RocFields(l, m) /\ m.hw_roc = l.hw_roc
         /\ m.stopped = l.stopped /\ m.tmp_channel = l.tmp_channel
         /\ \A w : w # "scan_work" =>
              /\ Contains(m.works, w) <=> Contains(l.works, w)
              /\ w \in m.armed <=> w \in l.armed
         /\ StartFirstThenDone(l.works) => StartFirstThenDone(m.works)
<1>1. l \in LocalState /\ "scan_work" \in Works
  BY DEF Good, Works
<1>2. \/ m = l
      \/ l.scan_req # NoRequest /\ l.scanning = {} /\ m = QueueWork(l, "scan_work")
      \/ /\ l.scan_req # NoRequest /\ l.scanning = {} /\ CanScan(l, l.scan_req)
         /\ "delay" \in driver.events /\ m = QueueLater(l, "scan_work")
  BY DEF RunDeferredScan
<1>3. CASE m = l
  BY <1>3 DEF SameScan, ScanFields, RocFields
<1>4. CASE l.scan_req # NoRequest /\ l.scanning = {} /\ m = QueueWork(l, "scan_work")
  <2>1. /\ OnlyWorks(l, m) /\ m.armed = l.armed \ {"scan_work"}
        /\ \A v : Contains(m.works, v) <=> Contains(l.works, v) \/ v = "scan_work"
        /\ StartFirstThenDone(l.works) => StartFirstThenDone(m.works)
    BY <1>1, <1>4, QueueWorkIs
  <2>2. Good(m) /\ ScanFields(l, m) /\ (SoftEnd(l) => SoftEnd(m))
    BY <1>4, QueueScanWork
  <2>3. /\ RocFields(l, m) /\ m.hw_roc = l.hw_roc
        /\ m.stopped = l.stopped /\ m.tmp_channel = l.tmp_channel
    BY <1>1, <2>1, OnlyWorksIs
  <2>4. Good(m)
    BY <1>4, QueueScanWork
  <2>5. SameScan(l, m)
    BY <1>4, <2>1, <2>2, <2>4, QueueScanWork DEF SameScan
  <2> QED
    BY <2>1, <2>2, <2>3, <2>4, <2>5
<1>5. CASE /\ l.scan_req # NoRequest /\ l.scanning = {} /\ CanScan(l, l.scan_req)
           /\ "delay" \in driver.events /\ m = QueueLater(l, "scan_work")
  <2>1. OnlyWorks(l, m) /\ m.works = l.works /\ m.armed = l.armed \cup {"scan_work"}
    BY <1>1, <1>5, QueueLaterIs
  <2>2. Good(m) /\ ScanFields(l, m) /\ (SoftEnd(l) => SoftEnd(m))
    BY <1>5, QueueScanLater
  <2>3. /\ RocFields(l, m) /\ m.hw_roc = l.hw_roc
        /\ m.stopped = l.stopped /\ m.tmp_channel = l.tmp_channel
    BY <1>1, <2>1, OnlyWorksIs
  <2>4. ~(Calm /\ driver.scan)
    BY <1>5 DEF Calm
  <2>5. SameScan(l, m)
    BY <1>5, <2>1, <2>2, <2>4 DEF SameScan
  <2> QED
    BY <2>1, <2>2, <2>3, <2>5
<1> QED
  BY <1>2, <1>3, <1>4, <1>5

LEMMA StartNextRocGood ==
  ASSUME NEW l, Good(l), NEW m \in StartNextRoc(l)
  PROVE  /\ Good(m) /\ SameScan(l, m) /\ m.roc_list = l.roc_list
         /\ SoftEnd(l) => SoftEnd(m)
<1>1. \/ m \in RunDeferredScan(l)
      \/ m = l
      \/ m \in StartFirst(l)
      \/ ~driver.roc /\ m = QueueLater(l, "roc_work")
  BY DEF StartNextRoc
<1>2. CASE m \in RunDeferredScan(l)
  BY <1>2, RunDeferredScanGood DEF RocFields
<1>3. CASE m = l
  BY <1>3 DEF SameScan, ScanFields
<1>4. CASE m \in StartFirst(l)
  BY <1>4, StartFirstGood
<1>5. CASE ~driver.roc /\ m = QueueLater(l, "roc_work")
  <2>1. Good(m) /\ SameScan(l, m) /\ SoftEnd(m)
    BY <1>5, QueueRocLater
  <2>2. m.roc_list = l.roc_list
    BY <1>5, QueueLaterIs, OnlyWorksIs DEF Good, Works, RocFields
  <2> QED
    BY <2>1, <2>2
<1> QED
  BY <1>1, <1>2, <1>3, <1>4, <1>5

(* The radio comes back; the driver has or has not a ROC. *)
LEMMA HomeGood ==
  ASSUME NEW l, Good(l)
  PROVE  LET m == OffchannelReturn([l EXCEPT !.tmp_channel = NoChan])
         IN  /\ Good(m) /\ SameScan(l, m) /\ RocFields(l, m)
             /\ m.works = l.works /\ m.armed = l.armed /\ m.hw_roc = l.hw_roc
             /\ m.tmp_channel = NoChan /\ ~m.stopped
<1> DEFINE m == OffchannelReturn([l EXCEPT !.tmp_channel = NoChan])
<1>1. l \in LocalState
  BY DEF Good
<1>2. m = [l EXCEPT !.tmp_channel = NoChan, !.stopped = FALSE]
  BY <1>1 DEF OffchannelReturn, LocalState
<1> HIDE DEF m
<1>3. m \in LocalState
  BY <1>1, <1>2 DEF LocalState
<1>4. ScanFields(l, m) /\ RocFields(l, m)
  BY <1>1, <1>2 DEF ScanFields, RocFields, LocalState
<1>5. /\ m.works = l.works /\ m.armed = l.armed /\ m.hw_roc = l.hw_roc
      /\ m.tmp_channel = NoChan /\ ~m.stopped
  BY <1>1, <1>2 DEF LocalState
<1>6. Good(m) /\ SameScan(l, m)
  BY <1>3, <1>4, <1>5 DEF Good, Listed, OwnWorks, Queued, RocFields, SameScan
<1> QED
  BY <1>4, <1>5, <1>6 DEF m

LEMMA HwRocGood ==
  ASSUME NEW l, Good(l), NEW v \in {"idle", "accepted", "begun"}, driver.roc \/ v = "idle"
  PROVE  LET m == [l EXCEPT !.hw_roc = v]
         IN  /\ Good(m) /\ SameScan(l, m) /\ RocFields(l, m) /\ (SoftEnd(l) => SoftEnd(m))
             /\ m.works = l.works /\ m.armed = l.armed /\ m.hw_roc = v
             /\ m.tmp_channel = l.tmp_channel /\ m.stopped = l.stopped
<1> DEFINE m == [l EXCEPT !.hw_roc = v]
<1>1. l \in LocalState
  BY DEF Good
<1>2. m \in LocalState
  BY <1>1 DEF LocalState
<1>3. ScanFields(l, m) /\ RocFields(l, m)
  BY <1>1 DEF ScanFields, RocFields, LocalState
<1>4. /\ m.works = l.works /\ m.armed = l.armed /\ m.hw_roc = v
      /\ m.tmp_channel = l.tmp_channel /\ m.stopped = l.stopped
  BY <1>1 DEF LocalState
<1> HIDE DEF m
<1>5. Good(m) /\ SameScan(l, m) /\ (SoftEnd(l) => SoftEnd(m))
  BY <1>2, <1>3, <1>4 DEF Good, Listed, OwnWorks, Queued, RocFields, SameScan, SoftEnd
<1> QED
  BY <1>3, <1>4, <1>5 DEF m

LEMMA RocWorkGood ==
  ASSUME NEW l, Good(l), ~driver.roc, NEW m \in RocWork(l)
  PROVE  Good(m) /\ SameScan(l, m) /\ SoftEnd(m)
<1> DEFINE x    == RecalcSwWork(l)
           back == OffchannelReturn([x EXCEPT !.tmp_channel = NoChan])
<1>1. \/ l.roc_list = <<>> /\ m = l
      \/ Fresh(l) /\ m \in StartFirst(l)
      \/ m = x
      \/ m \in StartNextRoc(x)
      \/ m \in StartNextRoc(back)
  BY DEF RocWork, Fresh
<1>2. Good(x) /\ SameScan(l, x) /\ SoftEnd(x)
  BY RecalcGood
<1> HIDE DEF x
<1>3. Good(back) /\ SameScan(x, back) /\ SoftEnd(back)
  BY <1>2, HomeGood DEF SoftEnd, Queued, RocFields
<1> HIDE DEF back
<1>4. CASE l.roc_list = <<>> /\ m = l
  <2>1. \A r : ~Contains(l.roc_list, r)
    BY <1>4, EmptyIs DEF Good, LocalState
  <2>2. l.started = {}
    BY <2>1 DEF Good, Listed
  <2> QED
    BY <1>4, <2>2 DEF SoftEnd, SameScan, ScanFields
<1>5. CASE Fresh(l) /\ m \in StartFirst(l)
  BY <1>5, StartFirstGood
<1>6. CASE m = x
  BY <1>2, <1>6
<1>7. CASE m \in StartNextRoc(x)
  BY <1>2, <1>7, StartNextRocGood, SameScanTrans
<1>8. CASE m \in StartNextRoc(back)
  <2>1. Good(m) /\ SameScan(back, m) /\ SoftEnd(m)
    BY <1>3, <1>8, StartNextRocGood
  <2> QED
    BY <1>2, <1>3, <2>1, SameScanTrans
<1> QED
  BY <1>1, <1>4, <1>5, <1>6, <1>7, <1>8

LEMMA HwRocDoneGood ==
  ASSUME NEW l, Good(l), NEW m \in HwRocDone(l)
  PROVE  Good(m) /\ SameScan(l, m) /\ (SoftEnd(l) => SoftEnd(m))
<1> DEFINE x == EndFinished(l)
<1>1. Good(x) /\ SameScan(l, x) /\ (SoftEnd(l) => SoftEnd(x))
  BY DestroyGood DEF EndFinished
<1>2. m \in StartNextRoc(x)
  BY DEF HwRocDone
<1> HIDE DEF x
<1>3. Good(m) /\ SameScan(x, m) /\ (SoftEnd(x) => SoftEnd(m))
  BY <1>1, <1>2, StartNextRocGood
<1> QED
  BY <1>1, <1>3, SameScanTrans

LEMMA HwRocStartGood ==
  ASSUME NEW l, Good(l), driver.roc
  PROVE  LET m == HwRocStart(l)
         IN  /\ Good(m) /\ SameScan(l, m) /\ SoftEnd(m)
             /\ m.roc_list = l.roc_list /\ m.started = l.started
             /\ m.hw_begun = l.hw_begun \cup StartedFront(l)
             /\ m.notified = l.notified \cup StartedFront(l)
             /\ m.works = l.works /\ m.armed = l.armed /\ m.hw_roc = l.hw_roc
             /\ m.tmp_channel = l.tmp_channel /\ m.stopped = l.stopped
<1> DEFINE m  == HwRocStart(l)
           sf == StartedFront(l)
<1>1. l \in LocalState /\ Listed(l)
  BY DEF Good
<1>2. sf \subseteq l.started /\ (\A r \in sf : Contains(l.roc_list, r)) /\ sf \subseteq Rocs
  BY <1>1, FrontStarted DEF LocalState
<1>3. m = [l EXCEPT !.hw_begun = l.hw_begun \cup sf, !.started = l.started \cup sf,
                    !.notified = l.notified \cup sf]
  BY <1>1 DEF HwRocStart, HandleStarted, LocalState
<1> HIDE DEF m, sf
<1>4. m \in LocalState
  BY <1>1, <1>2, <1>3 DEF LocalState
<1>5. ScanFields(l, m)
  BY <1>1, <1>3 DEF ScanFields, LocalState
<1>6. /\ m.roc_list = l.roc_list /\ m.started = l.started \cup sf
      /\ m.hw_begun = l.hw_begun \cup sf /\ m.notified = l.notified \cup sf
      /\ m.abort = l.abort /\ m.on_channel = l.on_channel /\ m.over = l.over
      /\ m.works = l.works /\ m.armed = l.armed /\ m.hw_roc = l.hw_roc
      /\ m.tmp_channel = l.tmp_channel /\ m.stopped = l.stopped
  BY <1>1, <1>3 DEF LocalState
<1>7. m.hw_begun \cup m.notified \cup m.abort \cup m.on_channel \cup m.over
        \subseteq l.started \cup sf
  BY <1>1, <1>6 DEF Listed
<1>8. Good(m) /\ SameScan(l, m)
  BY <1>2, <1>4, <1>5, <1>6, <1>7, MarksGood
<1>9. m.started = l.started
  BY <1>2, <1>6
<1> QED
  BY <1>6, <1>8, <1>9 DEF m, sf, SoftEnd

-----------------------------------------------------------------------------
(* A new ROC. *)

(* The list gets one entry more, which may have started. *)
LEMMA JoinGood ==
  ASSUME NEW l, Good(l), NEW m \in LocalState, ScanFields(l, m),
         m.works = l.works, m.armed = l.armed,
         NoDup(m.roc_list),
         NEW r, \A v : Contains(m.roc_list, v) <=> Contains(l.roc_list, v) \/ v = r,
         m.started = l.started \/ m.started = l.started \cup {r},
         m.hw_begun \cup m.notified \cup m.abort \cup m.on_channel \cup m.over
           \subseteq m.started,
         ~driver.roc => m.hw_roc = l.hw_roc /\ Prefix(m.roc_list, m.started)
  PROVE  Good(m) /\ SameScan(l, m)
<1>1. Listed(l) /\ OwnWorks(l)
  BY DEF Good
<1>2. Listed(m)
  BY <1>1 DEF Listed
<1>3. OwnWorks(m)
  BY <1>1 DEF OwnWorks, Queued
<1> QED
  BY <1>2, <1>3 DEF Good, SameScan

(* The marks of a ROC that joins another. *)
Marks(l, r, hw, on) ==
  [l EXCEPT !.started = @ \cup {r}, !.notified = @ \cup {r},
            !.hw_begun = @ \cup hw, !.on_channel = @ \cup on]

(* A ROC has joined the one at position i, with the marks hw and on. *)
Joined(l, r, i, hw, on, m) ==
  /\ Good(m) /\ SameScan(l, m)
  /\ \A v : Contains(m.roc_list, v) <=> Contains(l.roc_list, v) \/ v = r
  /\ m.started = l.started \cup {r} /\ m.notified = l.notified \cup {r}
  /\ m.hw_begun = l.hw_begun \cup hw /\ m.on_channel = l.on_channel \cup on
  /\ m.abort = l.abort /\ m.over = l.over /\ m.works = l.works /\ m.armed = l.armed
  /\ m.hw_roc = l.hw_roc /\ m.tmp_channel = l.tmp_channel /\ m.stopped = l.stopped
  /\ \A some : Prefix(l.roc_list, some) /\ l.roc_list[i] \in some
                 => Prefix(m.roc_list, some \cup {r})

LEMMA JoinedIs ==
  ASSUME NEW l, Good(l), NEW r \in Rocs, ~Contains(l.roc_list, r),
         NEW i \in DOMAIN l.roc_list, l.roc_list[i] \in l.started,
         NEW hw, hw \subseteq {r}, NEW on, on \subseteq {r}
  PROVE  Joined(l, r, i, hw, on, Marks(InsertAfter(l, r, i), r, hw, on))
<1> DEFINE m == Marks(InsertAfter(l, r, i), r, hw, on)
           q == InsertAt(l.roc_list, i + 1, r)
<1>1. l \in LocalState /\ Listed(l) /\ OwnWorks(l)
  BY DEF Good
<1>2. l.roc_list \in Seq(Rocs) /\ i \in 1 .. Len(l.roc_list)
  BY <1>1 DEF LocalState
<1>3. /\ q \in Seq(Rocs)
      /\ \A v : Contains(q, v) <=> Contains(l.roc_list, v) \/ v = r
      /\ NoDup(q)
      /\ \A some : Prefix(l.roc_list, some) /\ l.roc_list[i] \in some => Prefix(q, some \cup {r})
  <2>1. NoDup(l.roc_list)
    BY <1>1 DEF Listed
  <2> HIDE DEF q
  <2> QED
    BY <1>2, <2>1, InsertIs DEF q
<1> HIDE DEF q
<1>4. InsertAfter(l, r, i) = [l EXCEPT !.roc_list = q]
  BY DEF InsertAfter, q
<1>5. m = [l EXCEPT !.roc_list = q, !.started = l.started \cup {r},
                    !.notified = l.notified \cup {r}, !.hw_begun = l.hw_begun \cup hw,
                    !.on_channel = l.on_channel \cup on]
  BY <1>1, <1>4 DEF Marks, LocalState
<1> HIDE DEF m
<1>6. m \in LocalState
  BY <1>1, <1>3, <1>5, ZenonT(60) DEF LocalState
<1>7. ScanFields(l, m)
  BY <1>1, <1>5 DEF ScanFields, LocalState
<1>8. /\ m.roc_list = q
      /\ m.started = l.started \cup {r} /\ m.notified = l.notified \cup {r}
      /\ m.hw_begun = l.hw_begun \cup hw /\ m.on_channel = l.on_channel \cup on
      /\ m.abort = l.abort /\ m.over = l.over /\ m.works = l.works /\ m.armed = l.armed
      /\ m.hw_roc = l.hw_roc /\ m.tmp_channel = l.tmp_channel /\ m.stopped = l.stopped
  BY <1>1, <1>5 DEF LocalState
<1>9. m.hw_begun \cup m.notified \cup m.abort \cup m.on_channel \cup m.over \subseteq m.started
  BY <1>1, <1>8 DEF Listed
<1>10. ~driver.roc => m.hw_roc = l.hw_roc /\ Prefix(m.roc_list, m.started)
  BY <1>1, <1>3, <1>8 DEF OwnWorks
<1>11. NoDup(m.roc_list) /\ \A v : Contains(m.roc_list, v) <=> Contains(l.roc_list, v) \/ v = r
  BY <1>3, <1>8
<1>12. Good(m) /\ SameScan(l, m)
  BY <1>6, <1>7, <1>8, <1>9, <1>10, <1>11, JoinGood
<1> QED
  BY <1>3, <1>8, <1>11, <1>12 DEF Joined, m

(* Behind a ROC that has not started, or in hardware not begun. *)
Longer(l, r, m, q) ==
  /\ m = [l EXCEPT !.roc_list = q]
  /\ \A v : Contains(q, v) <=> Contains(l.roc_list, v) \/ v = r
  /\ NoDup(q)
  /\ driver.roc \/ Prefix(q, l.started)

(* It waits there. *)
Waits(l, r, m) ==
  /\ Good(m) /\ SameScan(l, m) /\ (SoftEnd(l) => SoftEnd(m))
  /\ \A v : Contains(m.roc_list, v) <=> Contains(l.roc_list, v) \/ v = r
  /\ m.started = l.started /\ m.notified = l.notified
  /\ m.hw_begun = l.hw_begun /\ m.on_channel = l.on_channel
  /\ m.abort = l.abort /\ m.over = l.over /\ m.works = l.works /\ m.armed = l.armed
  /\ m.hw_roc = l.hw_roc /\ m.tmp_channel = l.tmp_channel /\ m.stopped = l.stopped

LEMMA WaitsGood ==
  ASSUME NEW l, Good(l), NEW r \in Rocs, ~Contains(l.roc_list, r),
         NEW m, \/ m = [l EXCEPT !.roc_list = Append(@, r)]
                \/ \E i \in DOMAIN l.roc_list :
                     m = InsertAfter(l, r, i) /\ (driver.roc \/ l.roc_list[i] \notin l.started)
  PROVE  Waits(l, r, m)
<1>1. l \in LocalState /\ Listed(l) /\ OwnWorks(l)
  BY DEF Good
<1>2. l.roc_list \in Seq(Rocs)
  BY <1>1 DEF LocalState
<1>3. \E q \in Seq(Rocs) : Longer(l, r, m, q)
  <2>1. r \notin l.started
    BY <1>1 DEF Listed
  <2>2. CASE m = [l EXCEPT !.roc_list = Append(@, r)]
    <3>1. /\ Append(l.roc_list, r) \in Seq(Rocs)
          /\ \A v : Contains(Append(l.roc_list, r), v) <=> Contains(l.roc_list, v) \/ v = r
          /\ NoDup(Append(l.roc_list, r))
          /\ \A some : Prefix(l.roc_list, some) /\ r \notin some => Prefix(Append(l.roc_list, r), some)
      BY <1>1, <1>2, AppendIs DEF Listed
    <3>2. driver.roc \/ Prefix(Append(l.roc_list, r), l.started)
      BY <1>1, <2>1, <3>1 DEF OwnWorks
    <3>3. m = [l EXCEPT !.roc_list = Append(l.roc_list, r)]
      BY <2>2
    <3> QED
      BY <3>1, <3>2, <3>3 DEF Longer
  <2>3. ASSUME NEW i \in DOMAIN l.roc_list, m = InsertAfter(l, r, i),
               driver.roc \/ l.roc_list[i] \notin l.started
        PROVE  \E q \in Seq(Rocs) : Longer(l, r, m, q)
    <3>1. i \in 1 .. Len(l.roc_list)
      BY <1>2
    <3> DEFINE q == InsertAt(l.roc_list, i + 1, r)
    <3>2. /\ q \in Seq(Rocs)
          /\ \A v : Contains(q, v) <=> Contains(l.roc_list, v) \/ v = r
          /\ NoDup(q)
          /\ \A some : Prefix(l.roc_list, some) /\ l.roc_list[i] \notin some /\ r \notin some
                         => Prefix(q, some)
      BY <1>1, <1>2, <3>1, InsertIs DEF Listed
    <3>3. m = [l EXCEPT !.roc_list = q]
      BY <2>3 DEF InsertAfter
    <3> HIDE DEF q
    <3>4. driver.roc \/ Prefix(q, l.started)
      BY <1>1, <2>1, <2>3, <3>2 DEF OwnWorks
    <3> QED
      BY <3>2, <3>3, <3>4 DEF Longer
  <2> QED
    BY <2>2, <2>3
<1>4. PICK q \in Seq(Rocs) : Longer(l, r, m, q)
  BY <1>3
<1>5. m \in LocalState
  BY <1>1, <1>4 DEF LocalState, Longer
<1>6. ScanFields(l, m)
  BY <1>1, <1>4 DEF ScanFields, LocalState, Longer
<1>7. /\ m.roc_list = q /\ m.started = l.started /\ m.notified = l.notified
      /\ m.hw_begun = l.hw_begun /\ m.on_channel = l.on_channel
      /\ m.abort = l.abort /\ m.over = l.over /\ m.works = l.works /\ m.armed = l.armed
      /\ m.hw_roc = l.hw_roc /\ m.tmp_channel = l.tmp_channel /\ m.stopped = l.stopped
  BY <1>1, <1>4 DEF LocalState, Longer
<1>8. m.hw_begun \cup m.notified \cup m.abort \cup m.on_channel \cup m.over \subseteq m.started
  BY <1>1, <1>7 DEF Listed
<1>9. ~driver.roc => m.hw_roc = l.hw_roc /\ Prefix(m.roc_list, m.started)
  BY <1>4, <1>7 DEF Longer
<1>10. NoDup(m.roc_list) /\ \A v : Contains(m.roc_list, v) <=> Contains(l.roc_list, v) \/ v = r
  BY <1>4, <1>7 DEF Longer
<1>11. Good(m) /\ SameScan(l, m)
  BY <1>5, <1>6, <1>7, <1>8, <1>9, <1>10, JoinGood
<1>12. SoftEnd(l) => SoftEnd(m)
  BY <1>7 DEF SoftEnd, Queued
<1> QED
  BY <1>7, <1>10, <1>11, <1>12 DEF Waits

(* What a ROC that joins one that has started leaves. *)
LEMMA CombineIs ==
  ASSUME NEW l, Good(l), NEW r \in Rocs, NEW i \in DOMAIN l.roc_list
  PROVE  LET on == IF l.roc_list[i] \in l.on_channel THEN {r} ELSE {}
         IN  Combine(l, r, i) =
               IF ~driver.roc THEN RecalcSwWork(Marks(InsertAfter(l, r, i), r, {}, on))
               ELSE IF l.roc_list[i] \in l.hw_begun
               THEN Marks(InsertAfter(l, r, i), r, {r}, {})
               ELSE InsertAfter(l, r, i)
<1> DEFINE x  == InsertAfter(l, r, i)
           on == IF l.roc_list[i] \in l.on_channel THEN {r} ELSE {}
<1>1. /\ DOMAIN l = DOMAIN x /\ l \in LocalState
      /\ {"started", "notified", "hw_begun", "on_channel"} \subseteq DOMAIN x
      /\ x = [a \in DOMAIN x |-> x[a]]
  BY DEF Good, InsertAfter, LocalState
<1>2. HandleStarted([x EXCEPT !.on_channel = @ \cup on], {r}) = Marks(x, r, {}, on)
  <2> HIDE DEF x, on
  <2> QED
    BY <1>1 DEF HandleStarted, Marks
<1>3. HandleStarted([x EXCEPT !.hw_begun = @ \cup {r}], {r}) = Marks(x, r, {r}, {})
  <2> HIDE DEF x
  <2> QED
    BY <1>1 DEF HandleStarted, Marks
<1> QED
  BY <1>2, <1>3 DEF Combine

LEMMA CombineGood ==
  ASSUME NEW l, Good(l), SoftEnd(l), NEW r \in Rocs, ~Contains(l.roc_list, r),
         NEW i \in DOMAIN l.roc_list, l.roc_list[i] \in l.started
  PROVE  Good(Combine(l, r, i)) /\ SameScan(l, Combine(l, r, i)) /\ SoftEnd(Combine(l, r, i))
<1> DEFINE on == IF l.roc_list[i] \in l.on_channel THEN {r} ELSE {}
           x  == Marks(InsertAfter(l, r, i), r, {}, on)
           y  == Marks(InsertAfter(l, r, i), r, {r}, {})
           z  == InsertAfter(l, r, i)
           m  == Combine(l, r, i)
<1>1. m = IF ~driver.roc THEN RecalcSwWork(x) ELSE IF l.roc_list[i] \in l.hw_begun THEN y ELSE z
  BY CombineIs
<1>2. Good(x) /\ SameScan(l, x)
  <2>1. on \subseteq {r}
    OBVIOUS
  <2> HIDE DEF on
  <2>2. Joined(l, r, i, {}, on, x)
    BY <2>1, JoinedIs
  <2> QED
    BY <2>2 DEF Joined
<1>3. Good(y) /\ SameScan(l, y)
  <2>1. Joined(l, r, i, {r}, {}, y)
    BY JoinedIs
  <2> QED
    BY <2>1 DEF Joined
<1>4. driver.roc => Good(z) /\ SameScan(l, z)
  <2>1. driver.roc => Waits(l, r, z)
    BY WaitsGood
  <2> QED
    BY <2>1 DEF Waits
<1> HIDE DEF m, x, y, z
<1>5. CASE ~driver.roc
  <2>1. Good(m) /\ SameScan(x, m) /\ SoftEnd(m)
    BY <1>1, <1>2, <1>5, RecalcGood
  <2> QED
    BY <1>2, <2>1, SameScanTrans DEF m
<1>6. CASE driver.roc
  BY <1>1, <1>3, <1>4, <1>6 DEF SoftEnd, m
<1> QED
  BY <1>5, <1>6

(* Where a ROC is put on a list that is not empty. *)
LEMMA QueueRocIs ==
  ASSUME NEW l, l \in LocalState, NEW r \in Rocs, NEW m \in QueueRoc(l, r)
  PROVE  \/ m = [l EXCEPT !.roc_list = Append(@, r)]
         \/ \E i \in DOMAIN l.roc_list :
              \/ m = InsertAfter(l, r, i) /\ l.roc_list[i] \notin l.started
              \/ m = Combine(l, r, i) /\ l.roc_list[i] \in l.started
<1> DEFINE same    == {i \in DOMAIN l.roc_list : SameTarget(l.roc_list[i], r)}
           waiting == {i \in same : l.roc_list[i] \notin l.started}
           first(S) == CHOOSE i \in S : \A j \in S : i <= j
           apart   == IF waiting = {} THEN [l EXCEPT !.roc_list = Append(@, r)]
                      ELSE InsertAfter(l, r, first(waiting))
<1>1. m \in {apart} \cup {Combine(l, r, i) : i \in {j \in same \ waiting : j = first(same)}}
  BY DEF QueueRoc
<1>2. ASSUME waiting # {} PROVE first(waiting) \in waiting
  <2>1. waiting \subseteq Nat
    BY DEF LocalState
  <2> HIDE DEF waiting
  <2>2. \E i \in waiting : \A j \in waiting : i <= j
    BY <1>2, <2>1, LeastElement
  <2> QED
    BY <2>2
<1>3. CASE m = apart
  BY <1>2, <1>3
<1>4. ASSUME NEW i \in same \ waiting, m = Combine(l, r, i)
      PROVE  m = Combine(l, r, i) /\ l.roc_list[i] \in l.started /\ i \in DOMAIN l.roc_list
  BY <1>4
<1> QED
  BY <1>1, <1>3, <1>4

LEMMA QueueRocGood ==
  ASSUME NEW l, Good(l), SoftEnd(l), NEW r \in Rocs, ~Contains(l.roc_list, r),
         NEW m \in QueueRoc(l, r)
  PROVE  Good(m) /\ SameScan(l, m) /\ SoftEnd(m)
<1>1. l \in LocalState
  BY DEF Good
<1>2. CASE m = [l EXCEPT !.roc_list = Append(@, r)]
  <2>1. Waits(l, r, m)
    BY <1>2, WaitsGood
  <2> QED
    BY <2>1 DEF Waits
<1>3. ASSUME NEW i \in DOMAIN l.roc_list, m = InsertAfter(l, r, i), l.roc_list[i] \notin l.started
      PROVE  Good(m) /\ SameScan(l, m) /\ SoftEnd(m)
  <2>1. Waits(l, r, m)
    BY <1>3, WaitsGood
  <2> QED
    BY <2>1 DEF Waits
<1>4. ASSUME NEW i \in DOMAIN l.roc_list, m = Combine(l, r, i), l.roc_list[i] \in l.started
      PROVE  Good(m) /\ SameScan(l, m) /\ SoftEnd(m)
  BY <1>4, CombineGood
<1> QED
  BY <1>1, <1>2, <1>3, <1>4, QueueRocIs

(* A ROC that nothing is in the way of. *)
OnlyRoc(l, r, rs, v, m) ==
  /\ Good(m) /\ SameScan(l, m) /\ SoftEnd(m)
  /\ m.roc_list = <<r>> /\ Contains(m.roc_list, r) /\ m.started = rs
  /\ m.hw_begun = {} /\ m.notified = {} /\ l.started = {}
  /\ m.works = l.works /\ m.armed = l.armed /\ m.hw_roc = v
  /\ m.tmp_channel = l.tmp_channel /\ m.stopped = l.stopped

LEMMA FirstRocGood ==
  ASSUME NEW l, Good(l), NEW r \in Rocs, l.roc_list = <<>>,
         NEW rs, rs \subseteq {r}, NEW v \in {"idle", "accepted", "begun"},
         driver.roc \/ (rs = {} /\ v = l.hw_roc)
  PROVE  OnlyRoc(l, r, rs, v, [l EXCEPT !.roc_list = <<r>>, !.started = rs, !.hw_roc = v])
<1> DEFINE m == [l EXCEPT !.roc_list = <<r>>, !.started = rs, !.hw_roc = v]
<1>1. l \in LocalState /\ Listed(l)
  BY DEF Good
<1>2. m \in LocalState
  <2>1. <<r>> \in Seq(Rocs) /\ rs \in SUBSET Rocs
    OBVIOUS
  <2> QED
    BY <1>1, <2>1 DEF LocalState
<1>3. ScanFields(l, m)
  BY <1>1 DEF ScanFields, LocalState
<1>4. /\ m.roc_list = <<r>> /\ m.started = rs /\ m.hw_roc = v
      /\ m.hw_begun = l.hw_begun /\ m.notified = l.notified /\ m.abort = l.abort
      /\ m.on_channel = l.on_channel /\ m.over = l.over
      /\ m.works = l.works /\ m.armed = l.armed
      /\ m.tmp_channel = l.tmp_channel /\ m.stopped = l.stopped
  BY <1>1 DEF LocalState
<1> HIDE DEF m
<1>5. \A w : ~Contains(l.roc_list, w)
  BY <1>1, EmptyIs DEF LocalState
<1>6. l.started = {}
  BY <1>1, <1>5 DEF Listed
<1>7. l.hw_begun \cup l.notified \cup l.abort \cup l.on_channel \cup l.over = {}
  BY <1>1, <1>6 DEF Listed
<1>8. Len(m.roc_list) = 1 /\ m.roc_list[1] = r
  BY <1>4
<1>9. \A w : Contains(m.roc_list, w) <=> w = r
  BY <1>8 DEF Contains
<1>10. NoDup(m.roc_list) /\ Prefix(m.roc_list, {})
  BY <1>8 DEF NoDup, Prefix
<1>11. Good(m) /\ SameScan(l, m)
  <2>1. m.hw_begun \cup m.notified \cup m.abort \cup m.on_channel \cup m.over \subseteq m.started
    BY <1>4, <1>7
  <2>2. \A w : Contains(m.roc_list, w) <=> Contains(l.roc_list, w) \/ w = r
    BY <1>5, <1>9
  <2>3. m.started = l.started \/ m.started = l.started \cup {r}
    BY <1>4, <1>6
  <2>4. ~driver.roc => m.hw_roc = l.hw_roc /\ Prefix(m.roc_list, m.started)
    BY <1>4, <1>10
  <2> QED
    BY <1>2, <1>3, <1>4, <1>10, <2>1, <2>2, <2>3, <2>4, JoinGood
<1>12. SoftEnd(m)
  BY <1>4 DEF SoftEnd
<1>13. m.hw_begun = {} /\ m.notified = {}
  BY <1>4, <1>7
<1> QED
  BY <1>4, <1>6, <1>9, <1>11, <1>12, <1>13 DEF m, OnlyRoc

LEMMA StartRocIs ==
  ASSUME NEW l, Good(l), NEW r \in Rocs, NEW m \in StartRoc(l, r)
  PROVE  \/ /\ l.roc_list = <<>> /\ l.scanning = {} /\ ~driver.roc
            /\ m = QueueWork([l EXCEPT !.roc_list = <<r>>, !.started = {}, !.hw_roc = l.hw_roc],
                             "roc_work")
         \/ /\ l.roc_list = <<>> /\ l.scanning = {} /\ driver.roc
            /\ l.hw_roc = "idle" /\ ~l.in_reconfig
            /\ m = [l EXCEPT !.roc_list = <<r>>, !.started = {r}, !.hw_roc = "accepted"]
         \/ ~(l.roc_list = <<>> /\ l.scanning = {}) /\ m \in QueueRoc(l, r)
<1>1. l \in LocalState /\ Listed(l)
  BY DEF Good
<1>2. CASE l.roc_list = <<>> /\ l.scanning = {} /\ ~driver.roc
  <2>1. \A w : ~Contains(l.roc_list, w)
    BY <1>1, <1>2, EmptyIs DEF LocalState
  <2>2. l.started = {}
    BY <1>1, <2>1 DEF Listed
  <2>3. [l EXCEPT !.roc_list = <<r>>] = [l EXCEPT !.roc_list = <<r>>, !.started = {}, !.hw_roc = l.hw_roc]
    BY <1>1, <2>2 DEF LocalState
  <2> QED
    BY <1>2, <2>3 DEF StartRoc
<1>3. CASE l.roc_list = <<>> /\ l.scanning = {} /\ driver.roc
  <2>1. PICK a \in DriverAccepts(l) : m = [a EXCEPT !.roc_list = <<r>>, !.started = {r}]
    BY <1>3 DEF StartRoc
  <2>2. l.hw_roc = "idle" /\ ~l.in_reconfig /\ a = [l EXCEPT !.hw_roc = "accepted"]
    BY DEF DriverAccepts
  <2>3. m = [l EXCEPT !.roc_list = <<r>>, !.started = {r}, !.hw_roc = "accepted"]
    BY <1>1, <2>1, <2>2 DEF LocalState
  <2> QED
    BY <1>3, <2>2, <2>3
<1>4. CASE ~(l.roc_list = <<>> /\ l.scanning = {})
  BY <1>4 DEF StartRoc
<1> QED
  BY <1>2, <1>3, <1>4

LEMMA StartRocGood ==
  ASSUME NEW l, Good(l), SoftEnd(l), NEW r \in Rocs, ~Contains(l.roc_list, r),
         NEW m \in StartRoc(l, r)
  PROVE  Good(m) /\ SameScan(l, m) /\ SoftEnd(m)
<1>1. l.hw_roc \in {"idle", "accepted", "begun"}
  BY DEF Good, LocalState
<1>2. CASE /\ l.roc_list = <<>> /\ l.scanning = {} /\ ~driver.roc
           /\ m = QueueWork([l EXCEPT !.roc_list = <<r>>, !.started = {}, !.hw_roc = l.hw_roc],
                            "roc_work")
  <2> DEFINE x == [l EXCEPT !.roc_list = <<r>>, !.started = {}, !.hw_roc = l.hw_roc]
  <2>0. OnlyRoc(l, r, {}, l.hw_roc, x)
    BY <1>1, <1>2, FirstRocGood, ZenonT(60)
  <2> HIDE DEF x
  <2>1. Good(x) /\ SameScan(l, x)
    BY <2>0 DEF OnlyRoc
  <2>5. x \in LocalState
    BY <2>1 DEF Good
  <2>2. m = QueueWork(x, "roc_work")
    BY <1>2 DEF x
  <2>3. Good(m) /\ SameScan(x, m)
    BY <1>2, <2>1, <2>2, QueueRocWork
  <2>4. Contains(m.works, "roc_work")
    BY <2>5, <2>2, QueueWorkIs DEF Works
  <2> QED
    BY <2>1, <2>3, <2>4, SameScanTrans DEF SoftEnd, Queued
<1>3. CASE /\ l.roc_list = <<>> /\ l.scanning = {} /\ driver.roc
           /\ l.hw_roc = "idle" /\ ~l.in_reconfig
           /\ m = [l EXCEPT !.roc_list = <<r>>, !.started = {r}, !.hw_roc = "accepted"]
  <2>1. OnlyRoc(l, r, {r}, "accepted", m)
    BY <1>3, FirstRocGood
  <2> QED
    BY <2>1 DEF OnlyRoc
<1>4. CASE m \in QueueRoc(l, r)
  BY <1>4, QueueRocGood
<1> QED
  BY <1>2, <1>3, <1>4, StartRocIs

-----------------------------------------------------------------------------
(* A ROC is cancelled. *)

LEMMA AbortGood ==
  ASSUME NEW l, Good(l), NEW rs \in SUBSET l.started
  PROVE  LET m == [l EXCEPT !.abort = @ \cup rs]
         IN  /\ Good(m) /\ SameScan(l, m) /\ (SoftEnd(l) => SoftEnd(m))
             /\ m.roc_list = l.roc_list /\ m.started = l.started /\ m.on_channel = l.on_channel
             /\ m.works = l.works /\ m.armed = l.armed /\ m.hw_roc = l.hw_roc
             /\ m.tmp_channel = l.tmp_channel /\ m.stopped = l.stopped
             /\ m.abort = l.abort \cup rs
<1> DEFINE m == [l EXCEPT !.abort = @ \cup rs]
<1>1. l \in LocalState /\ Listed(l) /\ OwnWorks(l)
  BY DEF Good
<1>2. m \in LocalState
  BY <1>1 DEF LocalState
<1>3. ScanFields(l, m)
  BY <1>1 DEF ScanFields, LocalState
<1>4. /\ m.roc_list = l.roc_list /\ m.started = l.started
      /\ m.hw_begun = l.hw_begun /\ m.notified = l.notified /\ m.abort = l.abort \cup rs
      /\ m.on_channel = l.on_channel /\ m.over = l.over
      /\ m.works = l.works /\ m.armed = l.armed /\ m.hw_roc = l.hw_roc
      /\ m.tmp_channel = l.tmp_channel /\ m.stopped = l.stopped
  BY <1>1 DEF LocalState
<1> HIDE DEF m
<1>5. Listed(m)
  BY <1>1, <1>4 DEF Listed
<1>6. OwnWorks(m)
  BY <1>1, <1>4 DEF OwnWorks, Queued
<1>7. SameScan(l, m) /\ (SoftEnd(l) => SoftEnd(m))
  BY <1>3, <1>4 DEF SameScan, SoftEnd, Queued
<1> QED
  BY <1>2, <1>4, <1>5, <1>6, <1>7 DEF Good, m

LEMMA CancelRocGood ==
  ASSUME NEW l, Good(l), SoftEnd(l), NEW r \in Rocs, NEW m \in CancelRoc(l, r)
  PROVE  Good(m) /\ SameScan(l, m) /\ SoftEnd(m)
<1> DEFINE a == [l EXCEPT !.hw_roc = "idle"]
           b == CancelWork(a, "hw_roc_done")
           c == Destroy(b, StartedFront(l))
           x == [l EXCEPT !.abort = @ \cup {r}]
<1>1. \/ m = l
      \/ m = Destroy(l, {r})
      \/ driver.roc /\ m \in StartNextRoc(c)
      \/ ~driver.roc /\ r \in l.started /\ m = QueueWork(x, "roc_work")
  BY DEF CancelRoc
<1>2. CASE m = l
  BY <1>2 DEF SameScan, ScanFields
<1>3. CASE m = Destroy(l, {r})
  BY <1>3, DestroyGood
<1>4. CASE driver.roc /\ m \in StartNextRoc(c)
  <2>1. Good(a) /\ SameScan(l, a)
    BY <1>4, HwRocGood
  <2> HIDE DEF a
  <2>2. Good(b) /\ SameScan(a, b)
    BY <2>1, CancelGood DEF Works
  <2> HIDE DEF b
  <2>3. Good(c) /\ SameScan(b, c)
    BY <2>2, DestroyGood
  <2> HIDE DEF c
  <2>4. Good(m) /\ SameScan(c, m)
    BY <1>4, <2>3, StartNextRocGood
  <2>5. SameScan(l, c)
    BY <2>1, <2>2, <2>3, SameScanTrans
  <2> QED
    BY <1>4, <2>4, <2>5, SameScanTrans DEF SoftEnd
<1>5. CASE ~driver.roc /\ r \in l.started /\ m = QueueWork(x, "roc_work")
  <2>1. Good(x) /\ SameScan(l, x) /\ x \in LocalState
    BY <1>5, AbortGood DEF Good
  <2> HIDE DEF x
  <2>2. Good(m) /\ SameScan(x, m)
    BY <1>5, <2>1, QueueRocWork
  <2>3. Contains(m.works, "roc_work")
    BY <1>5, <2>1, QueueWorkIs DEF Works
  <2> QED
    BY <2>1, <2>2, <2>3, SameScanTrans DEF SoftEnd, Queued
<1> QED
  BY <1>1, <1>2, <1>3, <1>4, <1>5

LEMMA ReportedIs ==
  ASSUME NEW l, Good(l), NEW m \in Reported(l)
  PROVE  /\ l.hw_roc = "accepted" /\ driver.roc
         /\ m = QueueWork([l EXCEPT !.hw_roc = "begun"], "hw_roc_start")
         /\ Good(m) /\ SameScan(l, m) /\ SoftEnd(m)
<1> DEFINE x == [l EXCEPT !.hw_roc = "begun"]
<1>1. l.hw_roc = "accepted" /\ m = QueueWork(x, "hw_roc_start")
  BY DEF Reported
<1>2. driver.roc
  BY <1>1 DEF Good, OwnWorks
<1>3. Good(x) /\ SameScan(l, x)
  BY <1>2, HwRocGood
<1> HIDE DEF x
<1>4. Good(m) /\ SameScan(x, m)
  BY <1>1, <1>2, <1>3, QueueRocWork
<1> QED
  BY <1>1, <1>2, <1>3, <1>4, SameScanTrans DEF SoftEnd, x

LEMMA RocPurgeGood ==
  ASSUME NEW l, Good(l), SoftEnd(l), NEW ifs, NEW m \in RocPurge(l, ifs)
  PROVE  Good(m) /\ SameScan(l, m) /\ SoftEnd(m)
<1> DEFINE mine  == Of(l, ifs)
           begun == mine \cap l.started
           v == IF begun = {} THEN l.hw_roc ELSE "idle"
           a == [l EXCEPT !.hw_roc = v]
           x == [l EXCEPT !.abort = @ \cup begun]
           y == Destroy(x, mine \ begun)
<1>1. \/ driver.roc /\ m = Destroy(a, mine)
      \/ ~driver.roc /\ m \in RocWork(y)
      \/ ~driver.roc /\ m = y
  BY DEF RocPurge
<1>2. CASE driver.roc /\ m = Destroy(a, mine)
  <2>1. v \in {"idle", "accepted", "begun"}
    BY DEF Good, LocalState
  <2> HIDE DEF v
  <2>2. Good(a) /\ SameScan(l, a)
    BY <1>2, <2>1, HwRocGood
  <2> HIDE DEF a
  <2>3. Good(m) /\ SameScan(a, m)
    BY <1>2, <2>2, DestroyGood
  <2> QED
    BY <1>2, <2>2, <2>3, SameScanTrans DEF SoftEnd
<1>3. Good(x) /\ SameScan(l, x) /\ SoftEnd(x)
  BY AbortGood
<1> HIDE DEF x
<1>4. Good(y) /\ SameScan(x, y) /\ SoftEnd(y)
  BY <1>3, DestroyGood
<1> HIDE DEF y
<1>5. SameScan(l, y)
  BY <1>3, <1>4, SameScanTrans
<1>6. CASE ~driver.roc /\ m \in RocWork(y)
  <2>1. Good(m) /\ SameScan(y, m) /\ SoftEnd(m)
    BY <1>4, <1>6, RocWorkGood
  <2> QED
    BY <1>5, <2>1, SameScanTrans
<1> QED
  BY <1>1, <1>2, <1>4, <1>5, <1>6

-----------------------------------------------------------------------------
(* What a handler for scans leaves alone of the ROCs. *)

KeepsRocs(l, m) ==
  /\ RocFields(l, m) /\ m.hw_roc = l.hw_roc /\ m.tmp_channel = l.tmp_channel
  /\ m.in_reconfig = l.in_reconfig
  /\ \A w : w # "scan_work" => /\ Contains(m.works, w) <=> Contains(l.works, w)
                               /\ w \in m.armed <=> w \in l.armed
  /\ StartFirstThenDone(l.works) => StartFirstThenDone(m.works)

LEMMA KeepsRocsTrans ==
  ASSUME NEW l, NEW m, NEW n, KeepsRocs(l, m), KeepsRocs(m, n) PROVE KeepsRocs(l, n)
<1>1. /\ RocFields(l, n) /\ n.hw_roc = l.hw_roc /\ n.tmp_channel = l.tmp_channel
      /\ n.in_reconfig = l.in_reconfig
  BY DEF KeepsRocs, RocFields
<1>2. \A w : w # "scan_work" => /\ Contains(n.works, w) <=> Contains(l.works, w)
                                /\ w \in n.armed <=> w \in l.armed
  BY DEF KeepsRocs
<1>3. StartFirstThenDone(l.works) => StartFirstThenDone(n.works)
  BY DEF KeepsRocs
<1> QED
  BY <1>1, <1>2, <1>3 DEF KeepsRocs

LEMMA KeepsRocsGood ==
  ASSUME NEW l, Good(l), NEW m \in LocalState, KeepsRocs(l, m), NoDup(m.works)
  PROVE  Good(m) /\ (SoftEnd(l) => SoftEnd(m))
<1>1. Listed(l) /\ OwnWorks(l)
  BY DEF Good
<1>2. m.armed \subseteq {"scan_work", "roc_work"}
  BY <1>1 DEF KeepsRocs, Listed
<1>3. Listed(m)
  BY <1>1, <1>2 DEF KeepsRocs, Listed, RocFields
<1>4. Queued(m, "roc_work") <=> Queued(l, "roc_work")
  BY DEF KeepsRocs, Queued
<1>5. OwnWorks(m)
  BY <1>1, <1>4 DEF KeepsRocs, OwnWorks, RocFields
<1>6. SoftEnd(l) => SoftEnd(m)
  BY <1>4 DEF KeepsRocs, SoftEnd, RocFields
<1> QED
  BY <1>3, <1>5, <1>6 DEF Good

(* The queues of works stay as they are, or one is queued or cancelled. *)
LEMMA ScanStepGood ==
  ASSUME NEW l, Good(l), NEW m \in LocalState,
         m.works = l.works, m.armed = l.armed, RocFields(l, m), m.hw_roc = l.hw_roc,
         m.tmp_channel = l.tmp_channel, m.in_reconfig = l.in_reconfig
  PROVE  KeepsRocs(l, m) /\ Good(m) /\ (SoftEnd(l) => SoftEnd(m))
<1>1. KeepsRocs(l, m)
  BY DEF KeepsRocs
<1>2. NoDup(m.works)
  BY DEF Good, Listed
<1> QED
  BY <1>1, <1>2, KeepsRocsGood

LEMMA OnlyWorksKeep ==
  ASSUME NEW l, Good(l), NEW m, OnlyWorks(l, m),
         \A w : w # "scan_work" => /\ Contains(m.works, w) <=> Contains(l.works, w)
                                   /\ w \in m.armed <=> w \in l.armed,
         StartFirstThenDone(l.works) => StartFirstThenDone(m.works)
  PROVE  KeepsRocs(l, m)
<1>1. l \in LocalState
  BY DEF Good
<1>2. RocFields(l, m) /\ ScanFields(l, m) /\ m.hw_roc = l.hw_roc /\ m.tmp_channel = l.tmp_channel
  BY <1>1, OnlyWorksIs
<1> QED
  BY <1>2 DEF KeepsRocs, ScanFields

LEMMA ScanQueued ==
  ASSUME NEW l, Good(l)
  PROVE  LET m == QueueWork(l, "scan_work")
         IN  /\ Good(m) /\ KeepsRocs(l, m) /\ ScanFields(l, m) /\ (SoftEnd(l) => SoftEnd(m))
             /\ m.stopped = l.stopped
             /\ Contains(m.works, "scan_work") /\ "scan_work" \notin m.armed
<1>1. l \in LocalState /\ "scan_work" \in Works
  BY DEF Good, Works
<1>2. /\ OnlyWorks(l, QueueWork(l, "scan_work"))
      /\ QueueWork(l, "scan_work").armed = l.armed \ {"scan_work"}
      /\ \A v : Contains(QueueWork(l, "scan_work").works, v) <=> Contains(l.works, v) \/ v = "scan_work"
      /\ StartFirstThenDone(l.works) => StartFirstThenDone(QueueWork(l, "scan_work").works)
  BY <1>1, QueueWorkIs
<1>3. KeepsRocs(l, QueueWork(l, "scan_work"))
  BY <1>2, OnlyWorksKeep
<1>4. QueueWork(l, "scan_work").stopped = l.stopped
  BY <1>1, <1>2, OnlyWorksIs
<1> QED
  BY <1>3, <1>4, QueueScanWork

LEMMA ScanArmed ==
  ASSUME NEW l, Good(l)
  PROVE  LET m == QueueLater(l, "scan_work")
         IN  /\ Good(m) /\ KeepsRocs(l, m) /\ ScanFields(l, m) /\ (SoftEnd(l) => SoftEnd(m))
             /\ m.stopped = l.stopped
             /\ m.works = l.works /\ m.armed = l.armed \cup {"scan_work"}
<1>1. l \in LocalState /\ "scan_work" \in Works
  BY DEF Good, Works
<1>2. /\ OnlyWorks(l, QueueLater(l, "scan_work"))
      /\ QueueLater(l, "scan_work").armed = l.armed \cup {"scan_work"}
      /\ QueueLater(l, "scan_work").works = l.works
  BY <1>1, QueueLaterIs
<1>3. KeepsRocs(l, QueueLater(l, "scan_work"))
  BY <1>2, OnlyWorksKeep
<1>4. QueueLater(l, "scan_work").stopped = l.stopped
  BY <1>1, <1>2, OnlyWorksIs
<1> QED
  BY <1>2, <1>3, <1>4, QueueScanLater

LEMMA ScanDropped ==
  ASSUME NEW l, Good(l)
  PROVE  LET m == CancelWork(l, "scan_work")
         IN  /\ Good(m) /\ KeepsRocs(l, m) /\ ScanFields(l, m) /\ (SoftEnd(l) => SoftEnd(m))
             /\ m.stopped = l.stopped
             /\ ~Queued(m, "scan_work")
<1>1. l \in LocalState /\ "scan_work" \in Works
  BY DEF Good, Works
<1>2. /\ OnlyWorks(l, CancelWork(l, "scan_work"))
      /\ CancelWork(l, "scan_work").armed = l.armed \ {"scan_work"}
      /\ \A v : Contains(CancelWork(l, "scan_work").works, v) <=> Contains(l.works, v) /\ v # "scan_work"
      /\ StartFirstThenDone(l.works) => StartFirstThenDone(CancelWork(l, "scan_work").works)
  BY <1>1, CancelWorkIs
<1>3. KeepsRocs(l, CancelWork(l, "scan_work"))
  BY <1>2, OnlyWorksKeep
<1>4. CancelWork(l, "scan_work").stopped = l.stopped
  BY <1>1, <1>2, OnlyWorksIs
<1>5. ~Queued(CancelWork(l, "scan_work"), "scan_work")
  BY <1>2 DEF Queued
<1> QED
  BY <1>1, <1>3, <1>4, <1>5, CancelGood

LEMMA ScanTaken ==
  ASSUME NEW l, Good(l), l.works # <<>>, Head(l.works) = "scan_work"
  PROVE  LET m == Take(l)
         IN  /\ Good(m) /\ KeepsRocs(l, m) /\ ScanFields(l, m) /\ (SoftEnd(l) => SoftEnd(m))
             /\ m.stopped = l.stopped /\ m.armed = l.armed /\ ~Contains(m.works, "scan_work")
             /\ Contains(l.works, "scan_work")
<1>1. l \in LocalState /\ NoDup(l.works)
  BY DEF Good, Listed
<1>2. /\ OnlyWorks(l, Take(l)) /\ Take(l).armed = l.armed
      /\ \A v : Contains(Take(l).works, v) <=> Contains(l.works, v) /\ v # "scan_work"
      /\ StartFirstThenDone(l.works) => StartFirstThenDone(Take(l).works)
      /\ Contains(l.works, "scan_work")
  BY <1>1, TakenIs
<1>3. KeepsRocs(l, Take(l))
  BY <1>2, OnlyWorksKeep
<1>4. Take(l).stopped = l.stopped
  BY <1>1, <1>2, OnlyWorksIs
<1> QED
  BY <1>2, <1>3, <1>4, TakeGood

-----------------------------------------------------------------------------
(* The end of a scan. *)

(* The request and the flags of a scan, and what it owes cfg80211. *)
Claimed(l) ==
  /\ l.asked <=> (l.scan_req # NoRequest /\ l.scan_req.user)
  /\ "HW" \in l.scanning => l.scan_req # NoRequest
  /\ "HW_CANCELLED" \in l.scanning => "HW" \in l.scanning

(* What the end of a scan leaves before the next ROC is looked at. *)
Ended(l) ==
  [l EXCEPT !.scan_req = NoRequest, !.scan_chan = NoChan, !.rx = FALSE,
            !.scanning = IF l.rx THEN {"BEACON_DONE"} ELSE {},
            !.asked = l.asked /\ ~l.scan_req.user,
            !.stopped = l.stopped /\ (l.scanning = {} \/ "HW" \in l.scanning)]

AfterScan(l) == IF l.rx THEN QueueWork(Ended(l), "scan_work") ELSE Ended(l)

LEMMA EndedIs ==
  ASSUME NEW l, Good(l), Claimed(l), l.scan_req # NoRequest
  PROVE  LET m == AfterScan(l)
         IN  /\ Good(m) /\ KeepsRocs(l, m) /\ (SoftEnd(l) => SoftEnd(m))
             /\ m.scan_req = NoRequest /\ m.scan_chan = NoChan /\ ~m.rx /\ ~m.asked
             /\ m.scanning = (IF l.rx THEN {"BEACON_DONE"} ELSE {})
             /\ m.hw_scan = l.hw_scan
             /\ m.stopped = (l.stopped /\ (l.scanning = {} \/ "HW" \in l.scanning))
             /\ ~l.rx => m.works = l.works /\ m.armed = l.armed
<1> DEFINE e == Ended(l)
           m == AfterScan(l)
<1>1. l \in LocalState
  BY DEF Good
<1>2. l.scan_req \in [user : BOOLEAN, iface : Ifaces, channels : Seq(Chans)]
  BY <1>1, OffChannelAssumption DEF LocalState
<1>3. l.scan_req.user \in BOOLEAN /\ l.asked \in BOOLEAN /\ l.stopped \in BOOLEAN
  BY <1>1, <1>2 DEF LocalState
<1>4. ~(l.asked /\ ~l.scan_req.user)
  BY DEF Claimed
<1>5. e \in LocalState
  <2>1. (IF l.rx THEN {"BEACON_DONE"} ELSE {}) \in SUBSET Flags
    BY DEF Flags
  <2>2. (l.asked /\ ~l.scan_req.user) \in BOOLEAN
        /\ (l.stopped /\ (l.scanning = {} \/ "HW" \in l.scanning)) \in BOOLEAN
    OBVIOUS
  <2> QED
    BY <1>1, <2>1, <2>2, ZenonT(60) DEF LocalState, Ended
<1>6. /\ e.scan_req = NoRequest /\ e.scan_chan = NoChan /\ ~e.rx
      /\ e.asked = (l.asked /\ ~l.scan_req.user)
      /\ e.scanning = (IF l.rx THEN {"BEACON_DONE"} ELSE {})
      /\ e.hw_scan = l.hw_scan
      /\ e.stopped = (l.stopped /\ (l.scanning = {} \/ "HW" \in l.scanning))
      /\ e.works = l.works /\ e.armed = l.armed
      /\ e.hw_roc = l.hw_roc /\ e.tmp_channel = l.tmp_channel /\ e.in_reconfig = l.in_reconfig
  BY <1>1 DEF LocalState, Ended
<1>7. RocFields(l, e)
  BY <1>1 DEF LocalState, Ended, RocFields
<1> HIDE DEF e
<1>8. KeepsRocs(l, e) /\ Good(e) /\ (SoftEnd(l) => SoftEnd(e))
  BY <1>5, <1>6, <1>7, ScanStepGood
<1>9. CASE l.rx
  <2> DEFINE q == QueueWork(e, "scan_work")
  <2>1. Good(q) /\ KeepsRocs(e, q) /\ ScanFields(e, q) /\ (SoftEnd(e) => SoftEnd(q))
        /\ q.stopped = e.stopped
    BY <1>8, ScanQueued
  <2>2. m = q
    BY <1>9 DEF AfterScan, e
  <2> HIDE DEF q, m
  <2>3. KeepsRocs(l, m)
    BY <1>8, <2>1, <2>2, KeepsRocsTrans
  <2>4. /\ m.scan_req = NoRequest /\ m.scan_chan = NoChan /\ ~m.rx /\ ~m.asked
        /\ m.scanning = (IF l.rx THEN {"BEACON_DONE"} ELSE {}) /\ m.hw_scan = l.hw_scan
    BY <1>4, <1>6, <2>1, <2>2 DEF ScanFields
  <2> QED
    BY <1>6, <1>8, <1>9, <2>1, <2>2, <2>3, <2>4 DEF m
<1>10. CASE ~l.rx
  <2>1. m = e
    BY <1>10 DEF AfterScan, e
  <2> HIDE DEF m
  <2> QED
    BY <1>4, <1>6, <1>8, <2>1 DEF m
<1> QED
  BY <1>9, <1>10

LEMMA FinishScanIs ==
  ASSUME NEW l, Good(l), Claimed(l), l.scan_req # NoRequest, NEW m \in FinishScan(l)
  PROVE  IF l.scanning = {} THEN m = AfterScan(l) ELSE m \in StartNextRoc(AfterScan(l))
<1>1. l \in LocalState
  BY DEF Good
<1> DEFINE user   == l.scan_req.user
           left   == [l EXCEPT !.scan_req = NoRequest, !.scan_chan = NoChan, !.rx = FALSE,
                               !.scanning = IF l.rx THEN {"BEACON_DONE"} ELSE {}]
           marked == IF l.rx THEN QueueWork(left, "scan_work") ELSE left
           told   == IF user THEN [marked EXCEPT !.asked = FALSE] ELSE marked
           home   == IF l.scanning # {} /\ "HW" \notin l.scanning THEN OffchannelReturn(told)
                     ELSE told
           quiet  == l.asked /\ ~l.scan_req.user
           awake  == l.stopped /\ (l.scanning = {} \/ "HW" \in l.scanning)
<1>2. IF l.scanning # {} THEN m \in StartNextRoc(home) ELSE m = home
  BY DEF FinishScan
<1>3. l.scan_req.user \in BOOLEAN /\ l.asked \in BOOLEAN /\ l.stopped \in BOOLEAN
  <2>1. l.scan_req \in [user : BOOLEAN, iface : Ifaces, channels : Seq(Chans)]
    BY <1>1, OffChannelAssumption DEF LocalState
  <2> QED
    BY <1>1, <2>1 DEF LocalState
<1>4. /\ user => quiet = FALSE
      /\ ~user => quiet = l.asked
      /\ l.scanning # {} /\ "HW" \notin l.scanning => awake = FALSE
      /\ ~(l.scanning # {} /\ "HW" \notin l.scanning) => awake = l.stopped
  BY <1>3
<1>5. Ended(l) = [left EXCEPT !.asked = quiet, !.stopped = awake]
  BY <1>1 DEF Ended, LocalState
<1>6. left \in LocalState
  <2>1. (IF l.rx THEN {"BEACON_DONE"} ELSE {}) \in SUBSET Flags
    BY DEF Flags
  <2> QED
    BY <1>1, <2>1 DEF LocalState
<1>7. left.asked = l.asked /\ left.stopped = l.stopped
  BY <1>1 DEF LocalState
<1> HIDE DEF left, quiet, awake, user
<1>8. AfterScan(l) = [marked EXCEPT !.asked = quiet, !.stopped = awake]
  <2>1. CASE l.rx
    <3>1. QueueWork([left EXCEPT !.asked = quiet, !.stopped = awake], "scan_work")
            = [QueueWork(left, "scan_work") EXCEPT !.asked = quiet, !.stopped = awake]
      BY <1>6 DEF QueueWork, LocalState
    <3> QED
      BY <1>5, <2>1, <3>1 DEF AfterScan
  <2>2. CASE ~l.rx
    BY <1>5, <2>2 DEF AfterScan
  <2> QED
    BY <2>1, <2>2
<1>9. marked \in LocalState /\ marked.asked = l.asked /\ marked.stopped = l.stopped
  <2>1. "scan_work" \in Works
    BY DEF Works
  <2>2. OnlyWorks(left, QueueWork(left, "scan_work"))
    BY <1>6, <2>1, QueueWorkIs
  <2>3. /\ QueueWork(left, "scan_work") \in LocalState
        /\ ScanFields(left, QueueWork(left, "scan_work"))
        /\ QueueWork(left, "scan_work").stopped = left.stopped
    BY <1>6, <2>2, OnlyWorksIs
  <2> QED
    BY <1>6, <1>7, <2>3 DEF ScanFields
<1> HIDE DEF marked
<1>10. told = [marked EXCEPT !.asked = quiet]
  BY <1>4, <1>9 DEF LocalState
<1> HIDE DEF told
<1>11. home = [told EXCEPT !.stopped = awake]
  BY <1>4, <1>9, <1>10 DEF LocalState, OffchannelReturn
<1>12. home = AfterScan(l)
  BY <1>8, <1>9, <1>10, <1>11 DEF LocalState
<1> QED
  BY <1>2, <1>12

(* What a handler for scans does, whatever happens. *)
Handled(l, m) ==
  /\ Good(m) /\ (SoftEnd(l) => SoftEnd(m)) /\ Scanned(m)
  /\ "HW_CANCELLED" \in l.scanning /\ ~l.hw_scan => ~m.hw_scan

LEMMA ScannedClaims ==
  ASSUME NEW l, Scanned(l) PROVE Claimed(l)
  BY DEF Scanned, Claimed

LEMMA SameScanned ==
  ASSUME NEW l, NEW m, Scanned(l), SameScan(l, m) PROVE Scanned(m) /\ m.hw_scan = l.hw_scan
  BY DEF Scanned, SameScan, ScanFields

LEMMA FinishScanGood ==
  ASSUME NEW l, Good(l), Claimed(l), l.scan_req # NoRequest, NEW m \in FinishScan(l)
  PROVE  Handled(l, m) /\ m.hw_scan = l.hw_scan
<1> DEFINE h == AfterScan(l)
<1>1. /\ Good(h) /\ (SoftEnd(l) => SoftEnd(h)) /\ h.scan_req = NoRequest /\ ~h.asked
      /\ h.scanning = (IF l.rx THEN {"BEACON_DONE"} ELSE {}) /\ h.hw_scan = l.hw_scan
  BY EndedIs
<1>2. m = h \/ m \in StartNextRoc(h)
  BY FinishScanIs
<1> HIDE DEF h
<1>3. Scanned(h)
  BY <1>1 DEF Scanned
<1>4. CASE m = h
  BY <1>1, <1>3, <1>4 DEF Handled
<1>5. CASE m \in StartNextRoc(h)
  <2>1. Good(m) /\ SameScan(h, m) /\ (SoftEnd(h) => SoftEnd(m))
    BY <1>1, <1>5, StartNextRocGood
  <2>2. Scanned(m) /\ m.hw_scan = h.hw_scan
    BY <1>3, <2>1, SameScanned
  <2> QED
    BY <1>1, <2>1, <2>2 DEF Handled
<1> QED
  BY <1>2, <1>4, <1>5

(* The scan of the next band. *)
NextBand(l) == [l EXCEPT !.band = @ + 1]

More(l, aborted) ==
  /\ "HW" \in l.scanning /\ "HW_CANCELLED" \notin l.scanning
  /\ ~aborted /\ l.band < HwBands

LEMMA NextBandIs ==
  ASSUME NEW l, Good(l), l.band < HwBands
  PROVE  LET m == NextBand(l)
         IN  /\ Good(m) /\ KeepsRocs(l, m) /\ ScanFields(l, m) /\ (SoftEnd(l) => SoftEnd(m))
             /\ m.works = l.works /\ m.armed = l.armed /\ m.stopped = l.stopped
<1> DEFINE m == NextBand(l)
<1>1. l \in LocalState
  BY DEF Good
<1>2. l.band + 1 \in 0 .. HwBands
  BY <1>1, OffChannelAssumption DEF LocalState
<1>3. m \in LocalState
  BY <1>1, <1>2 DEF LocalState, NextBand
<1>4. ScanFields(l, m) /\ RocFields(l, m)
  BY <1>1 DEF LocalState, NextBand, ScanFields, RocFields
<1>5. /\ m.works = l.works /\ m.armed = l.armed /\ m.stopped = l.stopped
      /\ m.hw_roc = l.hw_roc /\ m.tmp_channel = l.tmp_channel
  BY <1>1 DEF LocalState, NextBand
<1> HIDE DEF m
<1>6. KeepsRocs(l, m) /\ Good(m) /\ (SoftEnd(l) => SoftEnd(m))
  BY <1>3, <1>4, <1>5, ScanStepGood DEF ScanFields
<1> QED
  BY <1>4, <1>5, <1>6 DEF m

(* The driver begins a scan. *)
HwScans(l) == [l EXCEPT !.hw_scan = TRUE]

LEMMA HwScansIs ==
  ASSUME NEW l, Good(l)
  PROVE  LET m == HwScans(l)
         IN  /\ Good(m) /\ KeepsRocs(l, m) /\ (SoftEnd(l) => SoftEnd(m))
             /\ m.works = l.works /\ m.armed = l.armed /\ m.stopped = l.stopped
             /\ m.scan_req = l.scan_req /\ m.scanning = l.scanning /\ m.next = l.next
             /\ m.idx = l.idx /\ m.scan_chan = l.scan_chan /\ m.rx = l.rx
             /\ m.asked = l.asked /\ m.hw_scan
<1> DEFINE m == HwScans(l)
<1>1. l \in LocalState
  BY DEF Good
<1>2. m \in LocalState
  BY <1>1 DEF LocalState, HwScans
<1>3. RocFields(l, m)
  BY <1>1 DEF LocalState, HwScans, RocFields
<1>4. /\ m.works = l.works /\ m.armed = l.armed /\ m.stopped = l.stopped
      /\ m.hw_roc = l.hw_roc /\ m.tmp_channel = l.tmp_channel /\ m.in_reconfig = l.in_reconfig
      /\ m.scan_req = l.scan_req /\ m.scanning = l.scanning /\ m.next = l.next
      /\ m.idx = l.idx /\ m.scan_chan = l.scan_chan /\ m.rx = l.rx
      /\ m.asked = l.asked /\ m.hw_scan
  BY <1>1 DEF LocalState, HwScans
<1> HIDE DEF m
<1>5. KeepsRocs(l, m) /\ Good(m) /\ (SoftEnd(l) => SoftEnd(m))
  BY <1>2, <1>3, <1>4, ScanStepGood
<1> QED
  BY <1>4, <1>5 DEF m

LEMMA DriverScansIs ==
  ASSUME NEW l, NEW m \in DriverScans(l)
  PROVE  ~l.hw_scan /\ ~l.in_reconfig /\ m = HwScans(l)
  BY DEF DriverScans, HwScans

LEMMA ScanCompletedIs ==
  ASSUME NEW l, NEW aborted, NEW m \in ScanCompleted(l, aborted)
  PROVE  \/ l.scan_req = NoRequest /\ m = l
         \/ l.scan_req # NoRequest /\ More(l, aborted) /\ m \in DriverScans(NextBand(l))
         \/ l.scan_req # NoRequest /\ More(l, aborted) /\ m \in FinishScan(NextBand(l))
         \/ l.scan_req # NoRequest /\ m \in FinishScan(l)
  BY DEF ScanCompleted, More, NextBand

LEMMA ScanCompletedGood ==
  ASSUME NEW l, Good(l), Claimed(l), NEW aborted, NEW m \in ScanCompleted(l, aborted)
  PROVE  Handled(l, m)
<1> DEFINE n == NextBand(l)
<1>1. CASE l.scan_req = NoRequest /\ m = l
  BY <1>1 DEF Claimed, Scanned, Handled
<1>2. CASE l.scan_req # NoRequest /\ m \in FinishScan(l)
  BY <1>2, FinishScanGood
<1>3. ASSUME l.scan_req # NoRequest, More(l, aborted)
      PROVE  /\ Good(n) /\ ScanFields(l, n) /\ (SoftEnd(l) => SoftEnd(n)) /\ Claimed(n)
             /\ n.scan_req # NoRequest /\ "HW_CANCELLED" \notin n.scanning
             /\ "HW_CANCELLED" \notin l.scanning
  <2>1. Good(n) /\ ScanFields(l, n) /\ (SoftEnd(l) => SoftEnd(n))
    BY <1>3, NextBandIs DEF More
  <2> HIDE DEF n
  <2> QED
    BY <1>3, <2>1 DEF More, ScanFields, Claimed
<1> HIDE DEF n
<1>4. CASE l.scan_req # NoRequest /\ More(l, aborted) /\ m \in FinishScan(n)
  <2>1. Handled(n, m)
    BY <1>3, <1>4, FinishScanGood
  <2> QED
    BY <1>3, <1>4, <2>1 DEF Handled
<1>5. CASE l.scan_req # NoRequest /\ More(l, aborted) /\ m \in DriverScans(n)
  <2>1. m = HwScans(n)
    BY <1>5, DriverScansIs
  <2>2. /\ Good(m) /\ (SoftEnd(n) => SoftEnd(m)) /\ m.hw_scan
        /\ m.scan_req = n.scan_req /\ m.scanning = n.scanning /\ m.asked = n.asked
    BY <1>3, <1>5, <2>1, HwScansIs
  <2> QED
    BY <1>3, <1>5, <2>2 DEF Claimed, Scanned, Handled
<1> QED
  BY <1>1, <1>2, <1>4, <1>5, ScanCompletedIs DEF n

-----------------------------------------------------------------------------
(* The beginning of a scan. *)

(* The scan of the operating channel, and that of software. *)
OnChannel(l, req, wait) ==
  [l EXCEPT !.scan_req = req, !.scanning = @ \cup {"ONCHANNEL"} \cup wait]

OffChannelScan(l, req) ==
  [l EXCEPT !.scan_req = req, !.stopped = TRUE, !.scanning = @ \cup {"SW"},
            !.next = "DECISION", !.idx = 0]

LEMMA StartSwScanIs ==
  ASSUME NEW l, Good(l), NEW req \in Requests, NEW m \in StartSwScan(l, req)
  PROVE  /\ Good(m) /\ KeepsRocs(l, m) /\ (SoftEnd(l) => SoftEnd(m))
         /\ m.scan_req = req /\ m.asked = l.asked /\ m.hw_scan = l.hw_scan
         /\ m.scan_chan = l.scan_chan /\ m.rx = l.rx
         /\ \/ /\ \E wait \in {{}, {"BEACON_WAIT"}} :
                    m.scanning = l.scanning \cup {"ONCHANNEL"} \cup wait
               /\ m.stopped = l.stopped /\ m.works = l.works
            \/ /\ m.scanning = l.scanning \cup {"SW"} /\ m.stopped
               /\ m.next = "DECISION" /\ m.idx = 0 /\ "scan_work" \notin m.armed
<1>1. l \in LocalState
  BY DEF Good
<1>2. \/ \E wait \in {{}, {"BEACON_WAIT"}} :
           m = [QueueLater([l EXCEPT !.scan_req = req], "scan_work") EXCEPT
                  !.scanning = @ \cup {"ONCHANNEL"} \cup wait]
      \/ m = QueueWork([StopVifs([l EXCEPT !.scan_req = req]) EXCEPT
               !.scanning = @ \cup {"SW"}, !.next = "DECISION", !.idx = 0], "scan_work")
  BY DEF StartSwScan
<1>3. ASSUME NEW wait \in {{}, {"BEACON_WAIT"}},
             m = [QueueLater([l EXCEPT !.scan_req = req], "scan_work") EXCEPT
                    !.scanning = @ \cup {"ONCHANNEL"} \cup wait]
      PROVE  /\ Good(m) /\ KeepsRocs(l, m) /\ (SoftEnd(l) => SoftEnd(m))
             /\ m.scan_req = req /\ m.asked = l.asked /\ m.hw_scan = l.hw_scan
             /\ m.scan_chan = l.scan_chan /\ m.rx = l.rx
             /\ m.scanning = l.scanning \cup {"ONCHANNEL"} \cup wait
             /\ m.stopped = l.stopped /\ m.works = l.works
  <2> DEFINE x == OnChannel(l, req, wait)
  <2>1. m = QueueLater(x, "scan_work")
    BY <1>1, <1>3 DEF QueueLater, OnChannel, LocalState
  <2>2. x \in LocalState
    <3>1. l.scanning \cup {"ONCHANNEL"} \cup wait \in SUBSET Flags
      BY <1>1 DEF LocalState, Flags
    <3> QED
      BY <1>1, <3>1 DEF LocalState, OnChannel
  <2>3. /\ x.works = l.works /\ x.armed = l.armed /\ x.stopped = l.stopped
        /\ x.hw_roc = l.hw_roc /\ x.tmp_channel = l.tmp_channel /\ x.in_reconfig = l.in_reconfig
        /\ x.scan_req = req /\ x.asked = l.asked /\ x.hw_scan = l.hw_scan
        /\ x.scan_chan = l.scan_chan /\ x.rx = l.rx
        /\ x.scanning = l.scanning \cup {"ONCHANNEL"} \cup wait
    BY <1>1 DEF LocalState, OnChannel
  <2>4. RocFields(l, x)
    BY <1>1 DEF LocalState, OnChannel, RocFields
  <2> HIDE DEF x
  <2>5. KeepsRocs(l, x) /\ Good(x) /\ (SoftEnd(l) => SoftEnd(x))
    BY <2>2, <2>3, <2>4, ScanStepGood
  <2>6. /\ Good(m) /\ KeepsRocs(x, m) /\ ScanFields(x, m) /\ (SoftEnd(x) => SoftEnd(m))
        /\ m.stopped = x.stopped /\ m.works = x.works
    BY <2>1, <2>5, ScanArmed
  <2>7. KeepsRocs(l, m)
    BY <2>5, <2>6, KeepsRocsTrans
  <2> QED
    BY <2>3, <2>5, <2>6, <2>7 DEF ScanFields
<1>4. CASE m = QueueWork([StopVifs([l EXCEPT !.scan_req = req]) EXCEPT
                 !.scanning = @ \cup {"SW"}, !.next = "DECISION", !.idx = 0], "scan_work")
  <2> DEFINE x == OffChannelScan(l, req)
  <2>1. x = [StopVifs([l EXCEPT !.scan_req = req]) EXCEPT
               !.scanning = @ \cup {"SW"}, !.next = "DECISION", !.idx = 0]
    BY <1>1 DEF StopVifs, OffChannelScan, LocalState
  <2>2. x \in LocalState
    <3>1. l.scanning \cup {"SW"} \in SUBSET Flags /\ "DECISION" \in ScanStates
      BY <1>1 DEF LocalState, Flags, ScanStates
    <3> QED
      BY <1>1, <3>1 DEF LocalState, OffChannelScan
  <2>3. /\ x.works = l.works /\ x.armed = l.armed /\ x.stopped
        /\ x.hw_roc = l.hw_roc /\ x.tmp_channel = l.tmp_channel /\ x.in_reconfig = l.in_reconfig
        /\ x.scan_req = req /\ x.asked = l.asked /\ x.hw_scan = l.hw_scan
        /\ x.scan_chan = l.scan_chan /\ x.rx = l.rx
        /\ x.scanning = l.scanning \cup {"SW"} /\ x.next = "DECISION" /\ x.idx = 0
    BY <1>1 DEF LocalState, OffChannelScan
  <2>4. RocFields(l, x)
    BY <1>1 DEF LocalState, OffChannelScan, RocFields
  <2> HIDE DEF x
  <2>5. KeepsRocs(l, x) /\ Good(x) /\ (SoftEnd(l) => SoftEnd(x))
    BY <2>2, <2>3, <2>4, ScanStepGood
  <2>6. /\ Good(m) /\ KeepsRocs(x, m) /\ ScanFields(x, m) /\ (SoftEnd(x) => SoftEnd(m))
        /\ m.stopped = x.stopped /\ "scan_work" \notin m.armed
    BY <1>4, <2>1, <2>5, ScanQueued
  <2>7. KeepsRocs(l, m)
    BY <2>5, <2>6, KeepsRocsTrans
  <2> QED
    BY <2>3, <2>5, <2>6, <2>7 DEF ScanFields
<1>5. CASE \E wait \in {{}, {"BEACON_WAIT"}} :
             m = [QueueLater([l EXCEPT !.scan_req = req], "scan_work") EXCEPT
                    !.scanning = @ \cup {"ONCHANNEL"} \cup wait]
  BY <1>3, <1>5
<1> QED
  BY <1>2, <1>4, <1>5

(* The three ways in which a scan may begin; base are the flags it finds. *)
Defers(l, m) ==
  /\ l.roc_list # <<>> \/ l.poll # {}
  /\ m.scanning = l.scanning /\ m.hw_scan = l.hw_scan /\ m.next = l.next /\ m.idx = l.idx
  /\ m.works = l.works /\ m.armed = l.armed /\ m.stopped = l.stopped

HwBegins(l, m) ==
  /\ driver.scan /\ l.roc_list = <<>> /\ ~l.hw_scan /\ ~l.in_reconfig
  /\ m.scanning = l.scanning \cup {"HW"} /\ m.hw_scan
  /\ m.works = l.works /\ m.armed = l.armed /\ m.stopped = l.stopped

SwBegins(l, m, base) ==
  /\ l.roc_list = <<>> /\ m.hw_scan = l.hw_scan
  /\ \/ /\ \E wait \in {{}, {"BEACON_WAIT"}} :
             m.scanning = base \cup {"ONCHANNEL"} \cup wait
        /\ m.stopped = l.stopped /\ m.works = l.works
     \/ /\ m.scanning = base \cup {"SW"} /\ m.stopped
        /\ m.next = "DECISION" /\ m.idx = 0 /\ "scan_work" \notin m.armed

LEMMA StartScanIs ==
  ASSUME NEW l, Good(l), NEW req \in Requests, NEW m \in StartScan(l, req)
  PROVE  /\ Good(m) /\ KeepsRocs(l, m) /\ (SoftEnd(l) => SoftEnd(m))
         /\ l.scan_req = NoRequest /\ m.scan_req = req /\ m.asked = l.asked
         /\ m.scan_chan = l.scan_chan /\ m.rx = l.rx
         /\ Defers(l, m) \/ HwBegins(l, m) \/ SwBegins(l, m, {}) \/ SwBegins(l, m, l.scanning)
<1> DEFINE d == [l EXCEPT !.scan_req = req]
           x == [l EXCEPT !.scan_req = req, !.band = 1, !.scanning = @ \cup {"HW"}]
           e == [l EXCEPT !.scanning = {}]
<1>1. l \in LocalState
  BY DEF Good
<1>2. /\ l.scan_req = NoRequest
      /\ \/ ~CanScan(l, req) /\ m = d
         \/ CanScan(l, req) /\ driver.scan /\ m \in DriverScans(x)
         \/ CanScan(l, req) /\ m \in StartSwScan(e, req)
         \/ CanScan(l, req) /\ m \in StartSwScan(l, req)
  BY DEF StartScan
<1>3. CASE ~CanScan(l, req) /\ m = d
  <2>1. d \in LocalState
    BY <1>1 DEF LocalState
  <2>2. RocFields(l, d)
    BY <1>1 DEF LocalState, RocFields
  <2>3. /\ d.works = l.works /\ d.armed = l.armed /\ d.stopped = l.stopped
        /\ d.hw_roc = l.hw_roc /\ d.tmp_channel = l.tmp_channel /\ d.in_reconfig = l.in_reconfig
        /\ d.scan_req = req /\ d.asked = l.asked /\ d.hw_scan = l.hw_scan
        /\ d.scan_chan = l.scan_chan /\ d.rx = l.rx /\ d.scanning = l.scanning
        /\ d.next = l.next /\ d.idx = l.idx
    BY <1>1 DEF LocalState
  <2>4. l.roc_list # <<>> \/ l.poll # {}
    BY <1>3 DEF CanScan
  <2> HIDE DEF d
  <2>5. KeepsRocs(l, d) /\ Good(d) /\ (SoftEnd(l) => SoftEnd(d))
    BY <2>1, <2>2, <2>3, ScanStepGood
  <2> QED
    BY <1>2, <1>3, <2>3, <2>4, <2>5 DEF Defers
<1>4. CASE CanScan(l, req) /\ driver.scan /\ m \in DriverScans(x)
  <2>1. x \in LocalState
    <3>1. l.scanning \cup {"HW"} \in SUBSET Flags /\ 1 \in 0 .. HwBands
      BY <1>1, OffChannelAssumption DEF LocalState, Flags
    <3> QED
      BY <1>1, <3>1 DEF LocalState
  <2>2. RocFields(l, x)
    BY <1>1 DEF LocalState, RocFields
  <2>3. /\ x.works = l.works /\ x.armed = l.armed /\ x.stopped = l.stopped
        /\ x.hw_roc = l.hw_roc /\ x.tmp_channel = l.tmp_channel /\ x.in_reconfig = l.in_reconfig
        /\ x.scan_req = req /\ x.asked = l.asked /\ x.hw_scan = l.hw_scan
        /\ x.scan_chan = l.scan_chan /\ x.rx = l.rx /\ x.scanning = l.scanning \cup {"HW"}
    BY <1>1 DEF LocalState
  <2> HIDE DEF x
  <2>4. KeepsRocs(l, x) /\ Good(x) /\ (SoftEnd(l) => SoftEnd(x))
    BY <2>1, <2>2, <2>3, ScanStepGood
  <2>5. ~x.hw_scan /\ ~x.in_reconfig /\ m = HwScans(x)
    BY <1>4, DriverScansIs
  <2>6. /\ Good(m) /\ KeepsRocs(x, m) /\ (SoftEnd(x) => SoftEnd(m))
        /\ m.works = x.works /\ m.armed = x.armed /\ m.stopped = x.stopped
        /\ m.scan_req = x.scan_req /\ m.scanning = x.scanning
        /\ m.scan_chan = x.scan_chan /\ m.rx = x.rx /\ m.asked = x.asked /\ m.hw_scan
    BY <2>4, <2>5, HwScansIs
  <2>7. KeepsRocs(l, m)
    BY <2>4, <2>6, KeepsRocsTrans
  <2>8. HwBegins(l, m)
    BY <1>4, <2>3, <2>5, <2>6 DEF HwBegins, CanScan
  <2> QED
    BY <1>2, <2>3, <2>4, <2>6, <2>7, <2>8
<1>5. CASE CanScan(l, req) /\ m \in StartSwScan(e, req)
  <2>1. e \in LocalState
    BY <1>1 DEF LocalState
  <2>2. RocFields(l, e)
    BY <1>1 DEF LocalState, RocFields
  <2>3. /\ e.works = l.works /\ e.armed = l.armed /\ e.stopped = l.stopped
        /\ e.hw_roc = l.hw_roc /\ e.tmp_channel = l.tmp_channel /\ e.in_reconfig = l.in_reconfig
        /\ e.asked = l.asked /\ e.hw_scan = l.hw_scan
        /\ e.scan_chan = l.scan_chan /\ e.rx = l.rx /\ e.scanning = {}
    BY <1>1 DEF LocalState
  <2> HIDE DEF e
  <2>4. KeepsRocs(l, e) /\ Good(e) /\ (SoftEnd(l) => SoftEnd(e))
    BY <2>1, <2>2, <2>3, ScanStepGood
  <2>5. /\ Good(m) /\ KeepsRocs(e, m) /\ (SoftEnd(e) => SoftEnd(m))
        /\ m.scan_req = req /\ m.asked = e.asked /\ m.hw_scan = e.hw_scan
        /\ m.scan_chan = e.scan_chan /\ m.rx = e.rx
        /\ \/ /\ \E wait \in {{}, {"BEACON_WAIT"}} :
                   m.scanning = e.scanning \cup {"ONCHANNEL"} \cup wait
              /\ m.stopped = e.stopped /\ m.works = e.works
           \/ /\ m.scanning = e.scanning \cup {"SW"} /\ m.stopped
              /\ m.next = "DECISION" /\ m.idx = 0 /\ "scan_work" \notin m.armed
    BY <1>5, <2>4, StartSwScanIs
  <2>6. KeepsRocs(l, m)
    BY <2>4, <2>5, KeepsRocsTrans
  <2>7. SwBegins(l, m, {})
    BY <1>5, <2>3, <2>5 DEF SwBegins, CanScan
  <2> QED
    BY <1>2, <2>3, <2>4, <2>5, <2>6, <2>7
<1>6. CASE CanScan(l, req) /\ m \in StartSwScan(l, req)
  <2>1. /\ Good(m) /\ KeepsRocs(l, m) /\ (SoftEnd(l) => SoftEnd(m))
        /\ m.scan_req = req /\ m.asked = l.asked /\ m.hw_scan = l.hw_scan
        /\ m.scan_chan = l.scan_chan /\ m.rx = l.rx
        /\ \/ /\ \E wait \in {{}, {"BEACON_WAIT"}} :
                   m.scanning = l.scanning \cup {"ONCHANNEL"} \cup wait
              /\ m.stopped = l.stopped /\ m.works = l.works
           \/ /\ m.scanning = l.scanning \cup {"SW"} /\ m.stopped
              /\ m.next = "DECISION" /\ m.idx = 0 /\ "scan_work" \notin m.armed
    BY <1>6, StartSwScanIs
  <2>2. SwBegins(l, m, l.scanning)
    BY <1>6, <2>1 DEF SwBegins, CanScan
  <2> QED
    BY <1>2, <2>1, <2>2
<1> QED
  BY <1>2, <1>3, <1>4, <1>5, <1>6

(* No scan begins with the end of another one. *)
LEMMA BegunScanned ==
  ASSUME NEW l, NEW m, "HW" \notin l.scanning, "HW_CANCELLED" \notin l.scanning,
         Defers(l, m) \/ HwBegins(l, m) \/ SwBegins(l, m, {}) \/ SwBegins(l, m, l.scanning)
  PROVE  ("HW" \in m.scanning => m.hw_scan) /\ "HW_CANCELLED" \notin m.scanning
<1>1. \A wait \in {{}, {"BEACON_WAIT"}} : "HW" \notin wait /\ "HW_CANCELLED" \notin wait
  OBVIOUS
<1>2. CASE Defers(l, m)
  BY <1>2 DEF Defers
<1>3. CASE HwBegins(l, m)
  BY <1>3 DEF HwBegins
<1>4. CASE SwBegins(l, m, {})
  BY <1>1, <1>4 DEF SwBegins
<1>5. CASE SwBegins(l, m, l.scanning)
  BY <1>1, <1>5 DEF SwBegins
<1> QED
  BY <1>2, <1>3, <1>4, <1>5

LEMMA StartScanFailsIs ==
  ASSUME NEW l, Good(l), NEW req, NEW m \in StartScanFails(l, req)
  PROVE  /\ Good(m) /\ KeepsRocs(l, m) /\ (SoftEnd(l) => SoftEnd(m))
         /\ m.scan_req = l.scan_req /\ m.asked = l.asked /\ m.hw_scan = l.hw_scan
         /\ m.scan_chan = l.scan_chan /\ m.rx = l.rx /\ m.next = l.next /\ m.idx = l.idx
         /\ m.works = l.works /\ m.armed = l.armed /\ m.stopped = l.stopped
         /\ m = l \/ (l.scan_req = NoRequest /\ m.scanning = {})
<1> DEFINE x == [l EXCEPT !.band = 1, !.scanning = {}]
           y == [l EXCEPT !.scanning = {}]
<1>1. l \in LocalState
  BY DEF Good
<1>2. m = l \/ (l.scan_req = NoRequest /\ (m = x \/ m = y))
  BY DEF StartScanFails
<1>3. CASE m = l
  BY <1>1, <1>3, ScanStepGood DEF RocFields
<1>4. CASE l.scan_req = NoRequest /\ (m = x \/ m = y)
  <2>1. 1 \in 0 .. HwBands
    BY OffChannelAssumption
  <2>2. x \in LocalState /\ y \in LocalState
    BY <1>1, <2>1 DEF LocalState
  <2>3. m \in LocalState
    BY <1>4, <2>2
  <2>4. RocFields(l, m)
    BY <1>1, <1>4 DEF LocalState, RocFields
  <2>5. /\ m.works = l.works /\ m.armed = l.armed /\ m.stopped = l.stopped
        /\ m.hw_roc = l.hw_roc /\ m.tmp_channel = l.tmp_channel /\ m.in_reconfig = l.in_reconfig
        /\ m.scan_req = l.scan_req /\ m.asked = l.asked /\ m.hw_scan = l.hw_scan
        /\ m.scan_chan = l.scan_chan /\ m.rx = l.rx /\ m.scanning = {}
        /\ m.next = l.next /\ m.idx = l.idx
    BY <1>1, <1>4, ZenonT(60) DEF LocalState
  <2>6. KeepsRocs(l, m) /\ Good(m) /\ (SoftEnd(l) => SoftEnd(m))
    BY <2>3, <2>4, <2>5, ScanStepGood
  <2> QED
    BY <1>4, <2>5, <2>6
<1> QED
  BY <1>2, <1>3, <1>4

-----------------------------------------------------------------------------
(* A scan is cancelled. *)

HwCancels(l) == [l EXCEPT !.scanning = @ \cup {"HW_CANCELLED"}]

LEMMA HwCancelsIs ==
  ASSUME NEW l, Good(l)
  PROVE  LET m == HwCancels(l)
         IN  /\ Good(m) /\ KeepsRocs(l, m) /\ (SoftEnd(l) => SoftEnd(m))
             /\ m.scan_req = l.scan_req /\ m.asked = l.asked /\ m.hw_scan = l.hw_scan
             /\ m.scan_chan = l.scan_chan /\ m.rx = l.rx /\ m.next = l.next /\ m.idx = l.idx
             /\ m.works = l.works /\ m.armed = l.armed /\ m.stopped = l.stopped
             /\ m.scanning = l.scanning \cup {"HW_CANCELLED"}
<1> DEFINE m == HwCancels(l)
<1>1. l \in LocalState
  BY DEF Good
<1>2. m \in LocalState
  <2>1. l.scanning \cup {"HW_CANCELLED"} \in SUBSET Flags
    BY <1>1 DEF LocalState, Flags
  <2> QED
    BY <1>1, <2>1 DEF LocalState, HwCancels
<1>3. RocFields(l, m)
  BY <1>1 DEF LocalState, HwCancels, RocFields
<1>4. /\ m.works = l.works /\ m.armed = l.armed /\ m.stopped = l.stopped
      /\ m.hw_roc = l.hw_roc /\ m.tmp_channel = l.tmp_channel /\ m.in_reconfig = l.in_reconfig
      /\ m.scan_req = l.scan_req /\ m.asked = l.asked /\ m.hw_scan = l.hw_scan
      /\ m.scan_chan = l.scan_chan /\ m.rx = l.rx /\ m.next = l.next /\ m.idx = l.idx
      /\ m.scanning = l.scanning \cup {"HW_CANCELLED"}
  BY <1>1 DEF LocalState, HwCancels
<1> HIDE DEF m
<1>5. KeepsRocs(l, m) /\ Good(m) /\ (SoftEnd(l) => SoftEnd(m))
  BY <1>2, <1>3, <1>4, ScanStepGood
<1> QED
  BY <1>4, <1>5 DEF m

LEMMA ScanCancelIs ==
  ASSUME NEW l, NEW m \in ScanCancel(l)
  PROVE  \/ l.scan_req = NoRequest /\ m = l
         \/ l.scan_req # NoRequest /\ "HW" \in l.scanning /\ m = HwCancels(l)
         \/ /\ l.scan_req # NoRequest /\ "HW" \notin l.scanning
            /\ m \in ScanCompleted(CancelWork(l, "scan_work"), TRUE)
  BY DEF ScanCancel, HwCancels

LEMMA ScanCancelGood ==
  ASSUME NEW l, Good(l), Scanned(l), NEW m \in ScanCancel(l)
  PROVE  Handled(l, m)
<1>1. CASE l.scan_req = NoRequest /\ m = l
  BY <1>1 DEF Handled
<1>2. CASE l.scan_req # NoRequest /\ "HW" \in l.scanning /\ m = HwCancels(l)
  <2>1. /\ Good(m) /\ (SoftEnd(l) => SoftEnd(m))
        /\ m.scan_req = l.scan_req /\ m.asked = l.asked /\ m.hw_scan = l.hw_scan
        /\ m.works = l.works /\ m.scanning = l.scanning \cup {"HW_CANCELLED"}
    BY <1>2, HwCancelsIs
  <2> QED
    BY <1>2, <2>1 DEF Handled, Scanned
<1>3. CASE /\ l.scan_req # NoRequest /\ "HW" \notin l.scanning
           /\ m \in ScanCompleted(CancelWork(l, "scan_work"), TRUE)
  <2> DEFINE c == CancelWork(l, "scan_work")
  <2>1. Good(c) /\ ScanFields(l, c) /\ (SoftEnd(l) => SoftEnd(c))
    BY ScanDropped
  <2>2. m \in ScanCompleted(c, TRUE)
    BY <1>3
  <2> HIDE DEF c
  <2>3. Claimed(c)
    BY <2>1, ScannedClaims DEF Claimed, ScanFields
  <2>4. Handled(c, m)
    BY <2>1, <2>2, <2>3, ScanCompletedGood
  <2> QED
    BY <2>1, <2>4 DEF Handled, ScanFields
<1> QED
  BY <1>1, <1>2, <1>3, ScanCancelIs

-----------------------------------------------------------------------------
(* scan_work, up to its loop. *)

WithRequest(l, req) == [l EXCEPT !.scan_req = req]

ReportRead(l) == [l EXCEPT !.scanning = @ \ {"COMPLETED", "ABORTED"}]

LEMMA WithRequestIs ==
  ASSUME NEW l, Good(l), NEW req \in Requests \cup {NoRequest}
  PROVE  LET m == WithRequest(l, req)
         IN  /\ Good(m) /\ KeepsRocs(l, m) /\ (SoftEnd(l) => SoftEnd(m))
             /\ m.scan_req = req /\ m.asked = l.asked /\ m.hw_scan = l.hw_scan
             /\ m.scan_chan = l.scan_chan /\ m.rx = l.rx /\ m.next = l.next /\ m.idx = l.idx
             /\ m.works = l.works /\ m.armed = l.armed /\ m.stopped = l.stopped
             /\ m.scanning = l.scanning /\ m.poll = l.poll
<1> DEFINE m == WithRequest(l, req)
<1>1. l \in LocalState
  BY DEF Good
<1>2. m \in LocalState
  BY <1>1 DEF LocalState, WithRequest
<1>3. RocFields(l, m)
  BY <1>1 DEF LocalState, WithRequest, RocFields
<1>4. /\ m.works = l.works /\ m.armed = l.armed /\ m.stopped = l.stopped
      /\ m.hw_roc = l.hw_roc /\ m.tmp_channel = l.tmp_channel /\ m.in_reconfig = l.in_reconfig
      /\ m.scan_req = req /\ m.asked = l.asked /\ m.hw_scan = l.hw_scan
      /\ m.scan_chan = l.scan_chan /\ m.rx = l.rx /\ m.next = l.next /\ m.idx = l.idx
      /\ m.scanning = l.scanning /\ m.poll = l.poll
  BY <1>1 DEF LocalState, WithRequest
<1> HIDE DEF m
<1>5. KeepsRocs(l, m) /\ Good(m) /\ (SoftEnd(l) => SoftEnd(m))
  BY <1>2, <1>3, <1>4, ScanStepGood
<1> QED
  BY <1>4, <1>5 DEF m

LEMMA ReportReadIs ==
  ASSUME NEW l, Good(l)
  PROVE  LET m == ReportRead(l)
         IN  /\ Good(m) /\ KeepsRocs(l, m) /\ (SoftEnd(l) => SoftEnd(m))
             /\ m.scan_req = l.scan_req /\ m.asked = l.asked /\ m.hw_scan = l.hw_scan
             /\ m.scan_chan = l.scan_chan /\ m.rx = l.rx /\ m.next = l.next /\ m.idx = l.idx
             /\ m.works = l.works /\ m.armed = l.armed /\ m.stopped = l.stopped
             /\ m.scanning = l.scanning \ {"COMPLETED", "ABORTED"}
<1> DEFINE m == ReportRead(l)
<1>1. l \in LocalState
  BY DEF Good
<1>2. m \in LocalState
  BY <1>1 DEF LocalState, ReportRead
<1>3. RocFields(l, m)
  BY <1>1 DEF LocalState, ReportRead, RocFields
<1>4. /\ m.works = l.works /\ m.armed = l.armed /\ m.stopped = l.stopped
      /\ m.hw_roc = l.hw_roc /\ m.tmp_channel = l.tmp_channel /\ m.in_reconfig = l.in_reconfig
      /\ m.scan_req = l.scan_req /\ m.asked = l.asked /\ m.hw_scan = l.hw_scan
      /\ m.scan_chan = l.scan_chan /\ m.rx = l.rx /\ m.next = l.next /\ m.idx = l.idx
      /\ m.scanning = l.scanning \ {"COMPLETED", "ABORTED"}
  BY <1>1 DEF LocalState, ReportRead
<1> HIDE DEF m
<1>5. KeepsRocs(l, m) /\ Good(m) /\ (SoftEnd(l) => SoftEnd(m))
  BY <1>2, <1>3, <1>4, ScanStepGood
<1> QED
  BY <1>4, <1>5 DEF m

LEMMA ScanWorkIs ==
  ASSUME NEW l, ~ScanWorkLoops(l), NEW m \in ScanWork(l)
  PROVE  \/ l.in_reconfig /\ m \in ScanCompleted(l, TRUE)
         \/ /\ ~l.in_reconfig /\ l.scanning \cap {"ONCHANNEL", "COMPLETED"} # {}
            /\ m \in ScanCompleted(ReportRead(l), "ABORTED" \in l.scanning)
         \/ ~l.in_reconfig /\ l.scan_req = NoRequest /\ m = l
            /\ l.scanning \cap {"ONCHANNEL", "COMPLETED"} = {}
         \/ /\ ~l.in_reconfig /\ l.scan_req # NoRequest /\ l.scanning = {}
            /\ m \in StartScan(WithRequest(l, NoRequest), l.scan_req)
         \/ /\ ~l.in_reconfig /\ l.scan_req # NoRequest /\ l.scanning = {}
            /\ \E f \in StartScanFails(WithRequest(l, NoRequest), l.scan_req) :
                 m \in ScanCompleted(WithRequest(f, l.scan_req), TRUE)
  BY DEF ScanWork, ScanWorkLoops, WithRequest, ReportRead

LEMMA ScanWorkGood ==
  ASSUME NEW l, Good(l), Claimed(l), ~ScanWorkLoops(l), NEW m \in ScanWork(l)
  PROVE  Handled(l, m)
<1>1. l \in LocalState /\ l.scan_req \in Requests \cup {NoRequest} /\ NoRequest \notin Requests
  BY OffChannelAssumption DEF Good, LocalState
<1>2. CASE m \in ScanCompleted(l, TRUE)
  BY <1>2, ScanCompletedGood
<1>3. CASE m \in ScanCompleted(ReportRead(l), "ABORTED" \in l.scanning)
  <2> DEFINE d == ReportRead(l)
             aborted == "ABORTED" \in l.scanning
  <2>1. /\ Good(d) /\ (SoftEnd(l) => SoftEnd(d)) /\ d.scan_req = l.scan_req
        /\ d.asked = l.asked /\ d.hw_scan = l.hw_scan
        /\ d.scanning = l.scanning \ {"COMPLETED", "ABORTED"}
    BY ReportReadIs
  <2>2. m \in ScanCompleted(d, aborted)
    BY <1>3
  <2> HIDE DEF d, aborted
  <2>3. Claimed(d)
    BY <2>1 DEF Claimed
  <2>4. Handled(d, m)
    BY <2>1, <2>2, <2>3, ScanCompletedGood
  <2> QED
    BY <2>1, <2>4 DEF Handled
<1>4. CASE l.scan_req = NoRequest /\ m = l
  BY <1>4 DEF Handled, Scanned, Claimed
<1> DEFINE none == WithRequest(l, NoRequest)
<1>5. /\ Good(none) /\ (SoftEnd(l) => SoftEnd(none)) /\ none.scan_req = NoRequest
      /\ none.asked = l.asked /\ none.hw_scan = l.hw_scan /\ none.scanning = l.scanning
  BY WithRequestIs
<1> HIDE DEF none
<1>6. CASE l.scan_req # NoRequest /\ l.scanning = {} /\ m \in StartScan(none, l.scan_req)
  <2>1. l.scan_req \in Requests
    BY <1>1, <1>6
  <2>2. /\ Good(m) /\ (SoftEnd(none) => SoftEnd(m))
        /\ m.scan_req = l.scan_req /\ m.asked = none.asked
        /\ \/ Defers(none, m) \/ HwBegins(none, m)
           \/ SwBegins(none, m, {}) \/ SwBegins(none, m, none.scanning)
    BY <1>5, <1>6, <2>1, StartScanIs
  <2>3. ("HW" \in m.scanning => m.hw_scan) /\ "HW_CANCELLED" \notin m.scanning
    BY <1>5, <1>6, <2>2, BegunScanned
  <2> QED
    BY <1>5, <1>6, <2>2, <2>3 DEF Handled, Scanned, Claimed
<1>7. ASSUME l.scan_req # NoRequest, l.scanning = {},
             NEW f \in StartScanFails(none, l.scan_req),
             m \in ScanCompleted(WithRequest(f, l.scan_req), TRUE)
      PROVE  Handled(l, m)
  <2> DEFINE g == WithRequest(f, l.scan_req)
  <2>1. /\ Good(f) /\ (SoftEnd(none) => SoftEnd(f)) /\ f.asked = none.asked /\ f.scanning = {}
    BY <1>5, <1>7, StartScanFailsIs
  <2>2. /\ Good(g) /\ (SoftEnd(f) => SoftEnd(g)) /\ g.scan_req = l.scan_req
        /\ g.asked = f.asked /\ g.scanning = f.scanning
    BY <1>1, <2>1, WithRequestIs
  <2>3. m \in ScanCompleted(g, TRUE)
    BY <1>7
  <2> HIDE DEF g
  <2>4. Claimed(g)
    BY <1>5, <2>1, <2>2 DEF Claimed
  <2>5. Handled(g, m)
    BY <2>2, <2>3, <2>4, ScanCompletedGood
  <2> QED
    BY <1>5, <1>7, <2>1, <2>2, <2>5 DEF Handled
<1> QED
  BY <1>2, <1>3, <1>4, <1>6, <1>7, ScanWorkIs DEF none

(* Where one turn of the loop leads: the flags, the state, the channel,    *)
(* the index and whether queues and interfaces are stopped.                *)
LoopTo(l, s, n, c, i, b) ==
  [l EXCEPT !.scanning = s, !.next = n, !.scan_chan = c, !.idx = i, !.stopped = b]

LEMMA LoopToIs ==
  ASSUME NEW l, Good(l), NEW s \in SUBSET Flags, NEW n \in ScanStates,
         NEW c \in Chans \cup {NoChan}, NEW i \in Nat, NEW b \in BOOLEAN
  PROVE  LET m == LoopTo(l, s, n, c, i, b)
         IN  /\ Good(m) /\ KeepsRocs(l, m) /\ (SoftEnd(l) => SoftEnd(m))
             /\ m.scan_req = l.scan_req /\ m.asked = l.asked /\ m.hw_scan = l.hw_scan
             /\ m.rx = l.rx /\ m.works = l.works /\ m.armed = l.armed
             /\ m.scanning = s /\ m.next = n /\ m.scan_chan = c /\ m.idx = i /\ m.stopped = b
<1> DEFINE m == LoopTo(l, s, n, c, i, b)
<1>1. l \in LocalState
  BY DEF Good
<1>2. m \in LocalState
  BY <1>1 DEF LocalState, LoopTo
<1>3. RocFields(l, m)
  BY <1>1 DEF LocalState, LoopTo, RocFields
<1>4. /\ m.works = l.works /\ m.armed = l.armed
      /\ m.hw_roc = l.hw_roc /\ m.tmp_channel = l.tmp_channel /\ m.in_reconfig = l.in_reconfig
      /\ m.scan_req = l.scan_req /\ m.asked = l.asked /\ m.hw_scan = l.hw_scan /\ m.rx = l.rx
      /\ m.scanning = s /\ m.next = n /\ m.scan_chan = c /\ m.idx = i /\ m.stopped = b
  BY <1>1 DEF LocalState, LoopTo
<1> HIDE DEF m
<1>5. KeepsRocs(l, m) /\ Good(m) /\ (SoftEnd(l) => SoftEnd(m))
  BY <1>2, <1>3, <1>4, ScanStepGood
<1> QED
  BY <1>4, <1>5 DEF m

(* The kinds of turns: what the loop does in each of its states, and how   *)
(* it is left.                                                             *)
LoopLeads(l, m, lp, s, n, c, i, b) ==
  \/ m = LoopTo(l, s, n, c, i, b) /\ lp
  \/ m = QueueLater(LoopTo(l, s, n, c, i, b), "scan_work") /\ ~lp

Left(l) == l.scanning \ {"BEACON_DONE"}

LEMMA ScanLoopIs ==
  ASSUME looping, Good(local), local.scan_req # NoRequest, ScanLoop
  PROVE  /\ driver' = driver /\ looping' \in BOOLEAN
         /\ \/ /\ LoopState = "DECISION" /\ local.idx < Len(local.scan_req.channels)
               /\ \E n \in {"ABORT", "SUSPEND", "SET_CHANNEL"} :
                    local' = LoopTo(local, Left(local), n, local.scan_chan, local.idx, local.stopped)
               /\ looping'
            \/ /\ LoopState = "SET_CHANNEL"
               /\ \E c \in ChannelRead : \E n \in {"DECISION", "SEND_PROBE"},
                     wait \in {{}, {"BEACON_WAIT"}} :
                    /\ looping' => wait = {}
                    /\ LoopLeads(local, local', looping', Left(local) \cup wait, n, c,
                                 local.idx + 1, local.stopped)
            \/ /\ LoopState = "SEND_PROBE"
               /\ LoopLeads(local, local', looping', Left(local), "DECISION", local.scan_chan,
                            local.idx, local.stopped) /\ ~looping'
            \/ /\ LoopState = "SUSPEND"
               /\ LoopLeads(local, local', looping', Left(local), "RESUME", NoChan,
                            local.idx, FALSE) /\ ~looping'
            \/ /\ LoopState = "RESUME"
               /\ LoopLeads(local, local', looping', Left(local), "SET_CHANNEL", local.scan_chan,
                            local.idx, TRUE)
            \/ \E aborted \in BOOLEAN :
                 local' \in ScanCompleted(LoopTo(local, Left(local), LoopState, local.scan_chan,
                                                 local.idx, local.stopped), aborted)
                 /\ ~looping'
<1>1. local \in LocalState /\ LoopState \in ScanStates
  BY DEF Good, LoopState, LocalState, ScanStates
<1>2. Turn = LoopTo(local, Left(local), LoopState, local.scan_chan, local.idx, local.stopped)
  BY <1>1 DEF Turn, LoopTo, Left, LocalState
<1>3. driver' = driver
  BY DEF ScanLoop
<1>4. CASE LoopState = "DECISION" /\ Decision
  <2>1. CASE LoopEnds(FALSE)
    BY <1>2, <1>3, <2>1 DEF LoopEnds
  <2>2. ASSUME local.idx < Len(local.scan_req.channels),
               NEW n \in {"ABORT", "SUSPEND", "SET_CHANNEL"}, LoopOn([Turn EXCEPT !.next = n])
        PROVE  /\ local' = LoopTo(local, Left(local), n, local.scan_chan, local.idx, local.stopped)
               /\ looping' = TRUE
    BY <1>1, <1>2, <2>2 DEF LoopOn, LoopTo, LocalState
  <2>3. \/ LoopEnds(FALSE)
        \/ /\ local.idx < Len(local.scan_req.channels)
           /\ \E n \in {"ABORT", "SUSPEND", "SET_CHANNEL"} : LoopOn([Turn EXCEPT !.next = n])
    BY <1>4 DEF Decision
  <2> QED
    BY <1>3, <1>4, <2>1, <2>2, <2>3
<1>5. CASE LoopState = "SET_CHANNEL" /\ SetChannel
  <2>1. PICK c \in ChannelRead :
           LET tuned == [Turn EXCEPT !.scan_chan = c, !.idx = @ + 1]
           IN  \/ LoopOn([tuned EXCEPT !.next = "DECISION"])
               \/ \E wait \in {{}, {"BEACON_WAIT"}} :
                    LoopWait([tuned EXCEPT !.next = "DECISION", !.scanning = @ \cup wait])
               \/ LoopWait([tuned EXCEPT !.next = "SEND_PROBE"])
    BY <1>5 DEF SetChannel
  <2> DEFINE tuned == [Turn EXCEPT !.scan_chan = c, !.idx = @ + 1]
             to(s, n) == LoopTo(local, s, n, c, local.idx + 1, local.stopped)
  <2>2. [tuned EXCEPT !.next = "DECISION"] = to(Left(local) \cup {}, "DECISION")
    BY <1>1, <1>2, ZenonT(60) DEF LoopTo, LocalState
  <2>3. [tuned EXCEPT !.next = "SEND_PROBE"] = to(Left(local) \cup {}, "SEND_PROBE")
    BY <1>1, <1>2, ZenonT(60) DEF LoopTo, LocalState
  <2>4. \A wait : [tuned EXCEPT !.next = "DECISION", !.scanning = @ \cup wait]
                    = to(Left(local) \cup wait, "DECISION")
    BY <1>1, <1>2, ZenonT(60) DEF LoopTo, LocalState
  <2>5. CASE LoopOn([tuned EXCEPT !.next = "DECISION"])
    <3>1. LoopLeads(local, local', looping', Left(local) \cup {}, "DECISION", c,
                    local.idx + 1, local.stopped) /\ looping' = TRUE
      BY <2>2, <2>5 DEF LoopOn, LoopLeads
    <3> QED
      BY <1>3, <1>5, <3>1
  <2>6. ASSUME NEW wait \in {{}, {"BEACON_WAIT"}},
               LoopWait([tuned EXCEPT !.next = "DECISION", !.scanning = @ \cup wait])
        PROVE  LoopLeads(local, local', looping', Left(local) \cup wait, "DECISION", c,
                         local.idx + 1, local.stopped) /\ looping' = FALSE
    BY <2>4, <2>6 DEF LoopWait, LoopLeads
  <2>7. CASE LoopWait([tuned EXCEPT !.next = "SEND_PROBE"])
    <3>1. LoopLeads(local, local', looping', Left(local) \cup {}, "SEND_PROBE", c,
                    local.idx + 1, local.stopped) /\ looping' = FALSE
      BY <2>3, <2>7 DEF LoopWait, LoopLeads
    <3> QED
      BY <1>3, <1>5, <3>1
  <2>8. CASE \E wait \in {{}, {"BEACON_WAIT"}} :
               LoopWait([tuned EXCEPT !.next = "DECISION", !.scanning = @ \cup wait])
    <3>1. PICK wait \in {{}, {"BEACON_WAIT"}} :
            LoopLeads(local, local', looping', Left(local) \cup wait, "DECISION", c,
                      local.idx + 1, local.stopped) /\ looping' = FALSE
      BY <2>6, <2>8
    <3> QED
      BY <1>3, <1>5, <3>1
  <2> QED
    BY <2>1, <2>5, <2>7, <2>8
<1>6. CASE LoopState = "SEND_PROBE" /\ SendProbe
  <2>1. [Turn EXCEPT !.next = "DECISION"]
          = LoopTo(local, Left(local), "DECISION", local.scan_chan, local.idx, local.stopped)
    BY <1>1, <1>2 DEF LoopTo, LocalState
  <2> QED
    BY <1>3, <1>6, <2>1 DEF SendProbe, LoopWait, LoopLeads
<1>7. CASE LoopState = "SUSPEND" /\ Suspend
  <2>1. OffchannelReturn([Turn EXCEPT !.scan_chan = NoChan, !.next = "RESUME"])
          = LoopTo(local, Left(local), "RESUME", NoChan, local.idx, FALSE)
    BY <1>1, <1>2 DEF LoopTo, LocalState, OffchannelReturn
  <2> QED
    BY <1>3, <1>7, <2>1 DEF Suspend, LoopWait, LoopLeads
<1>8. CASE LoopState = "RESUME" /\ Resume
  <2>1. StopVifs([Turn EXCEPT !.next = "SET_CHANNEL"])
          = LoopTo(local, Left(local), "SET_CHANNEL", local.scan_chan, local.idx, TRUE)
    BY <1>1, <1>2 DEF LoopTo, LocalState, StopVifs
  <2> QED
    BY <1>3, <1>8, <2>1 DEF Resume, LoopWait, LoopOn, LoopLeads
<1>9. CASE LoopEnds(TRUE)
  BY <1>2, <1>3, <1>9 DEF LoopEnds
<1> QED
  BY <1>1, <1>4, <1>5, <1>6, <1>7, <1>8, <1>9 DEF ScanLoop, ScanStates

LEMMA ScanLoopGood ==
  ASSUME looping, Good(local), Scanned(local), local.scan_req # NoRequest, ScanLoop
  PROVE  /\ Handled(local, local') /\ driver' = driver /\ looping' \in BOOLEAN
         /\ looping' => local'.scan_req # NoRequest
<1>1. /\ local \in LocalState /\ local.scanning \subseteq Flags /\ Left(local) \subseteq Flags
      /\ LoopState \in ScanStates /\ local.scan_chan \in Chans \cup {NoChan}
      /\ local.idx \in Nat /\ local.idx + 1 \in Nat /\ local.stopped \in BOOLEAN
  BY DEF Good, LocalState, Left, LoopState, ScanStates
<1>2. driver' = driver /\ looping' \in BOOLEAN
  BY ScanLoopIs
<1>3. ChannelRead \subseteq Chans
  <2>1. local.scan_req \in [user : BOOLEAN, iface : Ifaces, channels : Seq(Chans)]
    BY <1>1, OffChannelAssumption DEF LocalState
  <2>2. local.scan_req.channels \in Seq(Chans)
    BY <2>1
  <2> DEFINE cs == local.scan_req.channels
  <2> HIDE DEF cs
  <2>3. cs \in Seq(Chans) /\ (local.idx < Len(cs) => cs[local.idx + 1] \in Chans)
    <3>1. cs \in Seq(Chans)
      BY <2>2 DEF cs
    <3> QED
      BY <1>1, <3>1
  <2> QED
    BY <2>3 DEF ChannelRead, cs
<1>4. ASSUME NEW wait \in {{}, {"BEACON_WAIT"}}, NEW n \in ScanStates,
             NEW c \in Chans \cup {NoChan}, NEW i \in Nat, NEW b \in BOOLEAN,
             LoopLeads(local, local', looping', Left(local) \cup wait, n, c, i, b)
      PROVE  Handled(local, local') /\ local'.scan_req = local.scan_req
  <2> DEFINE s == Left(local) \cup wait
             x == LoopTo(local, s, n, c, i, b)
             y == QueueLater(x, "scan_work")
  <2>1. s \in SUBSET Flags
    BY <1>1 DEF Flags
  <2>2. \A f \in {"HW", "HW_CANCELLED", "COMPLETED"} : f \in s <=> f \in local.scanning
    BY DEF Left
  <2> HIDE DEF s
  <2>3. /\ Good(x) /\ (SoftEnd(local) => SoftEnd(x))
        /\ x.scan_req = local.scan_req /\ x.asked = local.asked /\ x.hw_scan = local.hw_scan
        /\ x.works = local.works /\ x.scanning = s
    BY <2>1, LoopToIs
  <2>4. local' = x \/ local' = y
    BY <1>4 DEF LoopLeads, s
  <2> HIDE DEF x
  <2>5. /\ Good(y) /\ ScanFields(x, y) /\ (SoftEnd(x) => SoftEnd(y)) /\ y.works = x.works
    BY <2>3, ScanArmed
  <2> HIDE DEF y
  <2>6. /\ Good(local') /\ (SoftEnd(local) => SoftEnd(local'))
        /\ local'.scan_req = local.scan_req /\ local'.asked = local.asked
        /\ local'.hw_scan = local.hw_scan
        /\ local'.works = local.works /\ local'.scanning = s
    BY <2>3, <2>4, <2>5 DEF ScanFields
  <2>7. Scanned(local')
    BY <2>2, <2>6 DEF Scanned
  <2> QED
    BY <2>6, <2>7 DEF Handled
<1>5. ASSUME NEW aborted,
             local' \in ScanCompleted(LoopTo(local, Left(local), LoopState, local.scan_chan,
                                             local.idx, local.stopped), aborted)
      PROVE  Handled(local, local')
  <2> DEFINE x == LoopTo(local, Left(local), LoopState, local.scan_chan, local.idx, local.stopped)
  <2>1. /\ Good(x) /\ (SoftEnd(local) => SoftEnd(x))
        /\ x.scan_req = local.scan_req /\ x.asked = local.asked /\ x.hw_scan = local.hw_scan
        /\ x.scanning = Left(local)
    BY <1>1, LoopToIs
  <2>2. local' \in ScanCompleted(x, aborted)
    BY <1>5
  <2> HIDE DEF x
  <2>3. Claimed(x)
    BY <2>1 DEF Scanned, Claimed, Left
  <2>4. Handled(x, local')
    BY <2>1, <2>2, <2>3, ScanCompletedGood
  <2> QED
    BY <2>1, <2>4 DEF Handled, Left
<1>6. {"DECISION", "ABORT", "SUSPEND", "SET_CHANNEL", "SEND_PROBE", "RESUME"} \subseteq ScanStates
  BY DEF ScanStates
<1>7. Left(local) \cup {} = Left(local) /\ {} \in {{}, {"BEACON_WAIT"}}
  OBVIOUS
<1>8. CASE /\ \E n \in {"ABORT", "SUSPEND", "SET_CHANNEL"} :
                local' = LoopTo(local, Left(local), n, local.scan_chan, local.idx, local.stopped)
           /\ looping'
  <2>1. PICK n \in {"ABORT", "SUSPEND", "SET_CHANNEL"} :
          LoopLeads(local, local', looping', Left(local) \cup {}, n, local.scan_chan,
                    local.idx, local.stopped)
    BY <1>7, <1>8 DEF LoopLeads
  <2> QED
    BY <1>1, <1>2, <1>4, <1>6, <1>7, <2>1
<1>9. CASE \E c \in ChannelRead : \E n \in {"DECISION", "SEND_PROBE"},
                  wait \in {{}, {"BEACON_WAIT"}} :
             LoopLeads(local, local', looping', Left(local) \cup wait, n, c,
                       local.idx + 1, local.stopped)
  <2>1. PICK c \in ChannelRead, n \in {"DECISION", "SEND_PROBE"}, wait \in {{}, {"BEACON_WAIT"}} :
             LoopLeads(local, local', looping', Left(local) \cup wait, n, c,
                       local.idx + 1, local.stopped)
    BY <1>9
  <2>2. /\ c \in Chans \cup {NoChan} /\ n \in ScanStates
        /\ wait \in {{}, {"BEACON_WAIT"}}
    BY <1>3, <1>6
  <2> DEFINE i == local.idx + 1
  <2>3. /\ i \in Nat /\ local.stopped \in BOOLEAN
        /\ LoopLeads(local, local', looping', Left(local) \cup wait, n, c, i, local.stopped)
    BY <1>1, <2>1
  <2> HIDE DEF i
  <2>4. Handled(local, local') /\ local'.scan_req = local.scan_req
    BY <1>4, <2>2, <2>3, SMTT(40)
  <2> QED
    BY <1>2, <2>4
<1>10. CASE LoopLeads(local, local', looping', Left(local), "DECISION", local.scan_chan,
                      local.idx, local.stopped)
  BY <1>1, <1>2, <1>4, <1>6, <1>7, <1>10
<1>11. CASE LoopLeads(local, local', looping', Left(local), "RESUME", NoChan, local.idx, FALSE)
  BY <1>1, <1>2, <1>4, <1>6, <1>7, <1>11
<1>12. CASE LoopLeads(local, local', looping', Left(local), "SET_CHANNEL", local.scan_chan,
                      local.idx, TRUE)
  BY <1>1, <1>2, <1>4, <1>6, <1>7, <1>12
<1>13. \/ <1>8!1 \/ <1>9!1 \/ <1>10!1 \/ <1>11!1 \/ <1>12!1
       \/ /\ ~looping'
          /\ \E aborted \in BOOLEAN :
               local' \in ScanCompleted(LoopTo(local, Left(local), LoopState, local.scan_chan,
                                               local.idx, local.stopped), aborted)
  BY ScanLoopIs
<1> QED
  BY <1>2, <1>5, <1>8, <1>9, <1>10, <1>11, <1>12, <1>13

-----------------------------------------------------------------------------
(* One lemma for each action: the part that holds whatever happens. *)

Sound ==
  /\ driver \in Drivers /\ looping \in BOOLEAN
  /\ Good(local) /\ SoftEnd(local) /\ Scanned(local)
  /\ looping => local.scan_req # NoRequest

SoundStep ==
  /\ Handled(local, local') /\ driver' = driver /\ looping' \in BOOLEAN
  /\ looping' => local'.scan_req # NoRequest

LEMMA RocHandled ==
  ASSUME NEW l, Scanned(l), NEW m, Good(m), SameScan(l, m), SoftEnd(l) => SoftEnd(m)
  PROVE  Handled(l, m) /\ m.scan_req = l.scan_req
<1>1. Scanned(m) /\ m.hw_scan = l.hw_scan
  BY SameScanned
<1> QED
  BY <1>1 DEF Handled, SameScan, ScanFields

LEMMA HandledThen ==
  ASSUME NEW l, NEW m, NEW n, Handled(l, m), Good(n), SameScan(m, n), SoftEnd(m) => SoftEnd(n)
  PROVE  Handled(l, n) /\ n.scan_req = m.scan_req
<1>1. Scanned(m)
  BY DEF Handled
<1>2. Scanned(n) /\ n.hw_scan = m.hw_scan /\ n.scan_req = m.scan_req
  BY <1>1, SameScanned DEF SameScan, ScanFields
<1> QED
  BY <1>2 DEF Handled

(* The fields that no scan and no ROC uses. *)
LEMMA OtherFields ==
  ASSUME NEW l, Good(l), NEW m \in LocalState, ScanFields(l, m) \/ (m.in_reconfig # l.in_reconfig),
         RocFields(l, m), m.works = l.works, m.armed = l.armed, m.hw_roc = l.hw_roc,
         m.scan_req = l.scan_req, m.scanning = l.scanning, m.asked = l.asked, m.hw_scan = l.hw_scan
  PROVE  Good(m) /\ (SoftEnd(l) => SoftEnd(m)) /\ (Scanned(l) => Handled(l, m))
<1>1. Listed(l) /\ OwnWorks(l)
  BY DEF Good
<1>2. Listed(m)
  BY <1>1 DEF Listed, RocFields
<1>3. OwnWorks(m)
  BY <1>1 DEF OwnWorks, Queued, RocFields
<1>4. SoftEnd(l) => SoftEnd(m)
  BY DEF SoftEnd, Queued, RocFields
<1>5. Scanned(l) => Scanned(m)
  BY DEF Scanned
<1> QED
  BY <1>2, <1>3, <1>4, <1>5 DEF Good, Handled

(* in_reconfig and poll are set and cleared. *)
ReconfigTo(l, v) == [l EXCEPT !.in_reconfig = v]
PollTo(l, s)     == [l EXCEPT !.poll = s]

LEMMA ReconfigToIs ==
  ASSUME NEW l, Good(l), NEW v \in BOOLEAN
  PROVE  LET m == ReconfigTo(l, v)
         IN  /\ Good(m) /\ (SoftEnd(l) => SoftEnd(m)) /\ (Scanned(l) => Handled(l, m))
             /\ RocFields(l, m) /\ m.works = l.works /\ m.armed = l.armed /\ m.hw_roc = l.hw_roc
             /\ m.tmp_channel = l.tmp_channel /\ m.stopped = l.stopped
             /\ m.scan_req = l.scan_req /\ m.scanning = l.scanning /\ m.next = l.next
             /\ m.idx = l.idx /\ m.scan_chan = l.scan_chan /\ m.rx = l.rx
             /\ m.hw_scan = l.hw_scan /\ m.asked = l.asked /\ m.in_reconfig = v
<1> DEFINE m == ReconfigTo(l, v)
<1>1. l \in LocalState
  BY DEF Good
<1>2. m \in LocalState
  BY <1>1 DEF LocalState, ReconfigTo
<1>3. RocFields(l, m)
  BY <1>1 DEF LocalState, ReconfigTo, RocFields
<1>4. /\ m.works = l.works /\ m.armed = l.armed /\ m.hw_roc = l.hw_roc
      /\ m.tmp_channel = l.tmp_channel /\ m.stopped = l.stopped
      /\ m.scan_req = l.scan_req /\ m.scanning = l.scanning /\ m.next = l.next
      /\ m.idx = l.idx /\ m.scan_chan = l.scan_chan /\ m.rx = l.rx
      /\ m.hw_scan = l.hw_scan /\ m.asked = l.asked /\ m.in_reconfig = v
  BY <1>1 DEF LocalState, ReconfigTo
<1> HIDE DEF m
<1>5. ScanFields(l, m) \/ m.in_reconfig # l.in_reconfig
  BY <1>4 DEF ScanFields
<1>6. Good(m) /\ (SoftEnd(l) => SoftEnd(m)) /\ (Scanned(l) => Handled(l, m))
  BY <1>2, <1>3, <1>4, <1>5, OtherFields
<1> QED
  BY <1>3, <1>4, <1>6 DEF m

LEMMA PollToIs ==
  ASSUME NEW l, Good(l), NEW s \in SUBSET Ifaces
  PROVE  LET m == PollTo(l, s)
         IN  /\ Good(m) /\ (SoftEnd(l) => SoftEnd(m)) /\ (Scanned(l) => Handled(l, m))
             /\ RocFields(l, m) /\ m.works = l.works /\ m.armed = l.armed /\ m.hw_roc = l.hw_roc
             /\ m.tmp_channel = l.tmp_channel /\ m.stopped = l.stopped
             /\ SameScan(l, m)
<1> DEFINE m == PollTo(l, s)
<1>1. l \in LocalState
  BY DEF Good
<1>2. m \in LocalState
  BY <1>1 DEF LocalState, PollTo
<1>3. RocFields(l, m)
  BY <1>1 DEF LocalState, PollTo, RocFields
<1>4. ScanFields(l, m)
  BY <1>1 DEF LocalState, PollTo, ScanFields
<1>5. /\ m.works = l.works /\ m.armed = l.armed /\ m.hw_roc = l.hw_roc
      /\ m.tmp_channel = l.tmp_channel /\ m.stopped = l.stopped
  BY <1>1 DEF LocalState, PollTo
<1> HIDE DEF m
<1>6. Good(m) /\ (SoftEnd(l) => SoftEnd(m)) /\ (Scanned(l) => Handled(l, m))
  BY <1>2, <1>3, <1>4, <1>5, OtherFields DEF ScanFields
<1>7. SameScan(l, m)
  BY <1>4, <1>5 DEF SameScan
<1> QED
  BY <1>3, <1>5, <1>6, <1>7 DEF m

(* cfg80211 waits for the scan it has asked for. *)
Asking(l, req) == [l EXCEPT !.asked = @ \/ req.user]

LEMMA AskingIs ==
  ASSUME NEW l, Good(l), NEW req \in Requests
  PROVE  LET m == Asking(l, req)
         IN  /\ Good(m) /\ KeepsRocs(l, m) /\ (SoftEnd(l) => SoftEnd(m))
             /\ m.scan_req = l.scan_req /\ m.scanning = l.scanning /\ m.next = l.next
             /\ m.idx = l.idx /\ m.scan_chan = l.scan_chan /\ m.rx = l.rx
             /\ m.hw_scan = l.hw_scan /\ m.asked = (l.asked \/ req.user)
             /\ m.works = l.works /\ m.armed = l.armed /\ m.stopped = l.stopped
<1> DEFINE m == Asking(l, req)
<1>1. l \in LocalState
  BY DEF Good
<1>2. (l.asked \/ req.user) \in BOOLEAN
  OBVIOUS
<1>3. m = [l EXCEPT !.asked = (l.asked \/ req.user)]
  BY DEF Asking
<1> HIDE DEF m
<1>4. m \in LocalState
  BY <1>1, <1>2, <1>3 DEF LocalState
<1>5. RocFields(l, m)
  BY <1>1, <1>3 DEF LocalState, RocFields
<1>6. /\ m.scan_req = l.scan_req /\ m.scanning = l.scanning /\ m.next = l.next
      /\ m.idx = l.idx /\ m.scan_chan = l.scan_chan /\ m.rx = l.rx
      /\ m.hw_scan = l.hw_scan /\ m.asked = (l.asked \/ req.user)
      /\ m.works = l.works /\ m.armed = l.armed /\ m.stopped = l.stopped
      /\ m.hw_roc = l.hw_roc /\ m.tmp_channel = l.tmp_channel /\ m.in_reconfig = l.in_reconfig
  BY <1>1, <1>3 DEF LocalState
<1>7. KeepsRocs(l, m) /\ Good(m) /\ (SoftEnd(l) => SoftEnd(m))
  BY <1>4, <1>5, <1>6, ScanStepGood
<1> QED
  BY <1>6, <1>7 DEF m

LEMMA RequestScanSound ==
  ASSUME Sound, NEW req \in Requests, RequestScan(req)
  PROVE  SoundStep
<1>1. /\ Good(local) /\ SoftEnd(local) /\ Scanned(local) /\ ~looping
      /\ local.scan_req \in Requests \cup {NoRequest} /\ NoRequest \notin Requests
      /\ req.user \in BOOLEAN /\ local.asked \in BOOLEAN /\ looping \in BOOLEAN
  BY OffChannelAssumption DEF Sound, Good, LocalState, RequestScan, Free
<1>2. CASE Becomes({[m EXCEPT !.asked = @ \/ req.user] : m \in StartScan(local, req)})
  <2>1. PICK m \in StartScan(local, req) : local' = Asking(m, req)
    BY <1>2 DEF Becomes, Asking
  <2>2. /\ Good(m) /\ (SoftEnd(local) => SoftEnd(m))
        /\ local.scan_req = NoRequest /\ m.scan_req = req /\ m.asked = local.asked
        /\ \/ Defers(local, m) \/ HwBegins(local, m)
           \/ SwBegins(local, m, {}) \/ SwBegins(local, m, local.scanning)
    BY <1>1, StartScanIs
  <2>3. "HW" \notin local.scanning /\ "HW_CANCELLED" \notin local.scanning /\ ~local.asked
    BY <1>1, <2>2 DEF Scanned
  <2>4. ("HW" \in m.scanning => m.hw_scan) /\ "HW_CANCELLED" \notin m.scanning
    BY <2>2, <2>3, BegunScanned
  <2>5. /\ Good(local') /\ (SoftEnd(m) => SoftEnd(local'))
        /\ local'.scan_req = m.scan_req /\ local'.scanning = m.scanning
        /\ local'.hw_scan = m.hw_scan /\ local'.asked = (m.asked \/ req.user)
    BY <2>1, <2>2, AskingIs
  <2>6. Scanned(local')
    BY <1>1, <2>2, <2>3, <2>4, <2>5 DEF Scanned
  <2>7. driver' = driver /\ looping' = looping
    BY <1>2 DEF Becomes
  <2>8. Handled(local, local')
    BY <1>1, <2>2, <2>3, <2>5, <2>6 DEF Handled
  <2> QED
    BY <1>1, <2>7, <2>8 DEF SoundStep
<1>3. CASE Becomes(StartScanFails(local, req))
  <2>1. local' \in StartScanFails(local, req)
    BY <1>3 DEF Becomes
  <2>2. /\ Good(local') /\ (SoftEnd(local) => SoftEnd(local'))
        /\ local'.scan_req = local.scan_req /\ local'.asked = local.asked
        /\ local'.hw_scan = local.hw_scan
        /\ local' = local \/ (local.scan_req = NoRequest /\ local'.scanning = {})
    BY <1>1, <2>1, StartScanFailsIs
  <2>3. Scanned(local')
    BY <1>1, <2>2 DEF Scanned
  <2>4. driver' = driver /\ looping' = looping
    BY <1>3 DEF Becomes
  <2>5. Handled(local, local')
    BY <1>1, <2>2, <2>3 DEF Handled
  <2> QED
    BY <1>1, <2>4, <2>5 DEF SoundStep
<1> QED
  BY <1>2, <1>3 DEF RequestScan

LEMMA RequestRocSound ==
  ASSUME Sound, NEW r \in Rocs, RequestRoc(r)
  PROVE  SoundStep
<1>1. local' \in StartRoc(local, r) /\ ~Contains(local.roc_list, r)
      /\ UNCHANGED <<driver, looping>> /\ ~looping
  BY DEF RequestRoc, Becomes, Free
<1>2. Good(local') /\ SameScan(local, local') /\ SoftEnd(local')
  BY <1>1, StartRocGood DEF Sound
<1>3. Handled(local, local')
  BY <1>2, RocHandled DEF Sound
<1> QED
  BY <1>1, <1>3 DEF SoundStep, Sound

LEMMA CancelSound ==
  ASSUME Sound, NEW r \in Rocs, Cancel(r)
  PROVE  SoundStep
<1>1. PICK l \in {local} \cup LateReport : local' \in CancelRoc(l, r)
  BY DEF Cancel, Becomes
<1>2. UNCHANGED <<driver, looping>> /\ ~looping
  BY DEF Cancel, Becomes, Free
<1>3. Good(l) /\ SameScan(local, l) /\ SoftEnd(l)
  <2>1. CASE l = local
    BY <2>1 DEF Sound, SameScan, ScanFields
  <2>2. CASE l \in Reported(local)
    BY <2>2, ReportedIs DEF Sound
  <2> QED
    BY <2>1, <2>2 DEF LateReport
<1>4. Good(local') /\ SameScan(l, local') /\ SoftEnd(local')
  BY <1>1, <1>3, CancelRocGood
<1>5. SameScan(local, local')
  BY <1>3, <1>4, SameScanTrans
<1>6. Handled(local, local')
  BY <1>4, <1>5, RocHandled DEF Sound
<1> QED
  BY <1>2, <1>6 DEF SoundStep, Sound

LEMMA AbortScanSound ==
  ASSUME Sound, AbortScan
  PROVE  SoundStep
<1>1. local' \in ScanCancel(local) /\ UNCHANGED <<driver, looping>> /\ ~looping
  BY DEF AbortScan, Becomes, Free
<1>2. Handled(local, local')
  BY <1>1, ScanCancelGood DEF Sound
<1> QED
  BY <1>1, <1>2 DEF SoundStep, Sound

LEMMA QuiesceSound ==
  ASSUME Sound, NEW ifs, Quiesce(ifs)
  PROVE  SoundStep
<1>1. UNCHANGED <<driver, looping>> /\ ~looping
  BY DEF Quiesce, Becomes, Free
<1>2. PICK m : (m = local \/ m \in ScanCancel(local)) /\ local' \in RocPurge(m, ifs)
  BY DEF Quiesce, Becomes
<1>3. Handled(local, m) /\ SoftEnd(m)
  <2>1. CASE m = local
    BY <2>1 DEF Sound, Handled
  <2>2. CASE m \in ScanCancel(local)
    BY <2>2, ScanCancelGood DEF Sound, Handled
  <2> QED
    BY <1>2, <2>1, <2>2
<1>4. Good(local') /\ SameScan(m, local') /\ SoftEnd(local')
  BY <1>2, <1>3, RocPurgeGood DEF Handled
<1>5. Handled(local, local')
  BY <1>3, <1>4, HandledThen
<1> QED
  BY <1>1, <1>5 DEF SoundStep, Sound

LEMMA DriverSound ==
  ASSUME Sound,
         \/ \E aborted \in BOOLEAN : DriverScanDone(aborted)
         \/ DriverReady \/ DriverExpired \/ RestartHw
  PROVE  SoundStep
<1>1. Good(local) /\ local \in LocalState /\ Scanned(local) /\ SoftEnd(local)
  BY DEF Sound, Good
<1>2. ASSUME NEW aborted \in BOOLEAN, DriverScanDone(aborted)
      PROVE  Handled(local, local') /\ local'.scan_req = local.scan_req
             /\ driver' = driver /\ looping' = looping
  <2> DEFINE s == local.scanning \cup {"COMPLETED"} \cup (IF aborted THEN {"ABORTED"} ELSE {})
             x == [local EXCEPT !.hw_scan = FALSE, !.scanning = s]
  <2>1. local' = QueueWork(x, "scan_work") /\ local.hw_scan /\ driver' = driver
        /\ looping' = looping
    BY <1>2 DEF DriverScanDone, Becomes
  <2>2. s \in SUBSET Flags /\ "COMPLETED" \in s
    BY <1>1 DEF LocalState, Flags
  <2>3. \A f \in {"HW", "HW_CANCELLED"} : f \in s <=> f \in local.scanning
    OBVIOUS
  <2> HIDE DEF s
  <2>4. x \in LocalState
    BY <1>1, <2>2 DEF LocalState
  <2>5. RocFields(local, x)
    BY <1>1 DEF LocalState, RocFields
  <2>6. /\ x.works = local.works /\ x.armed = local.armed /\ x.hw_roc = local.hw_roc
        /\ x.tmp_channel = local.tmp_channel /\ x.in_reconfig = local.in_reconfig
        /\ x.scan_req = local.scan_req /\ x.asked = local.asked /\ x.scanning = s /\ ~x.hw_scan
    BY <1>1 DEF LocalState
  <2> HIDE DEF x
  <2>7. Good(x) /\ (SoftEnd(local) => SoftEnd(x))
    BY <1>1, <2>4, <2>5, <2>6, ScanStepGood
  <2>8. /\ Good(local') /\ ScanFields(x, local') /\ (SoftEnd(x) => SoftEnd(local'))
        /\ Contains(local'.works, "scan_work")
    BY <2>1, <2>7, ScanQueued
  <2> QED
    BY <1>1, <2>1, <2>2, <2>3, <2>6, <2>7, <2>8 DEF Handled, Scanned, ScanFields
<1>3. ASSUME DriverReady
      PROVE  Handled(local, local') /\ local'.scan_req = local.scan_req
             /\ driver' = driver /\ looping' = looping
  <2>1. local' \in Reported(local) /\ driver' = driver /\ looping' = looping
    BY <1>3 DEF DriverReady, Becomes
  <2>2. Good(local') /\ SameScan(local, local') /\ SoftEnd(local')
    BY <1>1, <2>1, ReportedIs
  <2> QED
    BY <1>1, <2>1, <2>2, RocHandled
<1>4. ASSUME DriverExpired
      PROVE  Handled(local, local') /\ local'.scan_req = local.scan_req
             /\ driver' = driver /\ looping' = looping
  <2> DEFINE x == [local EXCEPT !.hw_roc = "idle"]
  <2>1. local' = QueueWork(x, "hw_roc_done") /\ local.hw_roc # "idle" /\ driver' = driver
        /\ looping' = looping
    BY <1>4 DEF DriverExpired, Becomes
  <2>2. driver.roc
    BY <1>1, <2>1 DEF Good, OwnWorks
  <2>3. Good(x) /\ SameScan(local, x)
    BY <1>1, HwRocGood
  <2> HIDE DEF x
  <2>4. Good(local') /\ SameScan(x, local')
    BY <2>1, <2>2, <2>3, QueueRocWork
  <2>5. SameScan(local, local') /\ SoftEnd(local')
    BY <2>2, <2>3, <2>4, SameScanTrans DEF SoftEnd
  <2> QED
    BY <1>1, <2>1, <2>4, <2>5, RocHandled
<1>5. ASSUME RestartHw
      PROVE  Handled(local, local') /\ local'.scan_req = local.scan_req
             /\ driver' = driver /\ looping' = looping
  <2>1. local' = ReconfigTo(local, TRUE) /\ driver' = driver /\ looping' = looping
    BY <1>5 DEF RestartHw, Becomes, ReconfigTo
  <2> QED
    BY <1>1, <2>1, ReconfigToIs
<1>6. looping \in BOOLEAN /\ (looping => local.scan_req # NoRequest)
  BY DEF Sound
<1> QED
  BY <1>2, <1>3, <1>4, <1>5, <1>6 DEF SoundStep

(* The receive path. *)
Waited(l, s, rx) == [l EXCEPT !.scanning = s, !.rx = rx]

LEMMA WaitedIs ==
  ASSUME NEW l, Good(l), NEW s \in SUBSET Flags, NEW rx \in BOOLEAN
  PROVE  LET m == Waited(l, s, rx)
         IN  /\ Good(m) /\ KeepsRocs(l, m) /\ (SoftEnd(l) => SoftEnd(m))
             /\ m.scan_req = l.scan_req /\ m.next = l.next /\ m.idx = l.idx
             /\ m.scan_chan = l.scan_chan /\ m.hw_scan = l.hw_scan /\ m.asked = l.asked
             /\ m.works = l.works /\ m.armed = l.armed /\ m.stopped = l.stopped
             /\ m.scanning = s /\ m.rx = rx
<1> DEFINE m == Waited(l, s, rx)
<1>1. l \in LocalState
  BY DEF Good
<1>2. m \in LocalState
  BY <1>1 DEF LocalState, Waited
<1>3. RocFields(l, m)
  BY <1>1 DEF LocalState, Waited, RocFields
<1>4. /\ m.scan_req = l.scan_req /\ m.next = l.next /\ m.idx = l.idx
      /\ m.scan_chan = l.scan_chan /\ m.hw_scan = l.hw_scan /\ m.asked = l.asked
      /\ m.works = l.works /\ m.armed = l.armed /\ m.stopped = l.stopped
      /\ m.hw_roc = l.hw_roc /\ m.tmp_channel = l.tmp_channel /\ m.in_reconfig = l.in_reconfig
      /\ m.scanning = s /\ m.rx = rx
  BY <1>1 DEF LocalState, Waited
<1> HIDE DEF m
<1>5. KeepsRocs(l, m) /\ Good(m) /\ (SoftEnd(l) => SoftEnd(m))
  BY <1>2, <1>3, <1>4, ScanStepGood
<1> QED
  BY <1>4, <1>5 DEF m

LEMMA MarkedIs ==
  ASSUME NEW l, Good(l)
  PROVE  LET m == Marked(l)
         IN  /\ Good(m) /\ KeepsRocs(l, m) /\ (SoftEnd(l) => SoftEnd(m))
             /\ m.scan_req = l.scan_req /\ m.next = l.next /\ m.idx = l.idx
             /\ m.scan_chan = l.scan_chan /\ m.hw_scan = l.hw_scan /\ m.asked = l.asked
             /\ m.stopped = l.stopped /\ ~m.rx
             /\ m.scanning = (l.scanning \ {"BEACON_WAIT"}) \cup {"BEACON_DONE"}
             /\ Contains(m.works, "scan_work") /\ "scan_work" \notin m.armed
<1> DEFINE s == (l.scanning \ {"BEACON_WAIT"}) \cup {"BEACON_DONE"}
           x == Waited(l, s, FALSE)
           m == QueueWork(x, "scan_work")
<1>1. s \in SUBSET Flags
  BY DEF Good, LocalState, Flags
<1>2. Marked(l) = m
  BY DEF Marked, Waited
<1> HIDE DEF s
<1>3. /\ Good(x) /\ KeepsRocs(l, x) /\ (SoftEnd(l) => SoftEnd(x))
      /\ x.scan_req = l.scan_req /\ x.next = l.next /\ x.idx = l.idx
      /\ x.scan_chan = l.scan_chan /\ x.hw_scan = l.hw_scan /\ x.asked = l.asked
      /\ x.stopped = l.stopped /\ ~x.rx /\ x.scanning = s
  BY <1>1, WaitedIs
<1> HIDE DEF x
<1>4. /\ Good(m) /\ KeepsRocs(x, m) /\ ScanFields(x, m) /\ (SoftEnd(x) => SoftEnd(m))
      /\ m.stopped = x.stopped /\ Contains(m.works, "scan_work") /\ "scan_work" \notin m.armed
  BY <1>3, ScanQueued
<1> HIDE DEF m
<1>5. KeepsRocs(l, m)
  BY <1>3, <1>4, KeepsRocsTrans
<1>6. /\ m.scan_req = l.scan_req /\ m.next = l.next /\ m.idx = l.idx
      /\ m.scan_chan = l.scan_chan /\ m.hw_scan = l.hw_scan /\ m.asked = l.asked
      /\ m.stopped = l.stopped /\ ~m.rx /\ m.scanning = s
  BY <1>3, <1>4 DEF ScanFields
<1> QED
  BY <1>2, <1>3, <1>4, <1>5, <1>6 DEF s

LEMMA BeaconSound ==
  ASSUME Sound, RxBeacon \/ RxMark
  PROVE  SoundStep
<1>1. Good(local) /\ local \in LocalState /\ Scanned(local) /\ SoftEnd(local)
  BY DEF Sound, Good
<1> DEFINE s == local.scanning \ {"BEACON_WAIT"}
<1>2. driver' = driver /\ looping' = looping
      /\ \/ local' = Marked(local)
         \/ local' = Waited(local, s, TRUE)
  BY DEF RxBeacon, RxMark, Becomes, Waited
<1>3. s \in SUBSET Flags
  BY <1>1 DEF LocalState
<1>4. CASE local' = Waited(local, s, TRUE)
  <2>1. /\ Good(local') /\ KeepsRocs(local, local') /\ (SoftEnd(local) => SoftEnd(local'))
        /\ local'.scan_req = local.scan_req /\ local'.hw_scan = local.hw_scan
        /\ local'.asked = local.asked /\ local'.works = local.works /\ local'.scanning = s
    BY <1>1, <1>3, <1>4, WaitedIs, ZenonT(60)
  <2> QED
    BY <1>1, <1>2, <2>1 DEF SoundStep, Sound, Handled, Scanned
<1>5. CASE local' = Marked(local)
  <2>1. /\ Good(local') /\ (SoftEnd(local) => SoftEnd(local'))
        /\ local'.scan_req = local.scan_req /\ local'.hw_scan = local.hw_scan
        /\ local'.asked = local.asked
        /\ local'.scanning = (local.scanning \ {"BEACON_WAIT"}) \cup {"BEACON_DONE"}
        /\ Contains(local'.works, "scan_work")
    BY <1>1, <1>5, MarkedIs
  <2> QED
    BY <1>1, <1>2, <2>1 DEF SoundStep, Sound, Handled, Scanned
<1> QED
  BY <1>2, <1>4, <1>5

(* Time passes for ROCs. *)
OverAlso(l, rs) == [l EXCEPT !.over = @ \cup rs]

LEMMA OverAlsoIs ==
  ASSUME NEW l, Good(l), NEW rs \in SUBSET l.started
  PROVE  LET m == OverAlso(l, rs)
         IN  /\ Good(m) /\ SameScan(l, m) /\ (SoftEnd(l) => SoftEnd(m))
             /\ m.roc_list = l.roc_list /\ m.started = l.started /\ m.on_channel = l.on_channel
             /\ m.hw_begun = l.hw_begun /\ m.notified = l.notified
             /\ m.abort = l.abort /\ m.over = l.over \cup rs
             /\ m.works = l.works /\ m.armed = l.armed /\ m.hw_roc = l.hw_roc
             /\ m.tmp_channel = l.tmp_channel /\ m.stopped = l.stopped
<1> DEFINE m == OverAlso(l, rs)
<1>1. l \in LocalState /\ Listed(l) /\ OwnWorks(l)
  BY DEF Good
<1>2. m \in LocalState
  BY <1>1 DEF LocalState, OverAlso
<1>3. ScanFields(l, m)
  BY <1>1 DEF LocalState, ScanFields, OverAlso
<1>4. /\ m.roc_list = l.roc_list /\ m.started = l.started /\ m.on_channel = l.on_channel
      /\ m.hw_begun = l.hw_begun /\ m.notified = l.notified
      /\ m.abort = l.abort /\ m.over = l.over \cup rs
      /\ m.works = l.works /\ m.armed = l.armed /\ m.hw_roc = l.hw_roc
      /\ m.tmp_channel = l.tmp_channel /\ m.stopped = l.stopped
  BY <1>1 DEF LocalState, OverAlso
<1> HIDE DEF m
<1>5. Listed(m)
  BY <1>1, <1>4 DEF Listed
<1>6. OwnWorks(m)
  BY <1>1, <1>4 DEF OwnWorks, Queued
<1>7. SameScan(l, m) /\ (SoftEnd(l) => SoftEnd(m))
  BY <1>3, <1>4 DEF SameScan, SoftEnd, Queued
<1> QED
  BY <1>2, <1>4, <1>5, <1>6, <1>7 DEF Good, m

LEMMA ElapseSound ==
  ASSUME Sound, NEW r \in Rocs, Elapse(r)
  PROVE  SoundStep
<1>1. local' = OverAlso(local, {r}) /\ {r} \in SUBSET local.started
      /\ driver' = driver /\ looping' = looping
  BY DEF Elapse, Becomes, OverAlso
<1>2. Good(local') /\ SameScan(local, local') /\ (SoftEnd(local) => SoftEnd(local'))
  BY <1>1, OverAlsoIs DEF Sound
<1>3. Handled(local, local') /\ local'.scan_req = local.scan_req
  BY <1>2, RocHandled DEF Sound
<1> QED
  BY <1>1, <1>3 DEF SoundStep, Sound

LEMMA PollSound ==
  ASSUME Sound, NEW i \in Ifaces, StartPoll(i) \/ StopPoll(i)
  PROVE  SoundStep
<1>1. Good(local) /\ local \in LocalState /\ Scanned(local) /\ SoftEnd(local)
  BY DEF Sound, Good
<1>2. /\ driver' = driver /\ looping' = looping /\ ~looping
      /\ \/ local' = PollTo(local, local.poll \cup {i})
         \/ local' \in RunDeferredScan(PollTo(local, local.poll \ {i}))
  BY DEF StartPoll, StopPoll, Becomes, PollTo, Free
<1>3. local.poll \cup {i} \in SUBSET Ifaces /\ local.poll \ {i} \in SUBSET Ifaces
  BY <1>1 DEF LocalState
<1>4. CASE local' = PollTo(local, local.poll \cup {i})
  BY <1>1, <1>2, <1>3, <1>4, PollToIs DEF SoundStep, Sound
<1>5. CASE local' \in RunDeferredScan(PollTo(local, local.poll \ {i}))
  <2> DEFINE p == PollTo(local, local.poll \ {i})
  <2>1. Good(p) /\ SameScan(local, p) /\ (SoftEnd(local) => SoftEnd(p))
    BY <1>1, <1>3, PollToIs
  <2>2. local' \in RunDeferredScan(p)
    BY <1>5
  <2> HIDE DEF p
  <2>3. Good(local') /\ SameScan(p, local') /\ (SoftEnd(p) => SoftEnd(local'))
    BY <2>1, <2>2, RunDeferredScanGood
  <2>4. SameScan(local, local')
    BY <2>1, <2>3, SameScanTrans
  <2>5. Handled(local, local')
    BY <1>1, <2>1, <2>3, <2>4, RocHandled
  <2> QED
    BY <1>2, <2>5 DEF SoundStep, Sound
<1> QED
  BY <1>2, <1>4, <1>5

LEMMA TimerSound ==
  ASSUME Sound, NEW w \in Works, TimerFires(w)
  PROVE  SoundStep
<1>1. Good(local) /\ local \in LocalState /\ Scanned(local) /\ SoftEnd(local) /\ Listed(local)
  BY DEF Sound, Good
<1>2. PICK rs \in IF w = "roc_work" /\ StartedFront(local) # {}
                  THEN SUBSET StartedFront(local) \ {{}} ELSE {{}} :
        local' = [QueueWork(local, w) EXCEPT !.over = @ \cup rs]
  BY DEF TimerFires, Becomes
<1>3. driver' = driver /\ looping' = looping /\ w \in local.armed
  BY DEF TimerFires, Becomes
<1>4. rs \in SUBSET local.started
  BY <1>1, <1>2, FrontStarted
<1> DEFINE q == QueueWork(local, w)
<1>5. local' = OverAlso(q, rs)
  BY <1>2 DEF OverAlso
<1>6. w \in {"scan_work", "roc_work"}
  BY <1>1, <1>3 DEF Listed
<1> HIDE DEF q
<1>7. CASE w = "scan_work"
  <2>1. /\ Good(q) /\ ScanFields(local, q) /\ (SoftEnd(local) => SoftEnd(q))
        /\ KeepsRocs(local, q) /\ Contains(q.works, "scan_work")
    BY <1>1, <1>7, ScanQueued DEF q
  <2>2. rs \in SUBSET q.started
    BY <1>4, <2>1 DEF KeepsRocs, RocFields
  <2>3. Handled(local, q)
    BY <1>1, <2>1 DEF Handled, Scanned, ScanFields
  <2>4. Good(local') /\ SameScan(q, local') /\ (SoftEnd(q) => SoftEnd(local'))
    BY <1>5, <2>1, <2>2, OverAlsoIs
  <2>5. Handled(local, local') /\ local'.scan_req = local.scan_req
    BY <2>1, <2>3, <2>4, HandledThen DEF ScanFields
  <2> QED
    BY <1>3, <2>5 DEF SoundStep, Sound
<1>8. CASE w = "roc_work"
  <2>1. ~driver.roc
    BY <1>1, <1>3, <1>8 DEF Good, OwnWorks, Queued
  <2>2. Good(q) /\ SameScan(local, q)
    BY <1>1, <1>8, <2>1, QueueRocWork DEF q
  <2>3. Contains(q.works, "roc_work") /\ OnlyWorks(local, q)
    BY <1>1, <1>8, QueueWorkIs DEF q
  <2>4. q.started = local.started
    BY <1>1, <2>3, OnlyWorksIs DEF RocFields
  <2>5. Good(local') /\ SameScan(q, local') /\ (SoftEnd(q) => SoftEnd(local'))
    BY <1>4, <1>5, <2>2, <2>4, OverAlsoIs
  <2>6. SameScan(local, local') /\ SoftEnd(local')
    BY <2>2, <2>3, <2>5, SameScanTrans DEF SoftEnd, Queued
  <2>7. Handled(local, local') /\ local'.scan_req = local.scan_req
    BY <1>1, <2>5, <2>6, RocHandled
  <2> QED
    BY <1>3, <2>7 DEF SoundStep, Sound
<1> QED
  BY <1>6, <1>7, <1>8

LEMMA RunScanWorkSound ==
  ASSUME Sound, RunScanWork
  PROVE  SoundStep
<1>1. Good(local) /\ local \in LocalState /\ Scanned(local) /\ SoftEnd(local)
  BY DEF Sound, Good
<1> DEFINE t == Take(local)
           s == t.scanning \ {"BEACON_WAIT"}
<1>2. /\ local.works # <<>> /\ Head(local.works) = "scan_work" /\ ~looping /\ driver' = driver
      /\ \/ ~ScanWorkLoops(local) /\ local' \in ScanWork(t) /\ looping' = looping
         \/ /\ ScanWorkLoops(local) /\ looping' = TRUE
            /\ local' = [t EXCEPT !.scanning = @ \ {"BEACON_WAIT"}]
  BY DEF RunScanWork, Runs, Taken, Take
<1>3. /\ Good(t) /\ ScanFields(local, t) /\ (SoftEnd(local) => SoftEnd(t)) /\ t \in LocalState
  BY <1>1, <1>2, ScanTaken DEF Good
<1> HIDE DEF t
<1>4. CASE ~ScanWorkLoops(local) /\ local' \in ScanWork(t) /\ looping' = looping
  <2>1. ~ScanWorkLoops(t)
    BY <1>3, <1>4 DEF ScanWorkLoops, ScanFields
  <2>2. Claimed(t)
    BY <1>1, <1>3 DEF Claimed, Scanned, ScanFields
  <2>3. Handled(t, local')
    BY <1>3, <1>4, <2>1, <2>2, ScanWorkGood
  <2>4. Handled(local, local')
    BY <1>3, <2>3 DEF Handled, ScanFields
  <2> QED
    BY <1>2, <1>4, <2>4 DEF SoundStep, Sound
<1>5. CASE /\ ScanWorkLoops(local) /\ looping' = TRUE
           /\ local' = [t EXCEPT !.scanning = @ \ {"BEACON_WAIT"}]
  <2>1. s \in SUBSET Flags /\ t.rx \in BOOLEAN
    BY <1>3 DEF LocalState
  <2>2. local' = Waited(t, s, t.rx)
    BY <1>3, <1>5 DEF Waited, LocalState
  <2>3. /\ Good(local') /\ (SoftEnd(t) => SoftEnd(local'))
        /\ local'.scan_req = t.scan_req /\ local'.hw_scan = t.hw_scan /\ local'.asked = t.asked
        /\ local'.scanning = s
    BY <1>3, <2>1, <2>2, WaitedIs
  <2>4. "COMPLETED" \notin local.scanning /\ local.scan_req # NoRequest
    BY <1>5 DEF ScanWorkLoops
  <2>5. Scanned(local')
    BY <1>1, <1>3, <2>3, <2>4 DEF Scanned, ScanFields
  <2> QED
    BY <1>2, <1>3, <1>5, <2>3, <2>4, <2>5 DEF SoundStep, Handled, ScanFields
<1> QED
  BY <1>2, <1>4, <1>5

LEMMA RunRocSound ==
  ASSUME Sound, RunRocWork \/ RunHwRocStart \/ RunHwRocDone
  PROVE  SoundStep
<1>1. Good(local) /\ local \in LocalState /\ Scanned(local) /\ SoftEnd(local) /\ Listed(local)
  BY DEF Sound, Good
<1> DEFINE t == Take(local)
<1>2. /\ local.works # <<>> /\ ~looping /\ driver' = driver /\ looping' = looping
      /\ \/ Head(local.works) = "roc_work" /\ local' \in RocWork(t)
         \/ Head(local.works) = "hw_roc_start" /\ local' = HwRocStart(t)
         \/ Head(local.works) = "hw_roc_done" /\ local' \in HwRocDone(t)
  BY DEF RunRocWork, RunHwRocStart, RunHwRocDone, Runs, Taken, Take
<1>3. Contains(local.works, Head(local.works)) /\ Head(local.works) # "scan_work"
  BY <1>1, <1>2, TakenIs DEF Listed
<1>4. Good(t) /\ SameScan(local, t)
  BY <1>1, <1>2, <1>3, TakeGood
<1> HIDE DEF t
<1>5. CASE Head(local.works) = "roc_work" /\ local' \in RocWork(t)
  <2>1. ~driver.roc
    BY <1>1, <1>3, <1>5 DEF Good, OwnWorks, Queued
  <2>2. Good(local') /\ SameScan(t, local') /\ SoftEnd(local')
    BY <1>4, <1>5, <2>1, RocWorkGood
  <2>3. SameScan(local, local')
    BY <1>4, <2>2, SameScanTrans
  <2>4. Handled(local, local')
    BY <1>1, <2>2, <2>3, RocHandled
  <2> QED
    BY <1>2, <2>4 DEF SoundStep, Sound
<1>6. CASE \/ Head(local.works) = "hw_roc_start" /\ local' = HwRocStart(t)
           \/ Head(local.works) = "hw_roc_done" /\ local' \in HwRocDone(t)
  <2>1. driver.roc
    BY <1>1, <1>3, <1>6 DEF Good, OwnWorks
  <2>2. Good(local') /\ SameScan(t, local')
    BY <1>4, <1>6, <2>1, HwRocStartGood, HwRocDoneGood
  <2>3. SameScan(local, local') /\ SoftEnd(local')
    BY <1>4, <2>1, <2>2, SameScanTrans DEF SoftEnd
  <2>4. Handled(local, local')
    BY <1>1, <2>2, <2>3, RocHandled
  <2> QED
    BY <1>2, <2>4 DEF SoundStep, Sound
<1> QED
  BY <1>2, <1>5, <1>6

LEMMA RestartWorkSound ==
  ASSUME Sound, RestartWork
  PROVE  SoundStep
<1>1. Good(local) /\ local \in LocalState /\ Scanned(local) /\ SoftEnd(local)
  BY DEF Sound, Good
<1>2. PICK m \in ScanCancel(local) :
        \E l : /\ IF "roc_work" \in m.armed THEN l \in RocWork(CancelWork(m, "roc_work")) ELSE l = m
               /\ local' \in StartNextRoc([l EXCEPT !.in_reconfig = FALSE])
  BY DEF RestartWork, Becomes
<1>3. PICK l : /\ IF "roc_work" \in m.armed THEN l \in RocWork(CancelWork(m, "roc_work"))
                  ELSE l = m
               /\ local' \in StartNextRoc(ReconfigTo(l, FALSE))
  BY <1>2 DEF ReconfigTo
<1>4. driver' = driver /\ looping' = looping /\ ~looping
  BY DEF RestartWork, Becomes, Free
<1>5. Handled(local, m)
  BY <1>1, ScanCancelGood
<1>6. Handled(local, l) /\ SoftEnd(l)
  <2>1. CASE "roc_work" \notin m.armed
    BY <1>1, <1>3, <1>5, <2>1 DEF Handled
  <2>2. CASE "roc_work" \in m.armed
    <3> DEFINE c == CancelWork(m, "roc_work")
    <3>1. Good(m) /\ ~driver.roc
      BY <1>5, <2>2 DEF Handled, Good, OwnWorks, Queued
    <3>2. Good(c) /\ SameScan(m, c)
      BY <3>1, CancelGood DEF Works
    <3>3. l \in RocWork(c)
      BY <1>3, <2>2
    <3> HIDE DEF c
    <3>4. Good(l) /\ SameScan(c, l) /\ SoftEnd(l)
      BY <3>1, <3>2, <3>3, RocWorkGood
    <3>5. SameScan(m, l)
      BY <3>2, <3>4, SameScanTrans
    <3> QED
      BY <1>5, <3>4, <3>5, HandledThen
  <2> QED
    BY <2>1, <2>2
<1> DEFINE r == ReconfigTo(l, FALSE)
<1>7. Good(r) /\ (SoftEnd(l) => SoftEnd(r)) /\ Handled(l, r) /\ r.hw_scan = l.hw_scan
  <2>1. Good(l) /\ Scanned(l)
    BY <1>6 DEF Handled
  <2> QED
    BY <2>1, ReconfigToIs
<1>8. local' \in StartNextRoc(r)
  BY <1>3
<1> HIDE DEF r
<1>9. Good(local') /\ SameScan(r, local') /\ (SoftEnd(r) => SoftEnd(local'))
  BY <1>7, <1>8, StartNextRocGood
<1>10. Handled(local, r)
  BY <1>6, <1>7 DEF Handled
<1>11. Handled(local, local')
  BY <1>9, <1>10, HandledThen
<1> QED
  BY <1>4, <1>11 DEF SoundStep, Sound

LEMMA SoundInit == Init => Sound
<1> SUFFICES ASSUME Init PROVE Sound
  OBVIOUS
<1>1. driver \in Drivers /\ looping = FALSE
  BY DEF Init
<1>2. /\ local.works = <<>> /\ local.armed = {} /\ local.scan_req = NoRequest
      /\ local.scanning = {} /\ local.roc_list = <<>> /\ local.started = {}
      /\ local.hw_begun = {} /\ local.notified = {} /\ local.abort = {}
      /\ local.on_channel = {} /\ local.over = {} /\ local.hw_roc = "idle" /\ ~local.asked
  BY DEF Init
<1>3. local \in LocalState
  <2>1. /\ <<>> \in Seq(Works) /\ <<>> \in Seq(Rocs) /\ 0 \in 0 .. HwBands /\ 0 \in Nat
        /\ "DECISION" \in ScanStates
    BY OffChannelAssumption DEF ScanStates
  <2> QED
    BY <2>1 DEF Init, LocalState
<1>4. /\ \A v : ~Contains(local.works, v)
      /\ NoDup(local.works) /\ NoDup(local.roc_list) /\ Prefix(local.roc_list, {})
  BY <1>2 DEF Contains, NoDup, Prefix
<1>5. Listed(local) /\ OwnWorks(local)
  BY <1>2, <1>4 DEF Listed, OwnWorks, Queued
<1>6. SoftEnd(local) /\ Scanned(local)
  BY <1>2 DEF SoftEnd, Scanned
<1> QED
  BY <1>1, <1>3, <1>5, <1>6 DEF Sound, Good

LEMMA NextSound ==
  ASSUME Sound, Next PROVE SoundStep
<1>1. CASE Ask
  <2>1. \/ \E req \in Requests : RequestScan(req)
        \/ \E r \in Rocs : RequestRoc(r)
        \/ \E r \in Rocs : Cancel(r)
        \/ AbortScan
        \/ \E i \in Ifaces : StartPoll(i)
        \/ \E ifs : Quiesce(ifs)
        \/ RestartHw
    BY <1>1 DEF Ask
  <2> QED
    BY <2>1, RequestScanSound, RequestRocSound, CancelSound, AbortScanSound, PollSound,
       QuiesceSound, DriverSound
<1>2. CASE Answer
  BY <1>2, DriverSound, BeaconSound, ElapseSound, PollSound DEF Answer
<1>3. CASE Worker
  <2>1. CASE ScanLoop
    <3>1. looping /\ Good(local) /\ Scanned(local) /\ local.scan_req # NoRequest
      BY <2>1 DEF ScanLoop, Sound
    <3> QED
      BY <2>1, <3>1, ScanLoopGood DEF SoundStep
  <2> QED
    BY <1>3, <2>1, RunScanWorkSound, RunRocSound, RestartWorkSound DEF Worker, RunWork
<1>4. CASE \E w \in Works : TimerFires(w)
  BY <1>4, TimerSound
<1> QED
  BY <1>1, <1>2, <1>3, <1>4 DEF Next

(* What Sound says of the state after a step. *)
LEMMA SoundNext ==
  ASSUME Sound, [Next]_vars
  PROVE  Sound'
<1>1. CASE SoundStep
  <2>1. driver' = driver
    BY <1>1 DEF SoundStep
  <2>2. Good(local') /\ SoftEnd(local') /\ Scanned(local')
    BY <1>1 DEF SoundStep, Handled, Sound
  <2>3. Good(local)'
    BY <2>1, <2>2 DEF Good, Listed, OwnWorks, Queued
  <2>4. SoftEnd(local)' /\ Scanned(local)'
    BY <2>1, <2>2 DEF SoftEnd, Scanned, Queued
  <2> QED
    BY <1>1, <2>1, <2>3, <2>4 DEF SoundStep, Sound
<1>2. CASE UNCHANGED vars
  BY <1>2 DEF Sound, vars, Good, Listed, OwnWorks, Queued, SoftEnd, Scanned
<1> QED
  BY <1>1, <1>2, NextSound

(* What holds of every reachable state, whatever happens: the type of      *)
(* struct ieee80211_local, the marks of the ROCs on their list, which works*)
(* a driver's kind uses, and the flags and the request of a scan.          *)
THEOREM AlwaysSound == Spec => []Sound
  BY SoundInit, SoundNext, PTL DEF Spec

-----------------------------------------------------------------------------
(* While all is calm: the radio is shared. *)

(* A handler for ROCs keeps what concerns scans. *)
LEMMA RocCalm ==
  ASSUME Calm, NEW l, NEW lp, CalmInv(l, lp), NEW m, SameScan(l, m), Radio(m),
         l.scanning = {} \/ m.stopped = l.stopped
  PROVE  CalmInv(m, lp)
<1>1. Kinds(l) /\ Tuned(l) /\ Timely(l, lp) /\ ScanFields(l, m)
  BY DEF CalmInv, SameScan
<1>2. Kinds(m)
  BY <1>1 DEF Kinds, ScanFields
<1>3. Tuned(m)
  BY <1>1 DEF Tuned, ScanFields
<1>4. Timely(m, lp)
  <2>1. lp => "SW" \in m.scanning /\ "BEACON_WAIT" \notin m.scanning
    BY <1>1 DEF Timely, ScanFields
  <2>2. m.in_reconfig => ~m.hw_scan
    BY <1>1 DEF Timely, ScanFields
  <2>3. ASSUME driver.scan
        PROVE  /\ ~(Contains(m.works, "scan_work") /\ "scan_work" \in m.armed)
               /\ lp \/ m.scan_req = NoRequest => ~Queued(m, "scan_work")
               /\ "HW" \in m.scanning =>
                    "scan_work" \notin m.armed /\ (Contains(m.works, "scan_work") => "COMPLETED" \in m.scanning)
    <3>1. /\ ~(Contains(l.works, "scan_work") /\ "scan_work" \in l.armed)
          /\ lp \/ l.scan_req = NoRequest => ~Queued(l, "scan_work")
          /\ "HW" \in l.scanning =>
               "scan_work" \notin l.armed /\ (Contains(l.works, "scan_work") => "COMPLETED" \in l.scanning)
      BY <1>1, <2>3 DEF Timely
    <3>2. ~(Contains(m.works, "scan_work") /\ "scan_work" \in m.armed)
      BY <2>3, <3>1 DEF SameScan
    <3>3. lp \/ m.scan_req = NoRequest => l.scan_req = NoRequest \/ l.scanning # {}
      BY <1>1, <2>1 DEF ScanFields
    <3>4. lp \/ m.scan_req = NoRequest => ~Queued(m, "scan_work")
      BY <1>1, <3>1, <3>3 DEF SameScan, Queued, ScanFields
    <3>5. "HW" \in m.scanning =>
               "scan_work" \notin m.armed /\ (Contains(m.works, "scan_work") => "COMPLETED" \in m.scanning)
      BY <1>1, <3>1 DEF SameScan, ScanFields
    <3> QED
      BY <3>2, <3>4, <3>5
  <2> QED
    BY <2>1, <2>2, <2>3 DEF Timely
<1> QED
  BY <1>2, <1>3, <1>4 DEF CalmInv

(* A handler for scans keeps what concerns ROCs. *)
LEMMA KeepsRadio ==
  ASSUME NEW l, Good(l), Radio(l), NEW m, KeepsRocs(l, m),
         m.scanning # {} => l.roc_list = <<>> \/ l.scanning # {},
         ~driver.roc /\ l.started # {} => m.stopped = l.stopped,
         m.scanning = {} /\ (l.started = {} \/ driver.roc) => ~m.stopped
  PROVE  Radio(m)
<1>1. /\ RocFields(l, m) /\ m.hw_roc = l.hw_roc /\ m.tmp_channel = l.tmp_channel
      /\ m.in_reconfig = l.in_reconfig
      /\ StartFirstThenDone(l.works) => StartFirstThenDone(m.works)
      /\ Listed(l)
  BY DEF KeepsRocs, Good
<1>2. \A w \in {"roc_work", "hw_roc_start", "hw_roc_done"} :
        /\ Contains(m.works, w) <=> Contains(l.works, w)
        /\ w \in m.armed <=> w \in l.armed
  BY DEF KeepsRocs
<1>3. l.roc_list = <<>> => l.started = {}
  <2>1. l.roc_list = <<>> => \A v : ~Contains(l.roc_list, v)
    BY EmptyIs DEF Good, LocalState
  <2> QED
    BY <1>1, <2>1 DEF Listed
<1>4. m.scanning # {} => m.started = {} /\ m.tmp_channel = NoChan
  BY <1>1, <1>3 DEF Radio, RocFields
<1>5. m.scanning = {} /\ (m.started = {} \/ driver.roc) => m.tmp_channel = NoChan /\ ~m.stopped
  BY <1>1 DEF Radio, RocFields, HwRocsKept
<1>6. CASE driver.roc
  <2>1. HwRocsKept(l)
    BY <1>6 DEF Radio
  <2>2. Contains(m.works, "hw_roc_done") =>
          m.roc_list # <<>> /\ m.scanning = {} /\ m.hw_roc = "idle"
    BY <1>1, <1>2, <2>1 DEF HwRocsKept, RocFields
  <2>3. Contains(m.works, "hw_roc_start") =>
          m.hw_roc = "begun" \/ Contains(m.works, "hw_roc_done")
    BY <1>1, <1>2, <2>1 DEF HwRocsKept
  <2>4. /\ m.notified = m.hw_begun /\ Prefix(m.roc_list, m.notified)
        /\ m.notified # {} => m.hw_roc = "begun" \/ Contains(m.works, "hw_roc_done")
    BY <1>1, <1>2, <2>1 DEF HwRocsKept, RocFields
  <2>5. HwRocsKept(m)
    BY <1>1, <2>1, <2>2, <2>3, <2>4 DEF HwRocsKept, RocFields
  <2> QED
    BY <1>4, <1>5, <1>6, <2>5 DEF Radio
<1>7. CASE ~driver.roc
  <2>1. SoftRocsKept(l)
    BY <1>7 DEF Radio
  <2>2. Queued(m, "roc_work") <=> Queued(l, "roc_work")
    BY <1>2 DEF Queued
  <2>3. Queued(m, "roc_work") => m.roc_list # <<>> /\ m.scanning = {}
    BY <1>1, <2>1, <2>2 DEF SoftRocsKept, RocFields
  <2>4. "roc_work" \in m.armed => m.started \cap (m.over \cup m.abort) = {}
    BY <1>1, <1>2, <2>1 DEF SoftRocsKept, RocFields
  <2>5. \/ m.started = {}
        \/ m.started \subseteq m.on_channel /\ m.tmp_channel = NoChan /\ ~m.stopped
        \/ m.started \cap m.on_channel = {} /\ m.tmp_channel # NoChan /\ m.stopped
    BY <1>1, <1>7, <2>1 DEF SoftRocsKept, RocFields
  <2> QED
    BY <1>4, <1>5, <1>7, <2>3, <2>4, <2>5 DEF Radio, SoftRocsKept
<1> QED
  BY <1>6, <1>7

-----------------------------------------------------------------------------
(* ROCs in software, while all is calm. *)

LEMMA BegunRadio ==
  ASSUME NEW l, Good(l), Fresh(l), ~driver.roc, Radio(l), l.scanning = {}, l.scan_chan = NoChan
  PROVE  Radio(Begun(l))
<1> DEFINE m == Begun(l)
<1>1. /\ SameScan(l, m) /\ m.roc_list = l.roc_list /\ m.started = Batch(l)
      /\ m.armed = l.armed \cup {"roc_work"} /\ m.over = l.over /\ m.abort = l.abort
      /\ IF Here(l) THEN /\ m.stopped = l.stopped /\ m.tmp_channel = l.tmp_channel
                         /\ m.on_channel = l.on_channel \cup Batch(l)
         ELSE /\ m.stopped /\ m.tmp_channel = ChanOf[First(l)] /\ m.on_channel = l.on_channel
  BY BegunIs
<1>2. First(l) \in Batch(l) /\ l.started = {}
  BY BatchIs
<1>3. ChanOf[First(l)] \in Chans /\ NoChan \notin Chans
  BY FirstIs, OffChannelAssumption DEF Good, Fresh
<1>4. l.tmp_channel = NoChan /\ ~l.stopped
  BY <1>2 DEF Radio
<1>5. l.over = {} /\ l.abort = {} /\ l.on_channel = {}
  BY <1>2 DEF Good, Listed
<1>6. m.scanning = {}
  BY <1>1 DEF SameScan, ScanFields
<1> HIDE DEF m
<1>7. m.started # {} /\ m.roc_list # <<>> /\ m.started \cap (m.over \cup m.abort) = {}
  BY <1>1, <1>2, <1>5 DEF Fresh
<1>8. \/ m.started \subseteq m.on_channel /\ m.tmp_channel = NoChan /\ ~m.stopped
      \/ m.started \cap m.on_channel = {} /\ m.tmp_channel # NoChan /\ m.stopped
  BY <1>1, <1>3, <1>4, <1>5
<1> QED
  BY <1>6, <1>7, <1>8 DEF Radio, SoftRocsKept, m

(* The ROCs that recalc_sw_work() leaves. *)
Going(l) == l.started \ (l.abort \cup l.over)

LEMMA EndFinishedIs ==
  ASSUME NEW l, Good(l), ~driver.roc
  PROVE  LET m == EndFinished(l)
         IN  /\ Good(m) /\ SameScan(l, m) /\ m.started = Going(l)
             /\ m.on_channel = l.on_channel \cap (l.on_channel \ (l.started \ Going(l)))
             /\ m.started \cap (m.over \cup m.abort) = {}
             /\ m.works = l.works /\ m.armed = l.armed
             /\ m.tmp_channel = l.tmp_channel /\ m.stopped = l.stopped
             /\ StartedFront(m) = m.started
<1> DEFINE gone == {r \in StartedFront(l) : driver.roc \/ r \in l.abort \cup l.over}
           m    == Destroy(l, gone)
<1>1. EndFinished(l) = m
  BY DEF EndFinished
<1>2. gone = l.started \ Going(l)
  BY FrontStarted DEF Going
<1> HIDE DEF gone
<1>3. l \in LocalState
  BY DEF Good
<1>4. Good(m) /\ SameScan(l, m)
  BY DestroyGood
<1>5. /\ m.works = l.works /\ m.armed = l.armed
      /\ m.tmp_channel = l.tmp_channel /\ m.stopped = l.stopped
      /\ m.started = l.started \ gone /\ m.on_channel = l.on_channel \ gone
      /\ m.over = l.over \ gone /\ m.abort = l.abort \ gone
  BY <1>3, DestroyIs
<1> HIDE DEF m
<1>6. StartedFront(m) = m.started
  BY <1>4, FrontStarted
<1>7. m.started = Going(l)
  BY <1>2, <1>5 DEF Going
<1>8. m.started \cap (m.over \cup m.abort) = {}
  BY <1>5, <1>7 DEF Going
<1> QED
  BY <1>1, <1>2, <1>4, <1>5, <1>6, <1>7, <1>8

LEMMA RecalcRadio ==
  ASSUME NEW l, Good(l), ~driver.roc, Radio(l), Going(l) # {}
  PROVE  Radio(RecalcSwWork(l)) /\ RecalcSwWork(l).stopped = l.stopped
<1> DEFINE x == EndFinished(l)
           m == QueueLater(x, "roc_work")
<1>1. /\ Good(x) /\ SameScan(l, x) /\ x.started = Going(l)
      /\ x.on_channel = l.on_channel \cap (l.on_channel \ (l.started \ Going(l)))
      /\ x.started \cap (x.over \cup x.abort) = {}
      /\ x.tmp_channel = l.tmp_channel /\ x.stopped = l.stopped
      /\ StartedFront(x) = x.started
  BY EndFinishedIs
<1>2. RecalcSwWork(l) = m
  BY <1>1 DEF RecalcSwWork
<1> HIDE DEF x
<1>3. x \in LocalState /\ "roc_work" \in Works
  BY <1>1 DEF Good, Works
<1>4. OnlyWorks(x, m)
  BY <1>3, QueueLaterIs
<1>5. RocFields(x, m) /\ ScanFields(x, m) /\ m.stopped = x.stopped /\ m.tmp_channel = x.tmp_channel
  BY <1>3, <1>4, OnlyWorksIs
<1> HIDE DEF m
<1>6. Going(l) \subseteq l.started /\ l.scanning = {} /\ m.scanning = {}
  BY <1>1, <1>5 DEF Going, Radio, SameScan, ScanFields
<1>7. x.roc_list # <<>>
  <2>1. PICK r \in Going(l) : TRUE
    OBVIOUS
  <2>2. Contains(x.roc_list, r)
    BY <1>1 DEF Good, Listed
  <2> QED
    BY <1>3, <2>2, EmptyIs DEF LocalState
<1>8. /\ m.started = Going(l) /\ m.started # {} /\ m.started \cap (m.over \cup m.abort) = {}
      /\ m.roc_list # <<>> /\ m.tmp_channel = l.tmp_channel /\ m.stopped = l.stopped
      /\ m.on_channel = l.on_channel \cap (l.on_channel \ (l.started \ Going(l)))
  BY <1>1, <1>5, <1>7 DEF RocFields
<1>9. SoftRocsKept(l) /\ l.started # {}
  BY <1>6 DEF Radio
<1>10. \/ m.started \subseteq m.on_channel /\ m.tmp_channel = NoChan /\ ~m.stopped
       \/ m.started \cap m.on_channel = {} /\ m.tmp_channel # NoChan /\ m.stopped
  <2>1. CASE l.started \subseteq l.on_channel /\ l.tmp_channel = NoChan /\ ~l.stopped
    BY <1>6, <1>8, <2>1
  <2>2. CASE l.started \cap l.on_channel = {} /\ l.tmp_channel # NoChan /\ l.stopped
    BY <1>6, <1>8, <2>2
  <2> QED
    BY <1>9, <2>1, <2>2 DEF SoftRocsKept
<1> QED
  BY <1>2, <1>6, <1>8, <1>10 DEF Radio, SoftRocsKept

LEMMA StartFirstRadio ==
  ASSUME NEW l, Good(l), ~driver.roc, Radio(l), l.scanning = {}, l.scan_chan = NoChan,
         NEW m \in StartFirst(l)
  PROVE  Radio(m)
<1>1. m = l \/ (Fresh(l) /\ m = Begun(l))
  BY StartFirstIs
<1> QED
  BY <1>1, BegunRadio

(* A scan that was deferred. *)
LEMMA DeferredRadio ==
  ASSUME NEW l, Good(l), Radio(l), NEW m \in RunDeferredScan(l)
  PROVE  Radio(m)
<1>1. /\ SameScan(l, m) /\ RocFields(l, m) /\ m.hw_roc = l.hw_roc
      /\ m.stopped = l.stopped /\ m.tmp_channel = l.tmp_channel
      /\ \A w : w # "scan_work" =>
           /\ Contains(m.works, w) <=> Contains(l.works, w)
           /\ w \in m.armed <=> w \in l.armed
      /\ StartFirstThenDone(l.works) => StartFirstThenDone(m.works)
  BY RunDeferredScanGood
<1>2. KeepsRocs(l, m) /\ m.scanning = l.scanning
  BY <1>1 DEF KeepsRocs, SameScan, ScanFields
<1>3. m.scanning = {} /\ (l.started = {} \/ driver.roc) => ~m.stopped
  BY <1>1, <1>2 DEF Radio
<1> QED
  BY <1>1, <1>2, <1>3, KeepsRadio

(* The timer of roc_work is armed to start a ROC. *)
LEMMA ArmedRadio ==
  ASSUME NEW l, Good(l), ~driver.roc, Radio(l), l.scanning = {}, Fresh(l)
  PROVE  Radio(QueueLater(l, "roc_work"))
<1> DEFINE m == QueueLater(l, "roc_work")
<1>1. l \in LocalState /\ "roc_work" \in Works
  BY DEF Good, Works
<1>2. OnlyWorks(l, m)
  BY <1>1, QueueLaterIs
<1>3. RocFields(l, m) /\ ScanFields(l, m) /\ m.stopped = l.stopped /\ m.tmp_channel = l.tmp_channel
  BY <1>1, <1>2, OnlyWorksIs
<1>4. l.started = {}
  BY BatchIs
<1> HIDE DEF m
<1>5. m.started = {} /\ m.roc_list # <<>> /\ m.scanning = {}
  BY <1>3, <1>4 DEF RocFields, ScanFields, Fresh
<1>6. m.tmp_channel = NoChan /\ ~m.stopped
  BY <1>3, <1>4 DEF Radio
<1> QED
  BY <1>5, <1>6 DEF Radio, SoftRocsKept, m

LEMMA NextSoftRocRadio ==
  ASSUME NEW l, Good(l), ~driver.roc, Radio(l), l.scanning = {}, NEW m \in StartNextRoc(l)
  PROVE  Radio(m)
<1>1. CASE l.roc_list = <<>>
  <2>1. m \in RunDeferredScan(l)
    BY <1>1 DEF StartNextRoc
  <2> QED
    BY <2>1, DeferredRadio
<1>2. CASE l.roc_list # <<>> /\ (l.in_reconfig \/ First(l) \in l.started)
  <2>1. m = l
    BY <1>2 DEF StartNextRoc
  <2> QED
    BY <2>1
<1>3. CASE l.roc_list # <<>> /\ ~(l.in_reconfig \/ First(l) \in l.started)
  <2>1. m = QueueLater(l, "roc_work")
    BY <1>3 DEF StartNextRoc
  <2>2. Fresh(l)
    BY <1>3 DEF Fresh
  <2> QED
    BY <2>1, <2>2, ArmedRadio
<1> QED
  BY <1>1, <1>2, <1>3

(* The last ROC that has started ends: the radio comes home. *)
LEMMA LastRocRadio ==
  ASSUME NEW l, Good(l), ~driver.roc, Radio(l), l.started # {}, Going(l) = {},
         ~Contains(l.works, "roc_work"),
         NEW h, \/ h = EndFinished(l) /\ l.started \cap l.on_channel # {}
                \/ h = OffchannelReturn([EndFinished(l) EXCEPT !.tmp_channel = NoChan])
  PROVE  Good(h) /\ SameScan(l, h) /\ Radio(h) /\ h.scanning = {}
<1> DEFINE x == EndFinished(l)
           y == OffchannelReturn([x EXCEPT !.tmp_channel = NoChan])
<1>1. /\ Good(x) /\ SameScan(l, x) /\ x.started = Going(l)
      /\ x.works = l.works /\ x.armed = l.armed
      /\ x.tmp_channel = l.tmp_channel /\ x.stopped = l.stopped
  BY EndFinishedIs
<1>2. h = y \/ (h = x /\ l.started \cap l.on_channel # {})
  OBVIOUS
<1> HIDE DEF x
<1>3. /\ Good(y) /\ SameScan(x, y) /\ RocFields(x, y)
      /\ y.works = x.works /\ y.armed = x.armed /\ y.tmp_channel = NoChan /\ ~y.stopped
  BY <1>1, HomeGood
<1> HIDE DEF y
<1>4. SoftRocsKept(l) /\ l.scanning = {}
  BY DEF Radio
<1>5. Good(h) /\ SameScan(x, h) /\ h.works = l.works /\ h.armed = l.armed /\ h.started = {}
  <2>1. SameScan(x, x)
    BY DEF SameScan, ScanFields
  <2> QED
    BY <1>1, <1>2, <1>3, <2>1 DEF RocFields
<1>6. h.tmp_channel = NoChan /\ ~h.stopped
  BY <1>1, <1>2, <1>3, <1>4 DEF SoftRocsKept
<1>7. ~Queued(h, "roc_work")
  <2>1. l.started \cap (l.over \cup l.abort) # {}
    BY DEF Going
  <2> QED
    BY <1>4, <1>5, <2>1 DEF SoftRocsKept, Queued
<1>8. SameScan(l, h)
  BY <1>1, <1>5, SameScanTrans
<1>9. h.scanning = {}
  BY <1>4, <1>8 DEF SameScan, ScanFields
<1>10. Radio(h)
  BY <1>5, <1>6, <1>7, <1>9 DEF Radio, SoftRocsKept, Queued
<1> QED
  BY <1>5, <1>8, <1>9, <1>10

LEMMA RocWorkRadio ==
  ASSUME NEW l, Good(l), ~driver.roc, Radio(l), l.scanning = {}, l.scan_chan = NoChan,
         ~Contains(l.works, "roc_work"), NEW m \in RocWork(l)
  PROVE  Radio(m)
<1>1. CASE l.roc_list = <<>>
  <2>1. m = l
    BY <1>1 DEF RocWork
  <2> QED
    BY <2>1
<1>2. CASE l.roc_list # <<>> /\ First(l) \notin l.started
  <2>1. m \in StartFirst(l)
    BY <1>2 DEF RocWork
  <2> QED
    BY <2>1, StartFirstRadio
<1>3. CASE l.roc_list # <<>> /\ First(l) \in l.started
  <2> DEFINE x == RecalcSwWork(l)
             h == IF First(l) \in l.on_channel THEN x
                  ELSE OffchannelReturn([x EXCEPT !.tmp_channel = NoChan])
  <2>1. m \in IF StartedFront(x) # {} THEN {x} ELSE StartNextRoc(h)
    BY <1>3 DEF RocWork
  <2>2. StartedFront(EndFinished(l)) = Going(l)
    BY EndFinishedIs
  <2>3. CASE Going(l) # {}
    <3>1. x = QueueLater(EndFinished(l), "roc_work") /\ Good(x) /\ Radio(x)
      BY <2>2, <2>3, RecalcGood, RecalcRadio DEF RecalcSwWork
    <3>2. StartedFront(x) # {}
      <4>1. EndFinished(l) \in LocalState /\ "roc_work" \in Works
        BY EndFinishedIs DEF Good, Works
      <4>2. RocFields(EndFinished(l), x)
        BY <3>1, <4>1, QueueLaterIs, OnlyWorksIs
      <4> QED
        BY <2>2, <2>3, <4>2 DEF StartedFront, FrontRocs, RocFields
    <3> QED
      BY <2>1, <3>1, <3>2
  <2>4. CASE Going(l) = {}
    <3>1. x = EndFinished(l)
      BY <2>2, <2>4 DEF RecalcSwWork
    <3>2. StartedFront(x) = {}
      BY <2>2, <2>4, <3>1
    <3>3. m \in StartNextRoc(h)
      BY <2>1, <3>2
    <3>4. l.started # {} /\ (First(l) \in l.on_channel => l.started \cap l.on_channel # {})
      BY <1>3
    <3> HIDE DEF x
    <3>5. \/ h = EndFinished(l) /\ l.started \cap l.on_channel # {}
          \/ h = OffchannelReturn([EndFinished(l) EXCEPT !.tmp_channel = NoChan])
      BY <3>1, <3>4
    <3> HIDE DEF h
    <3>6. Good(h) /\ Radio(h) /\ h.scanning = {}
      BY <2>4, <3>4, <3>5, LastRocRadio
    <3> QED
      BY <3>3, <3>6, NextSoftRocRadio
  <2> QED
    BY <2>3, <2>4
<1> QED
  BY <1>1, <1>2, <1>3

(* The list is longer, or what it holds is the same. *)
LEMMA NotEmpty ==
  ASSUME NEW l \in LocalState, NEW r, Contains(l.roc_list, r)
  PROVE  l.roc_list # <<>>
<1>1. l.roc_list \in Seq(Rocs)
  BY DEF LocalState
<1> QED
  BY <1>1, EmptyIs

LEMMA StartedListed ==
  ASSUME NEW l, Good(l), l.started # {}
  PROVE  l.roc_list # <<>>
<1>1. PICK r \in l.started : TRUE
  OBVIOUS
<1>2. Contains(l.roc_list, r) /\ l \in LocalState
  BY DEF Good, Listed
<1> QED
  BY <1>2, NotEmpty

(* roc_work is queued. *)
LEMMA SoonRadio ==
  ASSUME NEW l, Good(l), ~driver.roc, Radio(l), l.roc_list # <<>>, l.scanning = {},
         NEW x, Good(x), SameScan(l, x), x.roc_list # <<>>,
         x.started = l.started, x.on_channel = l.on_channel,
         x.tmp_channel = l.tmp_channel, x.stopped = l.stopped
  PROVE  LET m == QueueWork(x, "roc_work")
         IN  /\ Good(m) /\ SameScan(l, m) /\ SoftEnd(m) /\ Radio(m)
<1> DEFINE m == QueueWork(x, "roc_work")
<1>1. x \in LocalState /\ "roc_work" \in Works
  BY DEF Good, Works
<1>2. Good(m) /\ SameScan(x, m)
  BY QueueRocWork
<1>3. OnlyWorks(x, m) /\ m.armed = x.armed \ {"roc_work"} /\ Contains(m.works, "roc_work")
  BY <1>1, QueueWorkIs
<1>4. RocFields(x, m) /\ m.stopped = x.stopped /\ m.tmp_channel = x.tmp_channel
  BY <1>1, <1>3, OnlyWorksIs
<1> HIDE DEF m
<1>5. SameScan(l, m)
  BY <1>2, SameScanTrans
<1>6. m.scanning = {} /\ "roc_work" \notin m.armed /\ m.roc_list # <<>>
      /\ m.started = l.started /\ m.on_channel = l.on_channel
      /\ m.tmp_channel = l.tmp_channel /\ m.stopped = l.stopped
  BY <1>3, <1>4, <1>5 DEF SameScan, ScanFields, RocFields
<1>7. SoftEnd(m)
  BY <1>3 DEF SoftEnd, Queued
<1>8. Radio(m)
  BY <1>6 DEF Radio, SoftRocsKept
<1> QED
  BY <1>2, <1>5, <1>7, <1>8 DEF m

(* A ROC joins one that has started. *)
LEMMA CombineSoftRadio ==
  ASSUME NEW l, Good(l), ~driver.roc, Radio(l), NEW r \in Rocs, ~Contains(l.roc_list, r),
         NEW i \in DOMAIN l.roc_list, l.roc_list[i] \in l.started
  PROVE  Radio(Combine(l, r, i)) /\ Combine(l, r, i).stopped = l.stopped
<1> DEFINE on == IF l.roc_list[i] \in l.on_channel THEN {r} ELSE {}
           m  == Marks(InsertAfter(l, r, i), r, {}, on)
<1>1. Combine(l, r, i) = RecalcSwWork(m)
  BY CombineIs
<1>2. on \subseteq {r}
  OBVIOUS
<1>3. r \in on <=> l.roc_list[i] \in l.on_channel
  OBVIOUS
<1> HIDE DEF on
<1>4. /\ Good(m) /\ SameScan(l, m)
      /\ m.started = l.started \cup {r} /\ m.on_channel = l.on_channel \cup on
      /\ m.abort = l.abort /\ m.over = l.over /\ m.works = l.works /\ m.armed = l.armed
      /\ m.tmp_channel = l.tmp_channel /\ m.stopped = l.stopped
  <2>1. Joined(l, r, i, {}, on, m)
    BY <1>2, JoinedIs
  <2> HIDE DEF m
  <2> QED
    BY <2>1 DEF Joined
<1> HIDE DEF m
<1>5. r \notin l.started /\ r \notin l.on_channel /\ r \notin l.abort /\ r \notin l.over
  BY DEF Good, Listed
<1>6. l.scanning = {} /\ m.scanning = {} /\ SoftRocsKept(l) /\ l.started # {}
  BY <1>4 DEF Radio, SameScan, ScanFields
<1>7. m.roc_list # <<>> /\ m.started # {}
  BY <1>4, StartedListed
<1>8. "roc_work" \in m.armed => m.started \cap (m.over \cup m.abort) = {}
  BY <1>4, <1>5, <1>6 DEF SoftRocsKept
<1>9. \/ m.started \subseteq m.on_channel /\ m.tmp_channel = NoChan /\ ~m.stopped
      \/ m.started \cap m.on_channel = {} /\ m.tmp_channel # NoChan /\ m.stopped
  <2>1. CASE l.started \subseteq l.on_channel /\ l.tmp_channel = NoChan /\ ~l.stopped
    BY <1>3, <1>4, <2>1
  <2>2. CASE l.started \cap l.on_channel = {} /\ l.tmp_channel # NoChan /\ l.stopped
    <3>1. on = {}
      BY <1>2, <1>3, <2>2
    <3> QED
      BY <1>4, <1>5, <2>2, <3>1
  <2> QED
    BY <1>6, <2>1, <2>2 DEF SoftRocsKept
<1>10. Radio(m)
  BY <1>6, <1>7, <1>8, <1>9 DEF Radio, SoftRocsKept
<1>11. Going(m) # {}
  BY <1>4, <1>5 DEF Going
<1> QED
  BY <1>1, <1>4, <1>10, <1>11, RecalcRadio

(* A ROC that waits, in software and in hardware. *)
LEMMA WaitsRadio ==
  ASSUME NEW l, Good(l), Radio(l), NEW r \in Rocs, ~Contains(l.roc_list, r),
         NEW m, \/ m = [l EXCEPT !.roc_list = Append(@, r)]
                \/ \E i \in DOMAIN l.roc_list :
                     m = InsertAfter(l, r, i)
                       /\ (l.roc_list[i] \notin l.started
                            \/ (driver.roc /\ l.roc_list[i] \notin l.hw_begun))
  PROVE  SameScan(l, m) /\ Radio(m) /\ m.stopped = l.stopped
<1>1. \/ m = [l EXCEPT !.roc_list = Append(@, r)]
      \/ \E i \in DOMAIN l.roc_list :
           m = InsertAfter(l, r, i) /\ (driver.roc \/ l.roc_list[i] \notin l.started)
  OBVIOUS
<1>2. /\ Good(m) /\ SameScan(l, m)
      /\ \A v : Contains(m.roc_list, v) <=> Contains(l.roc_list, v) \/ v = r
      /\ m.started = l.started /\ m.notified = l.notified
      /\ m.hw_begun = l.hw_begun /\ m.on_channel = l.on_channel
      /\ m.abort = l.abort /\ m.over = l.over /\ m.works = l.works /\ m.armed = l.armed
      /\ m.hw_roc = l.hw_roc /\ m.tmp_channel = l.tmp_channel /\ m.stopped = l.stopped
  <2>1. Waits(l, r, m)
    BY <1>1, WaitsGood
  <2> QED
    BY <2>1 DEF Waits
<1>3. m.roc_list # <<>>
  BY <1>2, NotEmpty DEF Good
<1>4. m.scanning = l.scanning /\ m.in_reconfig = l.in_reconfig
  BY <1>2 DEF SameScan, ScanFields
<1>5. CASE ~driver.roc
  <2>1. SoftRocsKept(m)
    BY <1>2, <1>3, <1>4, <1>5 DEF Radio, SoftRocsKept, Queued
  <2> QED
    BY <1>2, <1>4, <1>5, <2>1 DEF Radio
<1>6. CASE driver.roc
  <2>1. HwRocsKept(l) /\ Listed(l) /\ l \in LocalState
    BY <1>6 DEF Radio, Good
  <2>2. l.roc_list \in Seq(Rocs) /\ r \notin l.notified /\ Prefix(l.roc_list, l.notified)
        /\ l.notified = l.hw_begun /\ l.notified \subseteq l.started
    BY <2>1 DEF LocalState, Listed, HwRocsKept
  <2>3. Prefix(m.roc_list, l.notified)
    <3>1. CASE m = [l EXCEPT !.roc_list = Append(@, r)]
      <4>1. m.roc_list = Append(l.roc_list, r)
        BY <2>1, <3>1 DEF LocalState
      <4> QED
        BY <2>2, <4>1, AppendIs
    <3>2. ASSUME NEW i \in DOMAIN l.roc_list, m = InsertAfter(l, r, i),
                 l.roc_list[i] \notin l.notified
          PROVE  Prefix(m.roc_list, l.notified)
      <4>1. m.roc_list = InsertAt(l.roc_list, i + 1, r)
        BY <2>1, <3>2 DEF LocalState, InsertAfter
      <4>2. i \in 1 .. Len(l.roc_list)
        BY <2>2
      <4> QED
        BY <2>2, <3>2, <4>1, <4>2, InsertIs
    <3> QED
      BY <2>2, <3>1, <3>2
  <2>4. HwRocsKept(m)
    BY <1>2, <1>3, <1>4, <2>1, <2>3 DEF HwRocsKept
  <2> QED
    BY <1>2, <1>4, <1>6, <2>4 DEF Radio
<1> QED
  BY <1>2, <1>5, <1>6

-----------------------------------------------------------------------------
(* ROCs that the driver does, while all is calm. *)

LEMMA NextHwRocRadio ==
  ASSUME NEW l, Good(l), driver.roc, Radio(l), l.scanning = {},
         l.hw_roc = "idle", ~Contains(l.works, "hw_roc_done"), NEW m \in StartNextRoc(l)
  PROVE  Radio(m)
<1>1. CASE l.roc_list = <<>>
  <2>1. m \in RunDeferredScan(l)
    BY <1>1 DEF StartNextRoc
  <2> QED
    BY <2>1, DeferredRadio
<1>2. CASE l.roc_list # <<>> /\ (l.in_reconfig \/ First(l) \in l.started)
  <2>1. m = l
    BY <1>2 DEF StartNextRoc
  <2> QED
    BY <2>1
<1>3. CASE l.roc_list # <<>> /\ ~(l.in_reconfig \/ First(l) \in l.started)
  <2>1. m \in StartFirst(l) /\ Fresh(l)
    BY <1>3 DEF StartNextRoc, Fresh
  <2>2. HwRocsKept(l) /\ l.notified = {} /\ ~Contains(l.works, "hw_roc_start")
    BY DEF Radio, HwRocsKept
  <2>3. First(l) \in Batch(l)
    BY <2>1, BatchIs
  <2>4. CASE m = Accepted(l)
    <3>1. /\ SameScan(l, m)
          /\ m.roc_list = l.roc_list /\ m.started = l.started \cup Batch(l)
          /\ m.hw_begun = l.hw_begun /\ m.notified = l.notified /\ m.works = l.works
          /\ m.hw_roc = "accepted" /\ m.stopped = l.stopped /\ m.tmp_channel = l.tmp_channel
      BY <2>1, <2>4, AcceptedIs
    <3>2. m.scanning = {} /\ m.in_reconfig = l.in_reconfig
      BY <3>1 DEF SameScan, ScanFields
    <3>3. HwRocsKept(m)
      BY <1>3, <2>2, <2>3, <3>1, <3>2 DEF HwRocsKept
    <3> QED
      BY <3>1, <3>2, <3>3 DEF Radio
  <2>5. CASE m = QueueWork(Refused(l), "hw_roc_done")
    <3> DEFINE x == Refused(l)
    <3>1. /\ Good(x) /\ SameScan(l, x)
          /\ x.roc_list = l.roc_list
          /\ x.hw_begun = l.hw_begun /\ x.notified = l.notified
          /\ x.works = l.works /\ x.hw_roc = l.hw_roc
          /\ x.stopped = l.stopped /\ x.tmp_channel = l.tmp_channel
      BY <2>1, RefusedIs
    <3> HIDE DEF x
    <3>2. x \in LocalState /\ "hw_roc_done" \in Works
      BY <3>1 DEF Good, Works
    <3>3. /\ OnlyWorks(x, m) /\ Contains(m.works, "hw_roc_done")
          /\ StartFirstThenDone(x.works) => StartFirstThenDone(m.works)
      BY <2>5, <3>2, QueueWorkIs DEF x
    <3>4. /\ RocFields(x, m) /\ ScanFields(x, m)
          /\ m.hw_roc = x.hw_roc /\ m.stopped = x.stopped /\ m.tmp_channel = x.tmp_channel
      BY <3>2, <3>3, OnlyWorksIs
    <3>5. m.scanning = {} /\ m.in_reconfig = l.in_reconfig
      BY <3>1, <3>4 DEF SameScan, ScanFields
    <3>6. HwRocsKept(m)
      BY <1>3, <2>2, <3>1, <3>3, <3>4, <3>5 DEF HwRocsKept, RocFields
    <3>7. m.tmp_channel = NoChan /\ ~m.stopped
      BY <3>1, <3>4 DEF Radio
    <3> QED
      BY <3>5, <3>6, <3>7 DEF Radio
  <2> QED
    BY <2>1, <2>4, <2>5, StartFirstIs
<1> QED
  BY <1>1, <1>2, <1>3

(* Whoever does them. *)
LEMMA NextRocRadio ==
  ASSUME NEW l, Good(l), Radio(l), l.scanning = {},
         driver.roc => l.hw_roc = "idle" /\ ~Contains(l.works, "hw_roc_done"),
         NEW m \in StartNextRoc(l)
  PROVE  Radio(m)
  BY NextHwRocRadio, NextSoftRocRadio

(* The driver accepts a ROC that nothing is in the way of. *)
LEMMA FirstHwRadio ==
  ASSUME NEW l, Good(l), driver.roc, Radio(l), NEW r \in Rocs, l.roc_list = <<>>,
         l.scanning = {}, l.hw_roc = "idle", ~l.in_reconfig
  PROVE  LET m == [l EXCEPT !.roc_list = <<r>>, !.started = {r}, !.hw_roc = "accepted"]
         IN  SameScan(l, m) /\ Radio(m)
<1> DEFINE m == [l EXCEPT !.roc_list = <<r>>, !.started = {r}, !.hw_roc = "accepted"]
<1>0. OnlyRoc(l, r, {r}, "accepted", m)
  BY FirstRocGood
<1> HIDE DEF m
<1>1. /\ SameScan(l, m)
      /\ Contains(m.roc_list, r) /\ m.roc_list = <<r>> /\ m.started = {r}
      /\ m.hw_begun = {} /\ m.notified = {}
      /\ m.works = l.works /\ m.hw_roc = "accepted"
      /\ m.tmp_channel = l.tmp_channel /\ m.stopped = l.stopped
  BY <1>0 DEF OnlyRoc
<1>2. m.scanning = {} /\ m.in_reconfig = l.in_reconfig
  BY <1>1 DEF SameScan, ScanFields
<1>3. /\ HwRocsKept(l) /\ ~Contains(l.works, "hw_roc_done") /\ ~Contains(l.works, "hw_roc_start")
  BY DEF Radio, HwRocsKept
<1>4. HwRocsKept(m)
  BY <1>1, <1>2, <1>3 DEF HwRocsKept, Prefix
<1>5. Radio(m)
  BY <1>1, <1>2, <1>4 DEF Radio
<1> QED
  BY <1>1, <1>5 DEF m

(* A ROC joins one that the hardware has begun. *)
LEMMA CombineHwRadio ==
  ASSUME NEW l, Good(l), driver.roc, Radio(l), NEW r \in Rocs, ~Contains(l.roc_list, r),
         NEW i \in DOMAIN l.roc_list, l.roc_list[i] \in l.hw_begun
  PROVE  LET m == Marks(InsertAfter(l, r, i), r, {r}, {})
         IN  SameScan(l, m) /\ Radio(m) /\ m.stopped = l.stopped
<1> DEFINE m == Marks(InsertAfter(l, r, i), r, {r}, {})
<1>1. l.hw_begun \subseteq l.started
  BY DEF Good, Listed
<1>2. Joined(l, r, i, {r}, {}, m)
  BY <1>1, JoinedIs
<1> HIDE DEF m
<1>3. /\ Good(m) /\ SameScan(l, m)
      /\ m.started = l.started \cup {r} /\ m.notified = l.notified \cup {r}
      /\ m.hw_begun = l.hw_begun \cup {r} /\ m.works = l.works
      /\ m.hw_roc = l.hw_roc /\ m.tmp_channel = l.tmp_channel /\ m.stopped = l.stopped
      /\ \A some : Prefix(l.roc_list, some) /\ l.roc_list[i] \in some
                     => Prefix(m.roc_list, some \cup {r})
  BY <1>2 DEF Joined
<1>4. HwRocsKept(l) /\ l.started # {} /\ l.scanning = {}
  BY <1>1 DEF Radio
<1>5. m.scanning = {} /\ m.in_reconfig = l.in_reconfig
  BY <1>3, <1>4 DEF SameScan, ScanFields
<1>6. m.roc_list # <<>>
  BY <1>3, StartedListed
<1>7. Prefix(m.roc_list, m.notified) /\ l.notified # {}
  BY <1>3, <1>4 DEF HwRocsKept
<1>8. HwRocsKept(m)
  BY <1>3, <1>4, <1>5, <1>6, <1>7 DEF HwRocsKept
<1>9. Radio(m)
  BY <1>3, <1>4, <1>5, <1>8 DEF Radio
<1> QED
  BY <1>3, <1>9 DEF m

(* The first ROC, in software. *)
LEMMA FirstSoftRadio ==
  ASSUME NEW l, Good(l), ~driver.roc, Radio(l), NEW r \in Rocs, l.roc_list = <<>>,
         l.scanning = {}
  PROVE  LET x == [l EXCEPT !.roc_list = <<r>>, !.started = {}, !.hw_roc = l.hw_roc]
         IN  SameScan(l, QueueWork(x, "roc_work")) /\ Radio(QueueWork(x, "roc_work"))
<1> DEFINE x == [l EXCEPT !.roc_list = <<r>>, !.started = {}, !.hw_roc = l.hw_roc]
           m == QueueWork(x, "roc_work")
<1>1. l.hw_roc \in {"idle", "accepted", "begun"}
  BY DEF Good, LocalState
<1>0. OnlyRoc(l, r, {}, l.hw_roc, x)
  BY <1>1, FirstRocGood
<1> HIDE DEF x
<1>2. /\ Good(x) /\ SameScan(l, x)
      /\ x.roc_list = <<r>> /\ x.started = {} /\ l.started = {}
      /\ x.tmp_channel = l.tmp_channel /\ x.stopped = l.stopped
  BY <1>0 DEF OnlyRoc
<1>3. x \in LocalState /\ "roc_work" \in Works
  BY <1>2 DEF Good, Works
<1>4. Good(m) /\ SameScan(x, m)
  BY <1>2, QueueRocWork
<1>5. OnlyWorks(x, m)
  BY <1>3, QueueWorkIs
<1>6. RocFields(x, m) /\ m.stopped = x.stopped /\ m.tmp_channel = x.tmp_channel
  BY <1>3, <1>5, OnlyWorksIs
<1> HIDE DEF m
<1>7. SameScan(l, m)
  BY <1>2, <1>4, SameScanTrans
<1>8. m.scanning = {} /\ m.roc_list # <<>> /\ m.started = {}
      /\ m.tmp_channel = NoChan /\ ~m.stopped
  BY <1>2, <1>6, <1>7 DEF SameScan, ScanFields, RocFields, Radio
<1>9. Radio(m)
  BY <1>8 DEF Radio, SoftRocsKept
<1> QED
  BY <1>7, <1>9 DEF m, x

LEMMA QueueRocRadio ==
  ASSUME NEW l, Good(l), SoftEnd(l), Radio(l), NEW r \in Rocs, ~Contains(l.roc_list, r),
         NEW m \in QueueRoc(l, r)
  PROVE  SameScan(l, m) /\ Radio(m) /\ m.stopped = l.stopped
<1>1. l \in LocalState
  BY DEF Good
<1>2. CASE m = [l EXCEPT !.roc_list = Append(@, r)]
  BY <1>2, WaitsRadio
<1>3. ASSUME NEW i \in DOMAIN l.roc_list, m = InsertAfter(l, r, i), l.roc_list[i] \notin l.started
      PROVE  SameScan(l, m) /\ Radio(m) /\ m.stopped = l.stopped
  BY <1>3, WaitsRadio
<1>4. ASSUME NEW i \in DOMAIN l.roc_list, m = Combine(l, r, i), l.roc_list[i] \in l.started
      PROVE  SameScan(l, m) /\ Radio(m) /\ m.stopped = l.stopped
  <2>1. CASE ~driver.roc
    BY <1>4, <2>1, CombineGood, CombineSoftRadio
  <2>2. CASE driver.roc /\ l.roc_list[i] \in l.hw_begun
    <3>1. m = Marks(InsertAfter(l, r, i), r, {r}, {})
      BY <1>4, <2>2, CombineIs
    <3> QED
      BY <2>2, <3>1, CombineHwRadio
  <2>3. CASE driver.roc /\ l.roc_list[i] \notin l.hw_begun
    <3>1. m = InsertAfter(l, r, i)
      BY <1>4, <2>3, CombineIs
    <3> QED
      BY <2>3, <3>1, WaitsRadio
  <2> QED
    BY <2>1, <2>2, <2>3
<1> QED
  BY <1>1, <1>2, <1>3, <1>4, QueueRocIs

LEMMA StartRocCalm ==
  ASSUME Calm, NEW l, Good(l), SoftEnd(l), NEW lp, CalmInv(l, lp),
         NEW r \in Rocs, ~Contains(l.roc_list, r), NEW m \in StartRoc(l, r)
  PROVE  CalmInv(m, lp)
<1>1. Radio(l)
  BY DEF CalmInv
<1>2. SameScan(l, m) /\ Radio(m) /\ (l.scanning = {} \/ m.stopped = l.stopped)
  <2>1. CASE /\ l.roc_list = <<>> /\ l.scanning = {} /\ ~driver.roc
             /\ m = QueueWork([l EXCEPT !.roc_list = <<r>>, !.started = {}, !.hw_roc = l.hw_roc],
                              "roc_work")
    BY <1>1, <2>1, FirstSoftRadio
  <2>2. CASE /\ l.roc_list = <<>> /\ l.scanning = {} /\ driver.roc
             /\ l.hw_roc = "idle" /\ ~l.in_reconfig
             /\ m = [l EXCEPT !.roc_list = <<r>>, !.started = {r}, !.hw_roc = "accepted"]
    BY <1>1, <2>2, FirstHwRadio
  <2>3. CASE m \in QueueRoc(l, r)
    BY <1>1, <2>3, QueueRocRadio
  <2> QED
    BY <2>1, <2>2, <2>3, StartRocIs
<1> QED
  BY <1>2, RocCalm

-----------------------------------------------------------------------------
(* The actions for ROCs, while all is calm. *)

CalmHere == Sound /\ Calm /\ CalmInv(local, looping)
CalmNext == CalmInv(local', looping')

LEMMA SameScanSelf ==
  ASSUME NEW l PROVE SameScan(l, l)
  BY DEF SameScan, ScanFields

(* What the hardware had begun ends with the driver's ROC. *)
LEMMA HwEndingRadio ==
  ASSUME NEW l, Good(l), driver.roc, l.scanning = {}, l.tmp_channel = NoChan, ~l.stopped,
         l.hw_roc = "idle", ~Contains(l.works, "hw_roc_start"), ~Contains(l.works, "hw_roc_done"),
         l.notified = l.hw_begun, Prefix(l.roc_list, l.notified)
  PROVE  LET m == Destroy(l, StartedFront(l))
         IN  /\ Good(m) /\ SameScan(l, m) /\ Radio(m) /\ m.scanning = {}
             /\ m.hw_roc = "idle" /\ ~Contains(m.works, "hw_roc_done")
<1> DEFINE gone == StartedFront(l)
           m    == Destroy(l, gone)
<1>1. l \in LocalState /\ Listed(l)
  BY DEF Good
<1>2. l.notified \subseteq l.started /\ \A r \in l.notified : Contains(l.roc_list, r)
  BY <1>1 DEF Listed
<1>3. l.notified \subseteq gone
  BY <1>1, <1>2, FrontIs DEF StartedFront
<1> HIDE DEF gone
<1>4. /\ m.works = l.works /\ m.hw_roc = l.hw_roc /\ m.stopped = l.stopped
      /\ m.tmp_channel = l.tmp_channel
      /\ m.hw_begun = l.hw_begun \ gone /\ m.notified = l.notified \ gone
  BY <1>1, DestroyIs
<1>5. Good(m) /\ SameScan(l, m)
  BY DestroyGood
<1> HIDE DEF m
<1>6. m.notified = {} /\ m.hw_begun = {} /\ m.scanning = {}
  BY <1>3, <1>4, <1>5 DEF SameScan, ScanFields
<1>7. StartFirstThenDone(m.works)
  BY <1>4 DEF StartFirstThenDone, Contains
<1>8. HwRocsKept(m)
  BY <1>4, <1>6, <1>7 DEF HwRocsKept, Prefix
<1>9. Radio(m)
  BY <1>4, <1>6, <1>8 DEF Radio
<1> QED
  BY <1>4, <1>5, <1>6, <1>9 DEF m, gone

(* A ROC that the driver does is cancelled. *)
LEMMA CancelHwRadio ==
  ASSUME NEW l, Good(l), driver.roc, Radio(l), l.started # {}, l.works = <<>>,
         NEW m \in StartNextRoc(Destroy(CancelWork([l EXCEPT !.hw_roc = "idle"], "hw_roc_done"),
                                        StartedFront(l)))
  PROVE  Radio(m)
<1> DEFINE a == [l EXCEPT !.hw_roc = "idle"]
           b == CancelWork(a, "hw_roc_done")
           c == Destroy(b, StartedFront(b))
<1>1. /\ Good(a) /\ SameScan(l, a) /\ RocFields(l, a) /\ a.works = l.works /\ a.hw_roc = "idle"
      /\ a.tmp_channel = l.tmp_channel /\ a.stopped = l.stopped
  BY HwRocGood
<1> HIDE DEF a
<1>2. a \in LocalState /\ "hw_roc_done" \in Works
  BY <1>1 DEF Good, Works
<1>3. Good(b) /\ SameScan(a, b)
  BY <1>1, <1>2, CancelGood DEF Works
<1>4. /\ OnlyWorks(a, b)
      /\ \A v : Contains(b.works, v) <=> Contains(a.works, v) /\ v # "hw_roc_done"
  BY <1>2, CancelWorkIs
<1>5. RocFields(a, b) /\ b.hw_roc = a.hw_roc /\ b.stopped = a.stopped /\ b.tmp_channel = a.tmp_channel
  BY <1>2, <1>4, OnlyWorksIs
<1> HIDE DEF b
<1>6. StartedFront(b) = StartedFront(l)
  BY <1>1, <1>5 DEF StartedFront, FrontRocs, RocFields
<1>7. HwRocsKept(l) /\ l.scanning = {} /\ ~l.stopped
  BY DEF Radio
<1>8. ~Contains(l.works, "hw_roc_start")
  BY DEF Contains
<1>9. b.scanning = {}
  BY <1>1, <1>3, <1>7 DEF SameScan, ScanFields
<1>10. /\ b.tmp_channel = NoChan /\ ~b.stopped /\ b.hw_roc = "idle"
       /\ ~Contains(b.works, "hw_roc_start") /\ ~Contains(b.works, "hw_roc_done")
       /\ b.notified = b.hw_begun /\ Prefix(b.roc_list, b.notified)
  BY <1>1, <1>4, <1>5, <1>7, <1>8 DEF HwRocsKept, RocFields
<1>11. Good(c) /\ Radio(c) /\ c.scanning = {} /\ c.hw_roc = "idle" /\ ~Contains(c.works, "hw_roc_done")
  BY <1>3, <1>9, <1>10, HwEndingRadio
<1>12. m \in StartNextRoc(c)
  BY <1>6 DEF a, b
<1> HIDE DEF c
<1> QED
  BY <1>11, <1>12, NextHwRocRadio

LEMMA CancelRocRadio ==
  ASSUME NEW l, Good(l), Radio(l), NEW r \in l.started, l.works = <<>>, NEW m \in CancelRoc(l, r)
  PROVE  Radio(m)
<1>1. Contains(l.roc_list, r) /\ l.scanning = {} /\ l.roc_list # <<>>
  BY StartedListed DEF Good, Listed, Radio
<1>2. CASE driver.roc
  <2>1. \/ m = l
        \/ m \in StartNextRoc(Destroy(CancelWork([l EXCEPT !.hw_roc = "idle"], "hw_roc_done"),
                                           StartedFront(l)))
    BY <1>1, <1>2 DEF CancelRoc
  <2> QED
    BY <1>2, <2>1, CancelHwRadio
<1>3. CASE ~driver.roc
  <2> DEFINE x == [l EXCEPT !.abort = @ \cup {r}]
  <2>1. m = QueueWork(x, "roc_work")
    BY <1>1, <1>3 DEF CancelRoc
  <2>2. {r} \in SUBSET l.started
    OBVIOUS
  <2>3. /\ Good(x) /\ SameScan(l, x) /\ x.roc_list = l.roc_list /\ x.started = l.started
        /\ x.on_channel = l.on_channel /\ x.tmp_channel = l.tmp_channel /\ x.stopped = l.stopped
    BY <2>2, AbortGood
  <2> HIDE DEF x
  <2> QED
    BY <1>1, <1>3, <2>1, <2>3, SoonRadio
<1> QED
  BY <1>2, <1>3

LEMMA CancelCalm ==
  ASSUME CalmHere, NEW r \in Rocs, Cancel(r)
  PROVE  CalmNext
<1>1. "hasty" \notin driver.events /\ LateReport = {}
  BY DEF CalmHere, Calm, LateReport
<1>2. /\ local' \in CancelRoc(local, r) /\ r \in local.started /\ local.works = <<>>
      /\ looping' = looping
  BY <1>1 DEF Cancel, Becomes
<1>3. Good(local) /\ SoftEnd(local) /\ Radio(local)
  BY DEF CalmHere, Sound, CalmInv
<1>4. SameScan(local, local') /\ Radio(local') /\ local.scanning = {}
  BY <1>2, <1>3, CancelRocGood, CancelRocRadio DEF Radio
<1> QED
  BY <1>2, <1>4, RocCalm DEF CalmHere, CalmNext

LEMMA RequestRocCalm ==
  ASSUME CalmHere, NEW r \in Rocs, RequestRoc(r)
  PROVE  CalmNext
<1>1. local' \in StartRoc(local, r) /\ ~Contains(local.roc_list, r) /\ looping' = looping
  BY DEF RequestRoc, Becomes
<1> QED
  BY <1>1, StartRocCalm DEF CalmHere, CalmNext, Sound

LEMMA RunHwRocDoneRadio ==
  ASSUME NEW l, Good(l), Radio(l), l.works # <<>>, Head(l.works) = "hw_roc_done",
         NEW m \in HwRocDone(Take(l))
  PROVE  Radio(m) /\ l.scanning = {}
<1> DEFINE t == Take(l)
           c == Destroy(t, StartedFront(t))
<1>1. l \in LocalState /\ Listed(l) /\ "hw_roc_done" \in Works
  BY DEF Good, Works
<1>2. /\ OnlyWorks(l, t) /\ Contains(l.works, "hw_roc_done")
      /\ \A v : Contains(t.works, v) <=> Contains(l.works, v) /\ v # "hw_roc_done"
      /\ StartFirstThenDone(l.works) => ~Contains(t.works, "hw_roc_start")
  BY <1>1, TakenIs DEF Listed
<1>3. Good(t) /\ SameScan(l, t)
  BY <1>1, TakeGood
<1>4. RocFields(l, t) /\ t.hw_roc = l.hw_roc /\ t.stopped = l.stopped /\ t.tmp_channel = l.tmp_channel
  BY <1>1, <1>2, OnlyWorksIs
<1>5. driver.roc
  BY <1>2 DEF Good, OwnWorks
<1>6. m \in StartNextRoc(EndFinished(t))
  BY DEF HwRocDone
<1> HIDE DEF t
<1>7. EndFinished(t) = c
  BY <1>5 DEF EndFinished
<1>8. HwRocsKept(l) /\ l.scanning = {} /\ ~l.stopped
  BY <1>2, <1>5 DEF Radio, HwRocsKept
<1>9. /\ t.tmp_channel = NoChan /\ ~t.stopped /\ t.hw_roc = "idle" /\ t.scanning = {}
      /\ ~Contains(t.works, "hw_roc_start") /\ ~Contains(t.works, "hw_roc_done")
      /\ t.notified = t.hw_begun /\ Prefix(t.roc_list, t.notified)
  BY <1>2, <1>3, <1>4, <1>8 DEF HwRocsKept, RocFields, SameScan, ScanFields
<1>10. Good(c) /\ Radio(c) /\ c.scanning = {} /\ c.hw_roc = "idle" /\ ~Contains(c.works, "hw_roc_done")
  BY <1>3, <1>5, <1>9, HwEndingRadio
<1> HIDE DEF c
<1> QED
  BY <1>5, <1>6, <1>7, <1>8, <1>10, NextHwRocRadio

LEMMA RunHwRocStartRadio ==
  ASSUME NEW l, Good(l), Radio(l), l.works # <<>>, Head(l.works) = "hw_roc_start"
  PROVE  Radio(HwRocStart(Take(l))) /\ HwRocStart(Take(l)).stopped = l.stopped
<1> DEFINE t == Take(l)
           m == HwRocStart(t)
<1>1. l \in LocalState /\ Listed(l) /\ "hw_roc_start" \in Works
  BY DEF Good, Works
<1>2. /\ OnlyWorks(l, t) /\ Contains(l.works, "hw_roc_start")
      /\ \A v : Contains(t.works, v) <=> Contains(l.works, v) /\ v # "hw_roc_start"
      /\ StartFirstThenDone(l.works) => StartFirstThenDone(t.works)
  BY <1>1, TakenIs DEF Listed
<1>3. Good(t) /\ SameScan(l, t) /\ t \in LocalState
  BY <1>1, TakeGood DEF Good
<1>4. RocFields(l, t) /\ t.hw_roc = l.hw_roc /\ t.stopped = l.stopped /\ t.tmp_channel = l.tmp_channel
  BY <1>1, <1>2, OnlyWorksIs
<1>5. driver.roc
  BY <1>2 DEF Good, OwnWorks
<1> HIDE DEF t
<1> DEFINE front == StartedFront(t)
<1>6. /\ SameScan(t, m)
      /\ m.roc_list = t.roc_list /\ m.started = t.started
      /\ m.hw_begun = t.hw_begun \cup front /\ m.notified = t.notified \cup front
      /\ m.works = t.works /\ m.hw_roc = t.hw_roc
      /\ m.tmp_channel = t.tmp_channel /\ m.stopped = t.stopped
  BY <1>3, <1>5, HwRocStartGood
<1>7. Prefix(t.roc_list, front)
  BY <1>3, FrontIs DEF StartedFront, Good, Listed
<1> HIDE DEF front, m
<1>8. HwRocsKept(l)
  BY <1>5 DEF Radio
<1>9. m.scanning = l.scanning /\ m.in_reconfig = l.in_reconfig
  BY <1>3, <1>6 DEF SameScan, ScanFields
<1>10. Prefix(m.roc_list, m.notified)
  BY <1>4, <1>6, <1>7, <1>8 DEF HwRocsKept, RocFields, Prefix
<1>11. m.hw_roc = "begun" \/ Contains(m.works, "hw_roc_done")
  BY <1>2, <1>4, <1>6, <1>8 DEF HwRocsKept
<1>12. HwRocsKept(m)
  BY <1>2, <1>4, <1>6, <1>8, <1>9, <1>10, <1>11 DEF HwRocsKept, RocFields
<1>13. Radio(m)
  BY <1>4, <1>5, <1>6, <1>9, <1>12 DEF Radio, RocFields
<1> QED
  BY <1>4, <1>6, <1>13 DEF m, t

LEMMA RunRocWorkRadio ==
  ASSUME NEW l, Good(l), Radio(l), l.scan_chan = NoChan, l.works # <<>>, Head(l.works) = "roc_work",
         NEW m \in RocWork(Take(l))
  PROVE  Radio(m) /\ l.scanning = {}
<1> DEFINE t == Take(l)
<1>1. l \in LocalState /\ Listed(l) /\ "roc_work" \in Works
  BY DEF Good, Works
<1>2. /\ OnlyWorks(l, t) /\ Contains(l.works, "roc_work") /\ t.armed = l.armed
      /\ \A v : Contains(t.works, v) <=> Contains(l.works, v) /\ v # "roc_work"
  BY <1>1, TakenIs DEF Listed
<1>3. Good(t) /\ SameScan(l, t)
  BY <1>1, TakeGood
<1>4. RocFields(l, t) /\ t.stopped = l.stopped /\ t.tmp_channel = l.tmp_channel
  BY <1>1, <1>2, OnlyWorksIs
<1>5. ~driver.roc
  BY <1>2 DEF Good, OwnWorks, Queued
<1> HIDE DEF t
<1>6. SoftRocsKept(l) /\ l.scanning = {} /\ t.scanning = {} /\ t.scan_chan = NoChan
  BY <1>2, <1>3, <1>5 DEF Radio, SoftRocsKept, Queued, SameScan, ScanFields
<1>7. SoftRocsKept(t)
  BY <1>2, <1>4, <1>6 DEF SoftRocsKept, Queued, RocFields
<1>8. Radio(t)
  BY <1>4, <1>5, <1>6, <1>7 DEF Radio, RocFields
<1>9. ~Contains(t.works, "roc_work")
  BY <1>2
<1> QED
  BY <1>3, <1>5, <1>6, <1>8, <1>9, RocWorkRadio DEF t

LEMMA RunRocCalm ==
  ASSUME CalmHere, RunRocWork \/ RunHwRocStart \/ RunHwRocDone
  PROVE  CalmNext
<1>1. Good(local) /\ Listed(local) /\ local \in LocalState /\ Radio(local) /\ Tuned(local)
  BY DEF CalmHere, Sound, CalmInv, Good
<1> DEFINE t == Take(local)
<1>2. /\ local.works # <<>> /\ looping' = looping
      /\ \/ Head(local.works) = "roc_work" /\ local' \in RocWork(t)
         \/ Head(local.works) = "hw_roc_start" /\ local' = HwRocStart(t)
         \/ Head(local.works) = "hw_roc_done" /\ local' \in HwRocDone(t)
  BY DEF RunRocWork, RunHwRocStart, RunHwRocDone, Runs, Taken, Take
<1>3. Contains(local.works, Head(local.works)) /\ Head(local.works) # "scan_work"
  BY <1>1, <1>2, TakenIs DEF Listed
<1>4. Good(t) /\ SameScan(local, t)
  BY <1>1, <1>2, <1>3, TakeGood
<1>5. /\ SameScan(t, local') /\ Radio(local')
      /\ local.scanning = {} \/ local'.stopped = local.stopped
  <2>1. CASE Head(local.works) = "roc_work" /\ local' \in RocWork(t)
    <3>1. ~driver.roc
      BY <1>1, <1>3, <2>1 DEF Good, OwnWorks, Queued
    <3>2. "SW" \notin local.scanning
      BY <1>1, <1>3, <2>1, <3>1 DEF Radio, SoftRocsKept, Queued
    <3>3. local.scan_chan = NoChan
      BY <1>1, <3>2 DEF Tuned
    <3> QED
      BY <1>1, <1>2, <1>4, <2>1, <3>1, <3>3, RunRocWorkRadio, RocWorkGood
  <2>2. CASE Head(local.works) = "hw_roc_start" /\ local' = HwRocStart(t)
    <3>1. driver.roc
      BY <1>1, <1>3, <2>2 DEF Good, OwnWorks
    <3>2. SameScan(t, local')
      BY <1>4, <2>2, <3>1, HwRocStartGood
    <3> QED
      BY <1>1, <1>2, <2>2, <3>2, RunHwRocStartRadio
  <2>3. CASE Head(local.works) = "hw_roc_done" /\ local' \in HwRocDone(t)
    BY <1>1, <1>2, <1>4, <2>3, RunHwRocDoneRadio, HwRocDoneGood
  <2> QED
    BY <1>2, <2>1, <2>2, <2>3
<1> HIDE DEF t
<1>6. SameScan(local, local')
  BY <1>4, <1>5, SameScanTrans
<1> QED
  BY <1>2, <1>5, <1>6, RocCalm DEF CalmHere, CalmNext

(* The driver reports the begin or the end of its ROC. *)
LEMMA ReportRadio ==
  ASSUME NEW l, Good(l), Radio(l), l.hw_roc # "idle",
         NEW v \in {"idle", "begun"}, NEW w \in {"hw_roc_start", "hw_roc_done"},
         IF v = "idle" THEN w = "hw_roc_done" ELSE w = "hw_roc_start"
  PROVE  LET m == QueueWork([l EXCEPT !.hw_roc = v], w)
         IN  SameScan(l, m) /\ Radio(m) /\ m.stopped = l.stopped
<1> DEFINE x == [l EXCEPT !.hw_roc = v]
           m == QueueWork(x, w)
<1>1. driver.roc
  BY DEF Good, OwnWorks
<1>2. /\ Good(x) /\ SameScan(l, x) /\ RocFields(l, x) /\ x.works = l.works /\ x.hw_roc = v
      /\ x.tmp_channel = l.tmp_channel /\ x.stopped = l.stopped
  <2>1. v \in {"idle", "accepted", "begun"}
    OBVIOUS
  <2> QED
    BY <1>1, <2>1, HwRocGood
<1> HIDE DEF x
<1>3. x \in LocalState /\ w \in Works
  BY <1>2 DEF Good, Works
<1>4. Good(m) /\ SameScan(x, m)
  BY <1>1, <1>2, QueueRocWork
<1>5. HwRocsKept(l) /\ ~Contains(l.works, "hw_roc_done") /\ l.started # {} /\ ~l.in_reconfig
  BY <1>1 DEF Radio, HwRocsKept
<1>6. l.scanning = {} /\ ~l.stopped /\ l.roc_list # <<>>
  BY <1>1, <1>5, StartedListed DEF Radio
<1>7. /\ OnlyWorks(x, m)
      /\ \A u : Contains(m.works, u) <=> Contains(x.works, u) \/ u = w
      /\ StartFirstThenDone(m.works)
  BY <1>2, <1>3, <1>5, QueueWorkIs DEF HwRocsKept
<1>8. RocFields(x, m) /\ m.hw_roc = x.hw_roc /\ m.stopped = x.stopped /\ m.tmp_channel = x.tmp_channel
  BY <1>3, <1>7, OnlyWorksIs
<1> HIDE DEF m
<1>9. SameScan(l, m)
  BY <1>2, <1>4, SameScanTrans
<1>10. m.scanning = {} /\ ~m.in_reconfig
  BY <1>5, <1>6, <1>9 DEF SameScan, ScanFields
<1>11. /\ m.tmp_channel = NoChan /\ m.hw_roc = v /\ m.started = l.started /\ m.roc_list = l.roc_list
       /\ m.notified = l.notified /\ m.hw_begun = l.hw_begun
  BY <1>2, <1>5, <1>8 DEF HwRocsKept, RocFields
<1>12. m.hw_roc = "begun" \/ Contains(m.works, "hw_roc_done")
  BY <1>7, <1>11
<1>13. Contains(m.works, "hw_roc_done") => m.hw_roc = "idle"
  BY <1>2, <1>5, <1>7, <1>11
<1>14. HwRocsKept(m)
  BY <1>5, <1>6, <1>7, <1>10, <1>11, <1>12, <1>13 DEF HwRocsKept
<1>15. Radio(m)
  BY <1>1, <1>2, <1>6, <1>8, <1>10, <1>11, <1>14 DEF Radio
<1> QED
  BY <1>2, <1>8, <1>9, <1>15 DEF m, x

LEMMA ReportCalm ==
  ASSUME CalmHere, DriverReady \/ DriverExpired
  PROVE  CalmNext
<1>1. Good(local) /\ Radio(local)
  BY DEF CalmHere, Sound, CalmInv
<1>2. looping' = looping
  BY DEF DriverReady, DriverExpired, Becomes
<1>3. SameScan(local, local') /\ Radio(local') /\ local'.stopped = local.stopped
  <2>1. CASE DriverReady
    <3>1. /\ local' = QueueWork([local EXCEPT !.hw_roc = "begun"], "hw_roc_start")
          /\ local.hw_roc # "idle"
      BY <2>1 DEF DriverReady, Reported, Becomes
    <3> QED
      BY <1>1, <3>1, ReportRadio
  <2>2. CASE DriverExpired
    <3>1. /\ local' = QueueWork([local EXCEPT !.hw_roc = "idle"], "hw_roc_done")
          /\ local.hw_roc # "idle"
      BY <2>2 DEF DriverExpired, Becomes
    <3> QED
      BY <1>1, <3>1, ReportRadio
  <2> QED
    BY <2>1, <2>2
<1> QED
  BY <1>2, <1>3, RocCalm DEF CalmHere, CalmNext

(* Time passes for ROCs. *)
LEMMA OverRadio ==
  ASSUME NEW l, Good(l), Radio(l), NEW rs \in SUBSET l.started,
         rs = {} \/ (~driver.roc /\ "roc_work" \notin l.armed)
  PROVE  Radio(OverAlso(l, rs))
<1> DEFINE m == OverAlso(l, rs)
<1>1. /\ SameScan(l, m)
      /\ m.roc_list = l.roc_list /\ m.started = l.started /\ m.on_channel = l.on_channel
      /\ m.hw_begun = l.hw_begun /\ m.notified = l.notified
      /\ m.abort = l.abort /\ m.over = l.over \cup rs
      /\ m.works = l.works /\ m.armed = l.armed /\ m.hw_roc = l.hw_roc
      /\ m.tmp_channel = l.tmp_channel /\ m.stopped = l.stopped
  BY OverAlsoIs
<1> HIDE DEF m
<1>2. m.scanning = l.scanning /\ m.in_reconfig = l.in_reconfig
  BY <1>1 DEF SameScan, ScanFields
<1>3. driver.roc => HwRocsKept(m)
  BY <1>1, <1>2 DEF Radio, HwRocsKept
<1>4. ~driver.roc => SoftRocsKept(m)
  <2>1. "roc_work" \in m.armed => m.started \cap (m.over \cup m.abort) = l.started \cap (l.over \cup l.abort)
    BY <1>1
  <2> QED
    BY <1>1, <1>2, <2>1 DEF Radio, SoftRocsKept, Queued
<1>5. Radio(m)
  BY <1>1, <1>2, <1>3, <1>4 DEF Radio
<1> QED
  BY <1>5 DEF m

LEMMA ElapseCalm ==
  ASSUME CalmHere, NEW r \in Rocs, Elapse(r)
  PROVE  CalmNext
<1>1. local' = OverAlso(local, {r}) /\ {r} \in SUBSET local.started
      /\ looping' = looping /\ ~driver.roc /\ "roc_work" \notin local.armed
  BY DEF Elapse, Becomes, OverAlso
<1>2. Good(local) /\ Radio(local)
  BY DEF CalmHere, Sound, CalmInv
<1>3. Radio(local') /\ SameScan(local, local') /\ local'.stopped = local.stopped
  BY <1>1, <1>2, OverRadio, OverAlsoIs
<1> QED
  BY <1>1, <1>3, RocCalm DEF CalmHere, CalmNext

-----------------------------------------------------------------------------
(* Timers, polls and restarts, while all is calm. *)

(* Nothing that concerns the radio has changed. *)
LEMMA SameRadio ==
  ASSUME NEW l, Good(l), Radio(l), NEW m, KeepsRocs(l, m), m.scanning = l.scanning,
         m.stopped = l.stopped
  PROVE  Radio(m)
<1>1. m.scanning = {} /\ (l.started = {} \/ driver.roc) => ~m.stopped
  BY DEF Radio
<1> QED
  BY <1>1, KeepsRadio

LEMMA ScanTimerCalm ==
  ASSUME CalmHere, NEW q, q = QueueWork(local, "scan_work"), "scan_work" \in local.armed
  PROVE  CalmInv(q, looping) /\ Good(q) /\ q.started = local.started
<1>1. /\ Good(local) /\ Radio(local) /\ Kinds(local) /\ Tuned(local) /\ Timely(local, looping)
  BY DEF CalmHere, Sound, CalmInv
<1>2. /\ Good(q) /\ KeepsRocs(local, q) /\ ScanFields(local, q) /\ q.stopped = local.stopped
      /\ Contains(q.works, "scan_work") /\ "scan_work" \notin q.armed
  BY <1>1, ScanQueued
<1>3. Radio(q)
  BY <1>1, <1>2, SameRadio DEF ScanFields
<1>4. Kinds(q) /\ Tuned(q)
  BY <1>1, <1>2 DEF Kinds, Tuned, ScanFields
<1>5. driver.scan => "HW" \notin local.scanning /\ ~looping /\ local.scan_req # NoRequest
  BY <1>1 DEF Timely, Queued
<1>6. Timely(q, looping)
  BY <1>1, <1>2, <1>5 DEF Timely, ScanFields
<1> QED
  BY <1>2, <1>3, <1>4, <1>6 DEF CalmInv, KeepsRocs, RocFields

LEMMA TimerCalm ==
  ASSUME CalmHere, NEW w \in Works, TimerFires(w)
  PROVE  CalmNext
<1>1. /\ Good(local) /\ Listed(local) /\ local \in LocalState /\ Radio(local)
      /\ CalmInv(local, looping) /\ Calm
  BY DEF CalmHere, Sound, CalmInv, Good
<1>2. PICK rs \in IF w = "roc_work" /\ StartedFront(local) # {}
                  THEN SUBSET StartedFront(local) \ {{}} ELSE {{}} :
        local' = [QueueWork(local, w) EXCEPT !.over = @ \cup rs]
  BY DEF TimerFires, Becomes
<1>3. looping' = looping /\ w \in local.armed
  BY DEF TimerFires, Becomes
<1>4. rs \in SUBSET local.started /\ (w = "scan_work" => rs = {})
  BY <1>1, <1>2, FrontStarted
<1> DEFINE q == QueueWork(local, w)
<1>5. local' = OverAlso(q, rs)
  BY <1>2 DEF OverAlso
<1>6. w \in {"scan_work", "roc_work"}
  BY <1>1, <1>3 DEF Listed
<1>7. CalmInv(q, looping) /\ Good(q) /\ q.started = local.started
      /\ (rs = {} \/ (~driver.roc /\ "roc_work" \notin q.armed))
  <2>1. CASE w = "scan_work"
    BY <1>3, <1>4, <2>1, ScanTimerCalm
  <2>2. CASE w = "roc_work"
    <3>1. ~driver.roc /\ SoftRocsKept(local) /\ Queued(local, "roc_work")
      BY <1>1, <1>3, <2>2 DEF Good, OwnWorks, Queued, Radio
    <3>2. local.roc_list # <<>> /\ local.scanning = {}
      BY <3>1 DEF SoftRocsKept
    <3>3. SameScan(local, local)
      BY SameScanSelf
    <3>4. Good(q) /\ SameScan(local, q) /\ Radio(q)
      BY <1>1, <2>2, <3>1, <3>2, <3>3, SoonRadio
    <3>5. OnlyWorks(local, q) /\ "roc_work" \notin q.armed
      BY <1>1, <2>2, QueueWorkIs
    <3>6. q.started = local.started
      BY <1>1, <3>5, OnlyWorksIs DEF RocFields
    <3> HIDE DEF q
    <3>7. CalmInv(q, looping)
      BY <1>1, <3>2, <3>4, RocCalm
    <3> QED
      BY <3>1, <3>4, <3>5, <3>6, <3>7
  <2> QED
    BY <1>6, <2>1, <2>2
<1> HIDE DEF q
<1>8. Radio(local') /\ SameScan(q, local') /\ local'.stopped = q.stopped
  BY <1>4, <1>5, <1>7, OverRadio, OverAlsoIs DEF CalmInv
<1> QED
  BY <1>1, <1>3, <1>7, <1>8, RocCalm DEF CalmNext

LEMMA PollCalm ==
  ASSUME CalmHere, NEW i \in Ifaces, StartPoll(i) \/ StopPoll(i)
  PROVE  CalmNext
<1>1. /\ Good(local) /\ local \in LocalState /\ Radio(local) /\ CalmInv(local, looping) /\ Calm
  BY DEF CalmHere, Sound, CalmInv, Good
<1>2. PICK s \in SUBSET Ifaces :
        /\ local' = PollTo(local, s) \/ local' \in RunDeferredScan(PollTo(local, s))
        /\ looping' = looping
  <2>0. local.poll \in SUBSET Ifaces
    BY <1>1 DEF LocalState
  <2>1. CASE StartPoll(i)
    <3>1. local' = PollTo(local, local.poll \cup {i}) /\ looping' = looping
      BY <2>1 DEF StartPoll, Becomes, PollTo
    <3> QED
      BY <2>0, <3>1
  <2>2. CASE StopPoll(i)
    <3>1. local' \in RunDeferredScan(PollTo(local, local.poll \ {i})) /\ looping' = looping
      BY <2>2 DEF StopPoll, Becomes, PollTo
    <3> QED
      BY <2>0, <3>1
  <2> QED
    BY <2>1, <2>2
<1> DEFINE p == PollTo(local, s)
<1>3. /\ Good(p) /\ RocFields(local, p) /\ p.works = local.works /\ p.armed = local.armed
      /\ p.hw_roc = local.hw_roc /\ p.tmp_channel = local.tmp_channel /\ p.stopped = local.stopped
      /\ SameScan(local, p)
  BY <1>1, PollToIs
<1> HIDE DEF p
<1>4. Radio(p)
  <2>1. KeepsRocs(local, p) /\ p.scanning = local.scanning
    BY <1>3 DEF KeepsRocs, SameScan, ScanFields
  <2> QED
    BY <1>1, <1>3, <2>1, SameRadio
<1>5. CASE local' = p
  BY <1>1, <1>2, <1>3, <1>4, <1>5, RocCalm DEF CalmNext
<1>6. CASE local' \in RunDeferredScan(p)
  <2>1. Radio(local') /\ SameScan(p, local') /\ local'.stopped = p.stopped
    BY <1>3, <1>4, <1>6, DeferredRadio, RunDeferredScanGood
  <2>2. SameScan(local, local')
    BY <1>3, <2>1, SameScanTrans
  <2> QED
    BY <1>1, <1>2, <1>3, <2>1, <2>2, RocCalm DEF CalmNext
<1> QED
  BY <1>2, <1>5, <1>6 DEF p

(* in_reconfig does not change while the driver scans or has a ROC. *)
LEMMA ReconfigCalm ==
  ASSUME NEW l, Good(l), NEW lp, CalmInv(l, lp), NEW v \in BOOLEAN,
         ~l.hw_scan, l.hw_roc = "idle"
  PROVE  CalmInv(ReconfigTo(l, v), lp)
<1> DEFINE m == ReconfigTo(l, v)
<1>1. /\ RocFields(l, m) /\ m.works = l.works /\ m.armed = l.armed /\ m.hw_roc = l.hw_roc
      /\ m.tmp_channel = l.tmp_channel /\ m.stopped = l.stopped
      /\ m.scan_req = l.scan_req /\ m.scanning = l.scanning /\ m.next = l.next
      /\ m.idx = l.idx /\ m.scan_chan = l.scan_chan /\ m.rx = l.rx
      /\ m.hw_scan = l.hw_scan
  BY ReconfigToIs
<1> HIDE DEF m
<1>2. Kinds(l) /\ Tuned(l) /\ Timely(l, lp) /\ Radio(l)
  BY DEF CalmInv
<1>3. Kinds(m) /\ Tuned(m)
  BY <1>1, <1>2 DEF Kinds, Tuned
<1>4. Timely(m, lp)
  BY <1>1, <1>2 DEF Timely, Queued
<1>5. driver.roc => HwRocsKept(m)
  BY <1>1, <1>2 DEF Radio, HwRocsKept, RocFields
<1>6. ~driver.roc => SoftRocsKept(m)
  BY <1>1, <1>2 DEF Radio, SoftRocsKept, RocFields, Queued
<1>7. Radio(m)
  BY <1>1, <1>2, <1>5, <1>6 DEF Radio, RocFields
<1> QED
  BY <1>3, <1>4, <1>7 DEF CalmInv, m

LEMMA RestartHwCalm ==
  ASSUME CalmHere, RestartHw
  PROVE  CalmNext
<1>1. /\ local' = ReconfigTo(local, TRUE) /\ looping' = looping
      /\ ~local.hw_scan /\ local.hw_roc = "idle"
  BY DEF RestartHw, Becomes, ReconfigTo
<1> QED
  BY <1>1, ReconfigCalm DEF CalmHere, CalmNext, Sound

-----------------------------------------------------------------------------
(* Scans end and are cancelled, while all is calm. *)

(* scan_work is neither queued nor armed, or is as it was. *)
ScanWorkAs(l, m) ==
  \/ ~Queued(m, "scan_work")
  \/ /\ Contains(m.works, "scan_work") <=> Contains(l.works, "scan_work")
     /\ "scan_work" \in m.armed <=> "scan_work" \in l.armed

(* The scan goes on as it did. *)
LEMMA SameCalm ==
  ASSUME NEW l, Good(l), NEW lp, CalmInv(l, lp), NEW m, KeepsRocs(l, m),
         m.scan_req = l.scan_req, m.scanning = l.scanning, m.next = l.next, m.idx = l.idx,
         m.scan_chan = l.scan_chan, m.rx = l.rx, m.hw_scan = l.hw_scan, m.stopped = l.stopped,
         driver.scan => ScanWorkAs(l, m)
  PROVE  CalmInv(m, lp)
<1>1. Kinds(l) /\ Tuned(l) /\ Timely(l, lp) /\ Radio(l)
  BY DEF CalmInv
<1>2. Kinds(m) /\ Tuned(m)
  BY <1>1 DEF Kinds, Tuned
<1>3. Timely(m, lp)
  BY <1>1 DEF Timely, KeepsRocs, ScanWorkAs, Queued
<1>4. Radio(m)
  BY <1>1, SameRadio
<1> QED
  BY <1>2, <1>3, <1>4 DEF CalmInv

(* A scan that is about to end. *)
ScanEnding(l) ==
  /\ Claimed(l) /\ Radio(l) /\ l.scan_req # NoRequest
  /\ ~l.rx /\ ~l.hw_scan
  /\ driver.scan => ~Queued(l, "scan_work")
  /\ "HW" \in l.scanning => /\ l.scanning \cap {"SW", "ONCHANNEL", "BEACON_WAIT"} = {}
                            /\ ~l.stopped /\ driver.scan /\ l.scan_chan = NoChan

LEMMA FinishScanCalm ==
  ASSUME Calm, NEW l, Good(l), ScanEnding(l), NEW m \in FinishScan(l)
  PROVE  /\ CalmInv(m, FALSE) /\ m.scan_req = NoRequest /\ m.in_reconfig = l.in_reconfig
         /\ l.in_reconfig => KeepsRocs(l, m)
         /\ m.roc_list = l.roc_list
<1> DEFINE h == AfterScan(l)
<1>1. Claimed(l) /\ l.scan_req # NoRequest /\ Radio(l)
  BY DEF ScanEnding
<1>2. /\ Good(h) /\ KeepsRocs(l, h) /\ h.scan_req = NoRequest /\ h.scan_chan = NoChan /\ ~h.rx
      /\ h.scanning = {} /\ h.hw_scan = l.hw_scan
      /\ h.stopped = (l.stopped /\ (l.scanning = {} \/ "HW" \in l.scanning))
      /\ h.works = l.works /\ h.armed = l.armed
  BY <1>1, EndedIs DEF ScanEnding
<1>3. IF l.scanning = {} THEN m = h ELSE m \in StartNextRoc(h)
  BY <1>1, FinishScanIs
<1> HIDE DEF h
<1>4. Radio(h)
  <2>1. ~driver.roc /\ l.started # {} => h.stopped = l.stopped
    <3>1. l \in LocalState
      BY DEF Good
    <3>2. l.stopped \in BOOLEAN
      BY <3>1 DEF LocalState
    <3> QED
      BY <1>1, <1>2, <3>2 DEF Radio
  <2>2. h.scanning = {} /\ (l.started = {} \/ driver.roc) => ~h.stopped
    BY <1>1, <1>2 DEF Radio, ScanEnding
  <2> QED
    BY <1>1, <1>2, <2>1, <2>2, KeepsRadio
<1>5. CalmInv(h, FALSE)
  <2>1. Kinds(h) /\ Tuned(h)
    BY <1>2 DEF Kinds, Tuned, ScanEnding
  <2>2. Timely(h, FALSE)
    BY <1>2 DEF Timely, ScanEnding, Queued
  <2> QED
    BY <1>4, <2>1, <2>2 DEF CalmInv
<1>6. h.in_reconfig = l.in_reconfig /\ h.roc_list = l.roc_list
  BY <1>2 DEF KeepsRocs, RocFields
<1>7. CASE l.scanning = {}
  BY <1>2, <1>3, <1>5, <1>6, <1>7
<1>8. CASE l.scanning # {}
  <2>1. m \in StartNextRoc(h)
    BY <1>3, <1>8
  <2>2. Good(m) /\ SameScan(h, m) /\ m.roc_list = h.roc_list
    BY <1>2, <2>1, StartNextRocGood
  <2>3. driver.roc => l.hw_roc = "idle" /\ ~Contains(l.works, "hw_roc_done")
    BY <1>1, <1>8 DEF Radio, HwRocsKept
  <2>4. driver.roc => h.hw_roc = "idle" /\ ~Contains(h.works, "hw_roc_done")
    BY <1>2, <2>3 DEF KeepsRocs
  <2>5. Radio(m)
    BY <1>2, <1>4, <2>1, <2>4, NextRocRadio
  <2>6. CalmInv(m, FALSE)
    BY <1>2, <1>5, <2>2, <2>5, RocCalm
  <2>7. m.scan_req = NoRequest /\ m.in_reconfig = h.in_reconfig
    BY <1>2, <2>2 DEF SameScan, ScanFields
  <2>8. ASSUME l.in_reconfig PROVE m = h
    BY <1>2, <1>6, <2>1, <2>8 DEF StartNextRoc, RunDeferredScan
  <2> QED
    BY <1>2, <1>6, <2>2, <2>6, <2>7, <2>8
<1> QED
  BY <1>7, <1>8

LEMMA NextBandEnds ==
  ASSUME NEW l, Good(l), ScanEnding(l), l.band < HwBands
  PROVE  LET m == NextBand(l)
         IN  /\ Good(m) /\ ScanEnding(m) /\ KeepsRocs(l, m) /\ ScanFields(l, m)
             /\ m.works = l.works /\ m.armed = l.armed /\ m.stopped = l.stopped
<1> DEFINE m == NextBand(l)
<1>1. /\ Good(m) /\ KeepsRocs(l, m) /\ ScanFields(l, m)
      /\ m.works = l.works /\ m.armed = l.armed /\ m.stopped = l.stopped
  BY NextBandIs
<1> HIDE DEF m
<1>2. Radio(m)
  BY <1>1, SameRadio DEF ScanEnding, ScanFields
<1>3. Claimed(m)
  BY <1>1 DEF ScanEnding, Claimed, ScanFields
<1>4. ScanEnding(m)
  BY <1>1, <1>2, <1>3 DEF ScanEnding, ScanFields, Queued
<1> QED
  BY <1>1, <1>4 DEF m

LEMMA ScanCompletedCalm ==
  ASSUME Calm, NEW l, Good(l), ScanEnding(l), NEW aborted,
         aborted \/ "COMPLETED" \notin l.scanning, NEW m \in ScanCompleted(l, aborted)
  PROVE  /\ CalmInv(m, FALSE)
         /\ "HW" \notin l.scanning =>
              /\ m.scan_req = NoRequest /\ m.in_reconfig = l.in_reconfig
              /\ l.in_reconfig => KeepsRocs(l, m)
              /\ m.roc_list = l.roc_list
<1>1. l.scan_req # NoRequest
  BY DEF ScanEnding
<1>2. CASE m \in FinishScan(l)
  BY <1>2, FinishScanCalm
<1>3. CASE More(l, aborted) /\ m \in FinishScan(NextBand(l))
  <2>1. Good(NextBand(l)) /\ ScanEnding(NextBand(l))
    BY <1>3, NextBandEnds DEF More
  <2> QED
    BY <1>3, <2>1, FinishScanCalm DEF More
<1>4. CASE More(l, aborted) /\ m \in DriverScans(NextBand(l))
  <2> DEFINE x == NextBand(l)
  <2>1. /\ Good(x) /\ ScanEnding(x) /\ KeepsRocs(l, x) /\ ScanFields(l, x)
        /\ x.works = l.works /\ x.armed = l.armed /\ x.stopped = l.stopped
    BY <1>4, NextBandEnds DEF More
  <2>2. ~x.in_reconfig /\ m = HwScans(x)
    BY <1>4, DriverScansIs
  <2>3. "HW" \in l.scanning /\ "COMPLETED" \notin l.scanning
    BY <1>4 DEF More
  <2> HIDE DEF x
  <2>4. /\ Good(m) /\ KeepsRocs(x, m) /\ m.works = x.works /\ m.armed = x.armed
        /\ m.stopped = x.stopped /\ m.scan_req = x.scan_req /\ m.scanning = x.scanning
        /\ m.next = x.next /\ m.idx = x.idx /\ m.scan_chan = x.scan_chan /\ m.rx = x.rx /\ m.hw_scan
    BY <2>1, <2>2, HwScansIs
  <2>5. Radio(m)
    BY <2>1, <2>4, SameRadio DEF ScanEnding
  <2>6. "HW" \in m.scanning /\ "COMPLETED" \notin m.scanning
    BY <2>1, <2>3, <2>4 DEF ScanFields
  <2>7. Kinds(m) /\ Tuned(m)
    BY <2>1, <2>4, <2>6 DEF Kinds, Tuned, ScanEnding
  <2>8. Timely(m, FALSE)
    BY <2>1, <2>2, <2>4 DEF Timely, ScanEnding, Queued, KeepsRocs
  <2> QED
    BY <2>3, <2>5, <2>7, <2>8 DEF CalmInv
<1> QED
  BY <1>1, <1>2, <1>3, <1>4, ScanCompletedIs

LEMMA ScanCancelCalm ==
  ASSUME Calm, NEW l, Good(l), Scanned(l), CalmInv(l, FALSE), NEW m \in ScanCancel(l)
  PROVE  /\ CalmInv(m, FALSE) /\ m.roc_list = l.roc_list
         /\ "HW" \notin l.scanning =>
              /\ m.scan_req = NoRequest /\ m.in_reconfig = l.in_reconfig
              /\ l.in_reconfig => KeepsRocs(l, m)
<1>1. Kinds(l) /\ Tuned(l) /\ Timely(l, FALSE) /\ Radio(l)
  BY DEF CalmInv
<1>2. CASE l.scan_req = NoRequest /\ m = l
  <2>1. KeepsRocs(l, l)
    BY DEF KeepsRocs, RocFields
  <2> QED
    BY <1>2, <2>1
<1>3. CASE "HW" \in l.scanning /\ m = HwCancels(l)
  <2>1. /\ KeepsRocs(l, m) /\ m.scan_req = l.scan_req /\ m.hw_scan = l.hw_scan
        /\ m.scan_chan = l.scan_chan /\ m.rx = l.rx /\ m.next = l.next /\ m.idx = l.idx
        /\ m.works = l.works /\ m.armed = l.armed /\ m.stopped = l.stopped
        /\ m.scanning = l.scanning \cup {"HW_CANCELLED"}
    BY <1>3, HwCancelsIs
  <2>2. \A f \in Flags : f # "HW_CANCELLED" => (f \in m.scanning <=> f \in l.scanning)
    BY <2>1
  <2>3. m.scanning # {} /\ l.scanning # {}
    BY <1>3, <2>1
  <2>4. Kinds(m) /\ Tuned(m)
    BY <1>1, <2>1, <2>3 DEF Kinds, Tuned
  <2>5. Timely(m, FALSE)
    BY <1>1, <2>1 DEF Timely, Queued, KeepsRocs
  <2>6. Radio(m)
    BY <1>1, <2>1, <2>3, KeepsRadio
  <2> QED
    BY <1>3, <2>1, <2>4, <2>5, <2>6 DEF CalmInv, KeepsRocs, RocFields
<1>4. CASE /\ l.scan_req # NoRequest /\ "HW" \notin l.scanning
           /\ m \in ScanCompleted(CancelWork(l, "scan_work"), TRUE)
  <2> DEFINE x == CancelWork(l, "scan_work")
  <2>1. /\ Good(x) /\ KeepsRocs(l, x) /\ ScanFields(l, x) /\ x.stopped = l.stopped
        /\ ~Queued(x, "scan_work")
    BY ScanDropped
  <2> HIDE DEF x
  <2>2. Radio(x)
    BY <1>1, <2>1, SameRadio DEF ScanFields
  <2>3. Claimed(x)
    BY <2>1 DEF Claimed, Scanned, ScanFields
  <2>4. ScanEnding(x)
    BY <1>1, <1>4, <2>1, <2>2, <2>3 DEF ScanEnding, ScanFields, Kinds
  <2>5. /\ CalmInv(m, FALSE) /\ m.scan_req = NoRequest /\ m.in_reconfig = x.in_reconfig
        /\ x.in_reconfig => KeepsRocs(x, m)
        /\ m.roc_list = x.roc_list
    BY <1>4, <2>1, <2>4, ScanCompletedCalm DEF ScanFields, x
  <2>6. x.in_reconfig = l.in_reconfig /\ x.roc_list = l.roc_list
    BY <2>1 DEF KeepsRocs, RocFields
  <2> QED
    BY <2>1, <2>5, <2>6, KeepsRocsTrans
<1> QED
  BY <1>2, <1>3, <1>4, ScanCancelIs

-----------------------------------------------------------------------------
(* Scans begin, while all is calm. *)

(* No scan goes on, and none is to be started. *)
NoScan(l) ==
  /\ Radio(l) /\ l.scanning = {} /\ l.scan_chan = NoChan /\ ~l.rx /\ ~l.hw_scan
  /\ driver.scan => ~Queued(l, "scan_work")

LEMMA EmptyListIs ==
  ASSUME NEW l, Good(l), l.roc_list = <<>>
  PROVE  l.started = {}
  BY StartedListed

LEMMA StartScanCalm ==
  ASSUME Calm, NEW l, Good(l), NoScan(l), NEW req \in Requests, NEW m \in StartScan(l, req)
  PROVE  CalmInv(m, FALSE)
<1>1. /\ Good(m) /\ KeepsRocs(l, m)
      /\ m.scan_req = req /\ m.scan_req # NoRequest
      /\ m.scan_chan = NoChan /\ ~m.rx
      /\ Defers(l, m) \/ HwBegins(l, m) \/ SwBegins(l, m, {})
  <2>1. /\ Good(m) /\ KeepsRocs(l, m) /\ m.scan_req = req
        /\ m.scan_chan = l.scan_chan /\ m.rx = l.rx
        /\ Defers(l, m) \/ HwBegins(l, m) \/ SwBegins(l, m, {}) \/ SwBegins(l, m, l.scanning)
    BY StartScanIs
  <2>2. l.scanning = {} /\ l.scan_chan = NoChan /\ ~l.rx
    BY DEF NoScan
  <2>3. SwBegins(l, m, l.scanning) => SwBegins(l, m, {})
    BY <2>2
  <2>4. NoRequest \notin Requests
    BY OffChannelAssumption
  <2> QED
    BY <2>1, <2>2, <2>3, <2>4
<1>2. Radio(l) /\ m.in_reconfig = l.in_reconfig
  BY <1>1 DEF NoScan, KeepsRocs
<1>3. CASE Defers(l, m)
  <2>1. m.scanning = {} /\ ~m.hw_scan /\ m.works = l.works /\ m.armed = l.armed /\ m.stopped = l.stopped
    BY <1>3 DEF Defers, NoScan
  <2>2. Radio(m)
    BY <1>1, <1>2, <2>1, SameRadio DEF NoScan
  <2>3. Kinds(m) /\ Tuned(m)
    BY <1>1, <2>1 DEF Kinds, Tuned
  <2>4. Timely(m, FALSE)
    BY <1>1, <2>1 DEF Timely, NoScan, Queued
  <2> QED
    BY <2>2, <2>3, <2>4 DEF CalmInv
<1>4. CASE HwBegins(l, m)
  <2>1. /\ m.scanning = {"HW"} /\ m.hw_scan /\ driver.scan /\ ~m.in_reconfig
        /\ m.works = l.works /\ m.armed = l.armed /\ m.stopped = l.stopped
        /\ l.roc_list = <<>> /\ l.started = {}
    BY <1>2, <1>4, EmptyListIs DEF HwBegins, NoScan
  <2>2. ~l.stopped
    BY <2>1 DEF NoScan, Radio
  <2>3. Radio(m)
    BY <1>1, <1>2, <2>1, KeepsRadio
  <2>4. Kinds(m) /\ Tuned(m)
    BY <1>1, <2>1, <2>2 DEF Kinds, Tuned
  <2>5. Timely(m, FALSE)
    BY <1>1, <2>1 DEF Timely, NoScan, Queued
  <2> QED
    BY <2>3, <2>4, <2>5 DEF CalmInv
<1>5. CASE SwBegins(l, m, {})
  <2>1. /\ ~m.hw_scan /\ l.roc_list = <<>> /\ l.started = {}
        /\ \/ /\ m.scanning \in {{"ONCHANNEL"}, {"ONCHANNEL", "BEACON_WAIT"}}
              /\ m.stopped = l.stopped /\ m.works = l.works
           \/ /\ m.scanning = {"SW"} /\ m.stopped
              /\ m.next = "DECISION" /\ "scan_work" \notin m.armed
    BY <1>5, EmptyListIs DEF SwBegins, NoScan
  <2>2. ~l.stopped
    BY <2>1 DEF NoScan, Radio
  <2>3. m.scanning # {} /\ "HW" \notin m.scanning /\ "COMPLETED" \notin m.scanning
    BY <2>1
  <2>4. Radio(m)
    BY <1>1, <1>2, <2>1, <2>3, KeepsRadio
  <2>5. Kinds(m)
    BY <1>1, <2>1 DEF Kinds
  <2>6. Tuned(m)
    BY <1>1, <2>1, <2>2 DEF Tuned
  <2>7. Timely(m, FALSE)
    BY <1>1, <2>1, <2>3 DEF Timely, NoScan, Queued
  <2> QED
    BY <2>4, <2>5, <2>6, <2>7 DEF CalmInv
<1> QED
  BY <1>1, <1>3, <1>4, <1>5

LEMMA RequestScanCalm ==
  ASSUME CalmHere, NEW req \in Requests, RequestScan(req)
  PROVE  CalmNext
<1>1. /\ Good(local) /\ Calm /\ CalmInv(local, FALSE) /\ looping' = FALSE
  BY DEF CalmHere, Sound, RequestScan, Free, Becomes
<1>2. Kinds(local) /\ Tuned(local) /\ Timely(local, FALSE) /\ Radio(local)
  BY <1>1 DEF CalmInv
<1>3. local.scan_req = NoRequest => NoScan(local)
  BY <1>2 DEF NoScan, Kinds, Tuned, Timely
<1>4. CASE Becomes({[m EXCEPT !.asked = @ \/ req.user] : m \in StartScan(local, req)})
  <2>1. PICK m \in StartScan(local, req) : local' = Asking(m, req)
    BY <1>4 DEF Becomes, Asking
  <2>2. Good(m) /\ local.scan_req = NoRequest
    BY <1>1, StartScanIs
  <2>3. CalmInv(m, FALSE)
    BY <1>1, <1>3, <2>2, StartScanCalm
  <2>4. /\ KeepsRocs(m, local')
        /\ local'.scan_req = m.scan_req /\ local'.scanning = m.scanning /\ local'.next = m.next
        /\ local'.idx = m.idx /\ local'.scan_chan = m.scan_chan /\ local'.rx = m.rx
        /\ local'.hw_scan = m.hw_scan
        /\ local'.works = m.works /\ local'.armed = m.armed /\ local'.stopped = m.stopped
    BY <2>1, <2>2, AskingIs
  <2>5. CalmInv(local', FALSE)
    BY <2>2, <2>3, <2>4, SameCalm DEF ScanWorkAs
  <2> QED
    BY <1>1, <2>5 DEF CalmNext
<1>5. CASE Becomes(StartScanFails(local, req))
  <2>1. local' \in StartScanFails(local, req)
    BY <1>5 DEF Becomes
  <2>2. /\ KeepsRocs(local, local')
        /\ local'.scan_req = local.scan_req /\ local'.hw_scan = local.hw_scan
        /\ local'.scan_chan = local.scan_chan /\ local'.rx = local.rx /\ local'.next = local.next
        /\ local'.idx = local.idx
        /\ local'.works = local.works /\ local'.armed = local.armed /\ local'.stopped = local.stopped
        /\ local' = local \/ (local.scan_req = NoRequest /\ local'.scanning = {})
    BY <1>1, <2>1, StartScanFailsIs
  <2>3. local'.scanning = local.scanning
    BY <1>3, <2>2 DEF NoScan
  <2>4. CalmInv(local', FALSE)
    BY <1>1, <2>2, <2>3, SameCalm DEF ScanWorkAs
  <2> QED
    BY <1>1, <2>4 DEF CalmNext
<1> QED
  BY <1>4, <1>5 DEF RequestScan

(* scan_work has been taken from the list. *)
ScanFound(t) ==
  /\ Good(t) /\ Claimed(t) /\ CalmInv(t, FALSE) /\ ~t.hw_scan
  /\ driver.scan => ~Queued(t, "scan_work")

LEMMA ScanFoundIs ==
  ASSUME CalmHere, ~looping, local.works # <<>>, Head(local.works) = "scan_work"
  PROVE  ScanFound(Take(local))
<1> DEFINE t == Take(local)
<1>1. Good(local) /\ Scanned(local) /\ CalmInv(local, FALSE)
  BY DEF CalmHere, Sound
<1>2. /\ Good(t) /\ KeepsRocs(local, t) /\ ScanFields(local, t)
      /\ t.stopped = local.stopped /\ t.armed = local.armed /\ ~Contains(t.works, "scan_work")
      /\ Contains(local.works, "scan_work")
  BY <1>1, ScanTaken
<1> HIDE DEF t
<1>3. Kinds(local) /\ Tuned(local) /\ Timely(local, FALSE) /\ Radio(local)
  BY <1>1 DEF CalmInv
<1>4. driver.scan => ~Queued(t, "scan_work")
  BY <1>2, <1>3 DEF Timely, Queued
<1>5. ~t.hw_scan
  BY <1>2, <1>3 DEF Kinds, Timely, ScanFields
<1>6. CalmInv(t, FALSE)
  BY <1>1, <1>2, <1>4, SameCalm DEF ScanFields, ScanWorkAs
<1>7. Claimed(t)
  BY <1>1, <1>2 DEF Claimed, Scanned, ScanFields
<1> QED
  BY <1>2, <1>4, <1>5, <1>6, <1>7 DEF ScanFound, t

LEMMA ScanWorkCalm ==
  ASSUME Calm, NEW l, ScanFound(l), ~ScanWorkLoops(l), NEW m \in ScanWork(l)
  PROVE  CalmInv(m, FALSE)
<1>1. /\ Good(l) /\ Claimed(l) /\ ~l.hw_scan
      /\ Kinds(l) /\ Tuned(l) /\ Timely(l, FALSE) /\ Radio(l)
  BY DEF ScanFound, CalmInv
<1>2. l.scan_req \in Requests \cup {NoRequest}
  BY <1>1 DEF Good, LocalState
<1>3. l.scan_req # NoRequest => ScanEnding(l)
  BY <1>1 DEF ScanEnding, Kinds, Tuned, ScanFound
<1>4. CASE m \in ScanCompleted(l, TRUE)
  <2>1. CASE l.scan_req = NoRequest
    BY <1>4, <2>1 DEF ScanCompleted, ScanFound
  <2>2. CASE l.scan_req # NoRequest
    BY <1>1, <1>3, <1>4, <2>2, ScanCompletedCalm
  <2> QED
    BY <2>1, <2>2
<1>5. CASE /\ l.scanning \cap {"ONCHANNEL", "COMPLETED"} # {}
           /\ m \in ScanCompleted(ReportRead(l), "ABORTED" \in l.scanning)
  <2> DEFINE x == ReportRead(l)
  <2>1. /\ Good(x) /\ KeepsRocs(l, x)
        /\ x.scan_req = l.scan_req /\ x.asked = l.asked /\ x.hw_scan = l.hw_scan
        /\ x.scan_chan = l.scan_chan /\ x.rx = l.rx
        /\ x.works = l.works /\ x.armed = l.armed /\ x.stopped = l.stopped
        /\ x.scanning = l.scanning \ {"COMPLETED", "ABORTED"}
    BY <1>1, ReportReadIs
  <2> HIDE DEF x
  <2>2. l.scanning # {} /\ l.scan_req # NoRequest /\ x.scanning # {}
    BY <1>1, <1>5, <2>1 DEF Kinds
  <2>3. Radio(x)
    BY <1>1, <2>1, <2>2, KeepsRadio
  <2>4. Claimed(x)
    BY <1>1, <2>1 DEF Claimed
  <2>5. ScanEnding(x) /\ "COMPLETED" \notin x.scanning
    BY <1>3, <2>1, <2>2, <2>3, <2>4 DEF ScanEnding, Queued
  <2> QED
    BY <1>5, <2>1, <2>5, ScanCompletedCalm DEF x
<1>6. CASE m = l
  BY <1>6 DEF ScanFound
<1> DEFINE none == WithRequest(l, NoRequest)
<1>7. ASSUME l.scan_req # NoRequest, l.scanning = {}
      PROVE  /\ Good(none) /\ NoScan(none) /\ KeepsRocs(l, none) /\ none.scan_req = NoRequest
             /\ none.asked = l.asked
  <2>1. /\ Good(none) /\ KeepsRocs(l, none)
        /\ none.asked = l.asked /\ none.hw_scan = l.hw_scan /\ none.scan_req = NoRequest
        /\ none.scan_chan = l.scan_chan /\ none.rx = l.rx
        /\ none.works = l.works /\ none.armed = l.armed /\ none.stopped = l.stopped
        /\ none.scanning = l.scanning
    BY <1>1, WithRequestIs
  <2> HIDE DEF none
  <2>2. Radio(none)
    BY <1>1, <2>1, SameRadio
  <2>3. NoScan(none)
    BY <1>1, <1>7, <2>1, <2>2 DEF NoScan, Kinds, Tuned, ScanFound, Queued
  <2> QED
    BY <2>1, <2>3
<1>8. CASE l.scan_req # NoRequest /\ l.scanning = {} /\ m \in StartScan(none, l.scan_req)
  <2> HIDE DEF none
  <2> QED
    BY <1>2, <1>7, <1>8, StartScanCalm
<1>9. CASE /\ l.scan_req # NoRequest /\ l.scanning = {}
           /\ \E f \in StartScanFails(none, l.scan_req) :
                m \in ScanCompleted(WithRequest(f, l.scan_req), TRUE)
  <2> HIDE DEF none
  <2>1. PICK f \in StartScanFails(none, l.scan_req) :
          m \in ScanCompleted(WithRequest(f, l.scan_req), TRUE)
    BY <1>9
  <2>2. /\ Good(f) /\ KeepsRocs(none, f)
        /\ f.asked = l.asked /\ f.hw_scan = none.hw_scan /\ f.rx = none.rx
        /\ f.works = none.works /\ f.armed = none.armed /\ f.stopped = none.stopped
        /\ f.scanning = {}
    BY <1>7, <1>9, StartScanFailsIs DEF NoScan
  <2> DEFINE x == WithRequest(f, l.scan_req)
  <2>3. /\ Good(x) /\ KeepsRocs(f, x)
        /\ x.scan_req = l.scan_req /\ x.asked = f.asked /\ x.hw_scan = f.hw_scan /\ x.rx = f.rx
        /\ x.works = f.works /\ x.armed = f.armed /\ x.stopped = f.stopped
        /\ x.scanning = f.scanning
    BY <1>2, <2>2, WithRequestIs
  <2> HIDE DEF x
  <2>4. KeepsRocs(none, x)
    BY <2>2, <2>3, KeepsRocsTrans
  <2>5. Radio(x)
    BY <1>7, <1>9, <2>2, <2>3, <2>4, SameRadio DEF NoScan
  <2>6. Claimed(x)
    BY <1>1, <2>2, <2>3 DEF Claimed
  <2>7. ScanEnding(x)
    BY <1>7, <1>9, <2>2, <2>3, <2>5, <2>6 DEF ScanEnding, NoScan, Queued
  <2> QED
    BY <2>1, <2>3, <2>7, ScanCompletedCalm DEF x
<1> QED
  BY <1>4, <1>5, <1>6, <1>8, <1>9, ScanWorkIs

LEMMA RunScanWorkCalm ==
  ASSUME CalmHere, RunScanWork
  PROVE  CalmNext
<1> DEFINE t == Take(local)
           s == t.scanning \ {"BEACON_WAIT"}
<1>1. /\ local.works # <<>> /\ Head(local.works) = "scan_work" /\ ~looping
      /\ \/ ~ScanWorkLoops(local) /\ local' \in ScanWork(t) /\ looping' = looping
         \/ /\ ScanWorkLoops(local) /\ looping' = TRUE
            /\ local' = [t EXCEPT !.scanning = @ \ {"BEACON_WAIT"}]
  BY DEF RunScanWork, Runs, Taken, Take
<1>2. ScanFound(t) /\ Calm /\ looping = FALSE
  BY <1>1, ScanFoundIs DEF CalmHere, Sound
<1>3. ScanFields(local, t)
  BY <1>1, ScanTaken DEF CalmHere, Sound
<1> HIDE DEF t
<1>4. ScanWorkLoops(t) <=> ScanWorkLoops(local)
  BY <1>3 DEF ScanWorkLoops, ScanFields
<1>5. CASE ~ScanWorkLoops(local) /\ local' \in ScanWork(t) /\ looping' = looping
  <2>1. CalmInv(local', FALSE)
    BY <1>2, <1>4, <1>5, ScanWorkCalm
  <2> QED
    BY <1>2, <1>5, <2>1 DEF CalmNext
<1>6. CASE /\ ScanWorkLoops(local) /\ looping' = TRUE
           /\ local' = [t EXCEPT !.scanning = @ \ {"BEACON_WAIT"}]
  <2>1. /\ Good(t) /\ t \in LocalState /\ Radio(t) /\ Kinds(t) /\ Tuned(t) /\ Timely(t, FALSE)
        /\ ~t.hw_scan /\ (driver.scan => ~Queued(t, "scan_work"))
    BY <1>2 DEF ScanFound, CalmInv, Good
  <2>2. s \in SUBSET Flags /\ t.rx \in BOOLEAN
    BY <2>1 DEF LocalState
  <2>3. local' = Waited(t, s, t.rx)
    BY <1>6, <2>1 DEF Waited, LocalState
  <2>4. /\ KeepsRocs(t, local')
        /\ local'.scan_req = t.scan_req /\ local'.next = t.next /\ local'.idx = t.idx
        /\ local'.scan_chan = t.scan_chan /\ local'.hw_scan = t.hw_scan
        /\ local'.works = t.works /\ local'.armed = t.armed /\ local'.stopped = t.stopped
        /\ local'.scanning = s /\ local'.rx = t.rx
    BY <2>1, <2>2, <2>3, WaitedIs
  <2>5. /\ t.scanning # {} /\ t.scan_req # NoRequest
        /\ "ONCHANNEL" \notin t.scanning /\ "COMPLETED" \notin t.scanning
    BY <1>4, <1>6 DEF ScanWorkLoops
  <2>6. "SW" \in t.scanning /\ "HW" \notin t.scanning
    BY <2>1, <2>5 DEF Kinds
  <2>7. Radio(local')
    BY <2>1, <2>4, <2>5, <2>6, KeepsRadio
  <2>8. Kinds(local') /\ Tuned(local')
    BY <2>1, <2>4, <2>5, <2>6 DEF Kinds, Tuned
  <2>9. Timely(local', TRUE)
    BY <2>1, <2>4, <2>5, <2>6 DEF Timely, Queued
  <2> QED
    BY <1>6, <2>7, <2>8, <2>9 DEF CalmNext, CalmInv
<1> QED
  BY <1>1, <1>5, <1>6

-----------------------------------------------------------------------------
(* The loop of scan_work, while all is calm. *)

LEMMA LoopToCalm ==
  ASSUME Calm, NEW l, Good(l), CalmInv(l, TRUE), NEW s, NEW n \in ScanStates,
         NEW c \in Chans \cup {NoChan}, NEW i \in Nat, NEW b \in BOOLEAN, NEW lp,
         s \subseteq Flags, s \subseteq l.scanning \cup {"BEACON_WAIT"}, "SW" \in s,
         lp => "BEACON_WAIT" \notin s,
         b <=> n # "RESUME",
         n = "RESUME" => c = NoChan,
         n \in {"SUSPEND", "RESUME", "SET_CHANNEL"} => i < Len(l.scan_req.channels)
  PROVE  /\ Good(LoopTo(l, s, n, c, i, b)) /\ CalmInv(LoopTo(l, s, n, c, i, b), lp)
         /\ driver.scan => ~Queued(LoopTo(l, s, n, c, i, b), "scan_work")
         /\ "SW" \in LoopTo(l, s, n, c, i, b).scanning
<1> DEFINE m == LoopTo(l, s, n, c, i, b)
<1>1. /\ Good(m) /\ KeepsRocs(l, m)
      /\ m.scan_req = l.scan_req /\ m.asked = l.asked /\ m.hw_scan = l.hw_scan
      /\ m.rx = l.rx /\ m.works = l.works /\ m.armed = l.armed
      /\ m.scanning = s /\ m.next = n /\ m.scan_chan = c /\ m.idx = i /\ m.stopped = b
  BY LoopToIs
<1> HIDE DEF m
<1>2. Kinds(l) /\ Tuned(l) /\ Timely(l, TRUE) /\ Radio(l)
  BY DEF CalmInv
<1>3. /\ "SW" \in l.scanning /\ "HW" \notin l.scanning /\ "ONCHANNEL" \notin l.scanning
      /\ "COMPLETED" \notin l.scanning /\ ~l.hw_scan /\ l.scan_req # NoRequest
      /\ driver.scan => ~Queued(l, "scan_work")
  BY <1>2 DEF Kinds, Timely
<1>4. /\ "HW" \notin s /\ "ONCHANNEL" \notin s /\ "COMPLETED" \notin s
  BY <1>3
<1>5. l.started = {}
  BY <1>2, <1>3 DEF Radio
<1>6. Radio(m)
  BY <1>1, <1>2, <1>3, <1>5, KeepsRadio
<1>7. Kinds(m)
  BY <1>1, <1>2, <1>3, <1>4 DEF Kinds
<1>8. Tuned(m)
  BY <1>1, <1>4 DEF Tuned
<1>9. Timely(m, lp)
  BY <1>1, <1>3, <1>4 DEF Timely, Queued
<1> QED
  BY <1>1, <1>3, <1>6, <1>7, <1>8, <1>9 DEF CalmInv, Queued, m

LEMMA LoopLeadsCalm ==
  ASSUME Calm, NEW l, Good(l), CalmInv(l, TRUE), NEW s, NEW n \in ScanStates,
         NEW c \in Chans \cup {NoChan}, NEW i \in Nat, NEW b \in BOOLEAN, NEW lp \in BOOLEAN,
         s \subseteq Flags, s \subseteq l.scanning \cup {"BEACON_WAIT"}, "SW" \in s,
         lp => "BEACON_WAIT" \notin s,
         b <=> n # "RESUME",
         n = "RESUME" => c = NoChan,
         n \in {"SUSPEND", "RESUME", "SET_CHANNEL"} => i < Len(l.scan_req.channels),
         NEW m, LoopLeads(l, m, lp, s, n, c, i, b)
  PROVE  CalmInv(m, lp)
<1> DEFINE x == LoopTo(l, s, n, c, i, b)
<1>1. /\ Good(x) /\ CalmInv(x, lp) /\ (driver.scan => ~Queued(x, "scan_work"))
      /\ "SW" \in x.scanning
  BY LoopToCalm
<1>2. (m = x /\ lp) \/ (m = QueueLater(x, "scan_work") /\ ~lp)
  BY DEF LoopLeads
<1> HIDE DEF x
<1>3. CASE m = x /\ lp
  BY <1>1, <1>3
<1>4. CASE m = QueueLater(x, "scan_work") /\ ~lp
  <2>1. /\ KeepsRocs(x, m) /\ ScanFields(x, m) /\ m.stopped = x.stopped
        /\ m.works = x.works /\ m.armed = x.armed \cup {"scan_work"}
    BY <1>1, <1>4, ScanArmed
  <2>2. Kinds(x) /\ Tuned(x) /\ Timely(x, lp) /\ Radio(x)
    BY <1>1 DEF CalmInv
  <2>3. Radio(m)
    BY <1>1, <2>1, <2>2, SameRadio DEF ScanFields
  <2>4. Kinds(m) /\ Tuned(m)
    BY <2>1, <2>2 DEF Kinds, Tuned, ScanFields
  <2>5. "HW" \notin x.scanning /\ x.scan_req # NoRequest
    BY <1>1, <2>2 DEF Kinds
  <2>6. Timely(m, lp)
    BY <1>1, <1>4, <2>1, <2>2, <2>5 DEF Timely, Queued, ScanFields
  <2> QED
    BY <2>3, <2>4, <2>6 DEF CalmInv
<1> QED
  BY <1>2, <1>3, <1>4

(* The next state of the scan that a decision may choose. *)
Chosen(l, lp, s, n, c, i, b) ==
  /\ s \subseteq Flags /\ s \subseteq l.scanning \cup {"BEACON_WAIT"} /\ "SW" \in s
  /\ n \in ScanStates /\ c \in Chans \cup {NoChan} /\ i \in Nat
  /\ b \in BOOLEAN /\ lp \in BOOLEAN
  /\ lp => "BEACON_WAIT" \notin s
  /\ b <=> n # "RESUME"
  /\ n = "RESUME" => c = NoChan
  /\ n \in {"SUSPEND", "RESUME", "SET_CHANNEL"} => i < Len(l.scan_req.channels)

LEMMA ChosenCalm ==
  ASSUME Calm, NEW l, Good(l), CalmInv(l, TRUE), NEW s, NEW n, NEW c, NEW i, NEW b, NEW lp,
         Chosen(l, lp, s, n, c, i, b),
         NEW m, LoopLeads(l, m, lp, s, n, c, i, b)
  PROVE  CalmInv(m, lp)
  BY LoopLeadsCalm DEF Chosen

LEMMA ScanLoopCalm ==
  ASSUME CalmHere, ScanLoop
  PROVE  CalmNext
<1>1. /\ Good(local) /\ local \in LocalState /\ Scanned(local) /\ looping = TRUE
      /\ local.scan_req # NoRequest /\ Calm /\ CalmInv(local, TRUE)
  BY DEF CalmHere, Sound, ScanLoop, Good
<1>2. Kinds(local) /\ Tuned(local) /\ Timely(local, TRUE) /\ Radio(local)
  BY <1>1 DEF CalmInv
<1> DEFINE s == Left(local)
           c == local.scan_chan
           i == local.idx
           len == Len(local.scan_req.channels)
<1>3. /\ "SW" \in local.scanning /\ "BEACON_WAIT" \notin local.scanning
      /\ local.stopped <=> local.next # "RESUME"
      /\ local.next = "RESUME" => local.scan_chan = NoChan
      /\ local.next \in {"SUSPEND", "RESUME", "SET_CHANNEL"} => i < len
  BY <1>2 DEF Timely, Tuned
<1>4. /\ c \in Chans \cup {NoChan} /\ i \in Nat /\ i + 1 \in Nat /\ local.stopped \in BOOLEAN
      /\ local.next \in ScanStates /\ local.scanning \subseteq Flags
  BY <1>1 DEF LocalState
<1>5. /\ s \subseteq Flags /\ s \subseteq local.scanning /\ "SW" \in s /\ "BEACON_WAIT" \notin s
      /\ "HW" \notin s /\ "ONCHANNEL" \notin s
  BY <1>2, <1>3, <1>4 DEF Left, Kinds
<1>6. LoopState \in ScanStates /\ (LoopState = local.next \/ (LoopState = "SEND_PROBE" /\ local.next = "DECISION"))
  BY <1>4 DEF LoopState, ScanStates
<1>7. LoopState = "RESUME" <=> local.next = "RESUME"
  BY <1>6
<1> HIDE DEF s, c, i, len
<1>8. CASE /\ LoopState = "DECISION" /\ i < len
           /\ \E n \in {"ABORT", "SUSPEND", "SET_CHANNEL"} :
                local' = LoopTo(local, s, n, c, i, local.stopped)
           /\ looping' = TRUE
  <2>1. PICK n \in {"ABORT", "SUSPEND", "SET_CHANNEL"} :
          local' = LoopTo(local, s, n, c, i, local.stopped)
    BY <1>8
  <2>2. n \in ScanStates /\ n # "RESUME" /\ local.stopped = TRUE
    BY <1>3, <1>4, <1>6, <1>8 DEF ScanStates
  <2>3. CalmInv(local', TRUE)
    BY <1>1, <1>4, <1>5, <1>8, <2>1, <2>2, LoopToCalm DEF len
  <2> QED
    BY <1>8, <2>3 DEF CalmNext
<1>9. CASE /\ LoopState = "SET_CHANNEL" /\ looping' \in BOOLEAN
           /\ \E d \in ChannelRead : \E n \in {"DECISION", "SEND_PROBE"},
                 wait \in {{}, {"BEACON_WAIT"}} :
                /\ looping' => wait = {}
                /\ LoopLeads(local, local', looping', s \cup wait, n, d, i + 1, local.stopped)
  <2>1. PICK d \in ChannelRead : \E n \in {"DECISION", "SEND_PROBE"},
                 wait \in {{}, {"BEACON_WAIT"}} :
                /\ looping' => wait = {}
                /\ LoopLeads(local, local', looping', s \cup wait, n, d, i + 1, local.stopped)
    BY <1>9
  <2>2. PICK n \in {"DECISION", "SEND_PROBE"}, wait \in {{}, {"BEACON_WAIT"}} :
                /\ looping' => wait = {}
                /\ LoopLeads(local, local', looping', s \cup wait, n, d, i + 1, local.stopped)
    BY <2>1
  <2>3. d \in Chans
    <3>1. local.scan_req \in Requests
      BY <1>1 DEF LocalState
    <3>2. local.scan_req.channels \in Seq(Chans)
      BY <3>1, OffChannelAssumption
    <3>3. local.idx < Len(local.scan_req.channels) =>
            local.scan_req.channels[local.idx + 1] \in Chans
      <4>1. local.idx \in Nat
        BY <1>4 DEF i
      <4> QED
        BY <3>2, <4>1
    <3> QED
      BY <2>1, <3>3 DEF ChannelRead
  <2> DEFINE sw == s \cup wait
  <2>4. /\ sw \subseteq Flags /\ sw \subseteq local.scanning \cup {"BEACON_WAIT"} /\ "SW" \in sw
        /\ looping' => "BEACON_WAIT" \notin sw
    BY <1>5, <2>2 DEF Flags
  <2>5. n \in ScanStates /\ n \notin {"SUSPEND", "RESUME", "SET_CHANNEL"} /\ local.stopped = TRUE
    BY <1>3, <1>4, <1>7, <1>9 DEF ScanStates
  <2>6. LoopLeads(local, local', looping', sw, n, d, i + 1, local.stopped)
    BY <2>2
  <2> HIDE DEF sw
  <2> DEFINE j == i + 1
  <2>7. j \in Nat /\ LoopLeads(local, local', looping', sw, n, d, j, local.stopped)
    BY <1>4, <2>6
  <2> HIDE DEF j
  <2>8. PICK b, lp, m : b = local.stopped /\ lp = looping' /\ m = local'
    OBVIOUS
  <2>9. /\ n \in ScanStates /\ d \in Chans \cup {NoChan} /\ b \in BOOLEAN /\ lp \in BOOLEAN
        /\ lp => "BEACON_WAIT" \notin sw
        /\ b <=> n # "RESUME"
        /\ n = "RESUME" => d = NoChan
        /\ n \in {"SUSPEND", "RESUME", "SET_CHANNEL"} => j < Len(local.scan_req.channels)
    BY <1>9, <2>3, <2>4, <2>5, <2>8
  <2>10. j \in Nat /\ LoopLeads(local, m, lp, sw, n, d, j, b)
    BY <2>7, <2>8
  <2>11. Calm /\ Good(local) /\ CalmInv(local, TRUE)
    BY <1>1
  <2>12. Chosen(local, lp, sw, n, d, j, b)
    BY <2>4, <2>9, <2>10 DEF Chosen
  <2>13. CalmInv(m, lp)
    BY <2>10, <2>11, <2>12, ChosenCalm
  <2>14. CalmInv(local', looping')
    BY <2>8, <2>13
  <2> QED
    BY <2>14 DEF CalmNext
<1>10. CASE /\ LoopState = "SEND_PROBE"
            /\ LoopLeads(local, local', looping', s, "DECISION", c, i, local.stopped)
            /\ looping' = FALSE
  <2>1. local.stopped = TRUE /\ "DECISION" \in ScanStates
    BY <1>3, <1>4, <1>7, <1>10 DEF ScanStates
  <2>2. CalmInv(local', looping')
    BY <1>1, <1>4, <1>5, <1>10, <2>1, LoopLeadsCalm
  <2> QED
    BY <2>2 DEF CalmNext
<1>11. CASE /\ LoopState = "SUSPEND"
            /\ LoopLeads(local, local', looping', s, "RESUME", NoChan, i, FALSE)
            /\ looping' = FALSE
  <2>1. "RESUME" \in ScanStates /\ i < Len(local.scan_req.channels)
    BY <1>3, <1>6, <1>11 DEF ScanStates, len
  <2>2. CalmInv(local', looping')
    BY <1>1, <1>4, <1>5, <1>11, <2>1, LoopLeadsCalm
  <2> QED
    BY <2>2 DEF CalmNext
<1>12. CASE /\ LoopState = "RESUME" /\ looping' \in BOOLEAN
            /\ LoopLeads(local, local', looping', s, "SET_CHANNEL", c, i, TRUE)
  <2>1. "SET_CHANNEL" \in ScanStates /\ i < Len(local.scan_req.channels)
    BY <1>3, <1>6, <1>12 DEF ScanStates, len
  <2>2. CalmInv(local', looping')
    BY <1>1, <1>4, <1>5, <1>12, <2>1, LoopLeadsCalm
  <2> QED
    BY <2>2 DEF CalmNext
<1>13. CASE /\ \E aborted \in BOOLEAN :
                 local' \in ScanCompleted(LoopTo(local, s, LoopState, c, i, local.stopped), aborted)
            /\ looping' = FALSE
  <2>1. PICK aborted \in BOOLEAN :
          local' \in ScanCompleted(LoopTo(local, s, LoopState, c, i, local.stopped), aborted)
    BY <1>13
  <2> DEFINE x == LoopTo(local, s, LoopState, c, i, local.stopped)
  <2>2. /\ Good(x) /\ KeepsRocs(local, x)
        /\ x.scan_req = local.scan_req /\ x.asked = local.asked /\ x.hw_scan = local.hw_scan
        /\ x.rx = local.rx /\ x.works = local.works /\ x.armed = local.armed
        /\ x.scanning = s /\ x.stopped = local.stopped
    BY <1>1, <1>4, <1>5, <1>6, LoopToIs
  <2> HIDE DEF x
  <2>3. /\ "HW" \notin local.scanning /\ "HW_CANCELLED" \notin local.scanning
        /\ "COMPLETED" \notin local.scanning /\ ~local.hw_scan /\ ~local.rx
        /\ driver.scan => ~Queued(local, "scan_work")
    BY <1>1, <1>2, <1>3 DEF Kinds, Scanned, Timely
  <2>4. x.scanning # {} /\ local.scanning # {} /\ local.started = {}
    BY <1>2, <1>3, <1>5, <2>2 DEF Radio
  <2>5. Radio(x)
    BY <1>1, <1>2, <2>2, <2>4, KeepsRadio
  <2>6. Claimed(x)
    BY <1>1, <1>5, <2>2, <2>3 DEF Claimed, Scanned
  <2>7. ScanEnding(x)
    BY <1>1, <1>5, <2>2, <2>3, <2>5, <2>6 DEF ScanEnding, Queued
  <2>8. "COMPLETED" \notin x.scanning
    BY <1>5, <2>2, <2>3
  <2>9. CalmInv(local', FALSE)
    BY <1>1, <2>1, <2>2, <2>7, <2>8, ScanCompletedCalm DEF x
  <2> QED
    BY <1>13, <2>9 DEF CalmNext
<1>14. looping' \in BOOLEAN
  BY <1>1, ScanLoopIs
<1> QED
  BY <1>1, <1>8, <1>9, <1>10, <1>11, <1>12, <1>13, <1>14, ScanLoopIs DEF s, c, i, len

-----------------------------------------------------------------------------
(* The driver's report and beacons, while all is calm. *)

LEMMA DriverScanDoneCalm ==
  ASSUME CalmHere, NEW aborted \in BOOLEAN, DriverScanDone(aborted)
  PROVE  CalmNext
<1>1. Good(local) /\ local \in LocalState /\ Calm /\ CalmInv(local, looping)
  BY DEF CalmHere, Sound, Good
<1>2. Kinds(local) /\ Tuned(local) /\ Timely(local, looping) /\ Radio(local)
  BY <1>1 DEF CalmInv
<1> DEFINE s == local.scanning \cup {"COMPLETED"} \cup (IF aborted THEN {"ABORTED"} ELSE {})
           x == [local EXCEPT !.hw_scan = FALSE, !.scanning = s]
<1>3. local' = QueueWork(x, "scan_work") /\ local.hw_scan /\ looping' = looping
  BY DEF DriverScanDone, Becomes
<1>4. /\ s \in SUBSET Flags /\ "COMPLETED" \in s
      /\ \A f \in Flags : f \notin {"COMPLETED", "ABORTED"} => (f \in s <=> f \in local.scanning)
  BY <1>1 DEF LocalState, Flags
<1> HIDE DEF s
<1>5. x \in LocalState
  BY <1>1, <1>4 DEF LocalState
<1>6. RocFields(local, x)
  BY <1>1 DEF LocalState, RocFields
<1>7. /\ x.works = local.works /\ x.armed = local.armed /\ x.hw_roc = local.hw_roc
      /\ x.tmp_channel = local.tmp_channel /\ x.in_reconfig = local.in_reconfig
      /\ x.scan_req = local.scan_req /\ x.scanning = s /\ ~x.hw_scan
      /\ x.next = local.next /\ x.idx = local.idx /\ x.scan_chan = local.scan_chan
      /\ x.rx = local.rx /\ x.stopped = local.stopped
  BY <1>1 DEF LocalState
<1> HIDE DEF x
<1>8. KeepsRocs(local, x) /\ Good(x)
  BY <1>1, <1>5, <1>6, <1>7, ScanStepGood
<1>9. /\ "HW" \in local.scanning /\ "SW" \notin local.scanning /\ "ONCHANNEL" \notin local.scanning
      /\ "BEACON_WAIT" \notin local.scanning /\ driver.scan /\ ~looping
      /\ local.scan_req # NoRequest /\ ~local.stopped /\ ~local.rx /\ local.scan_chan = NoChan
  BY <1>2, <1>3 DEF Kinds, Timely, Tuned
<1>10. /\ "HW" \in s /\ "SW" \notin s /\ "ONCHANNEL" \notin s /\ "BEACON_WAIT" \notin s
  BY <1>4, <1>9 DEF Flags
<1>11. Radio(x)
  <2>1. x.scanning # {} /\ local.scanning # {} /\ local.started = {}
    BY <1>2, <1>7, <1>9, <1>10 DEF Radio
  <2> QED
    BY <1>1, <1>2, <1>7, <1>8, <2>1, KeepsRadio
<1>12. /\ KeepsRocs(x, local') /\ ScanFields(x, local') /\ local'.stopped = x.stopped
       /\ Contains(local'.works, "scan_work") /\ "scan_work" \notin local'.armed
  BY <1>3, <1>8, ScanQueued
<1>13. Radio(local')
  BY <1>8, <1>11, <1>12, SameRadio DEF ScanFields
<1>14. Kinds(local') /\ Tuned(local')
  BY <1>4, <1>7, <1>9, <1>10, <1>12 DEF Kinds, Tuned, ScanFields
<1>15. Timely(local', looping')
  BY <1>3, <1>4, <1>7, <1>9, <1>12 DEF Timely, ScanFields, Queued
<1> QED
  BY <1>13, <1>14, <1>15 DEF CalmNext, CalmInv

LEMMA BeaconCalm ==
  ASSUME CalmHere, RxBeacon \/ RxMark
  PROVE  CalmNext
<1>1. Good(local) /\ Calm /\ CalmInv(local, looping)
  BY DEF CalmHere, Sound
<1>2. Kinds(local) /\ Tuned(local) /\ Timely(local, looping) /\ Radio(local)
  BY <1>1 DEF CalmInv
<1>3. local' = Marked(local) /\ looping' = looping /\ "BEACON_WAIT" \in local.scanning
  BY <1>1, <1>2 DEF RxBeacon, RxMark, Becomes, Kinds, Calm
<1>4. /\ KeepsRocs(local, local')
      /\ local'.scan_req = local.scan_req /\ local'.next = local.next /\ local'.idx = local.idx
      /\ local'.scan_chan = local.scan_chan /\ local'.hw_scan = local.hw_scan
      /\ local'.stopped = local.stopped /\ ~local'.rx
      /\ local'.scanning = (local.scanning \ {"BEACON_WAIT"}) \cup {"BEACON_DONE"}
      /\ Contains(local'.works, "scan_work") /\ "scan_work" \notin local'.armed
  BY <1>1, <1>3, MarkedIs
<1>5. "HW" \notin local.scanning /\ ~looping /\ local.scan_req # NoRequest
  BY <1>2, <1>3 DEF Kinds, Timely
<1>6. /\ "SW" \in local'.scanning <=> "SW" \in local.scanning
      /\ "ONCHANNEL" \in local'.scanning <=> "ONCHANNEL" \in local.scanning
      /\ "COMPLETED" \in local'.scanning <=> "COMPLETED" \in local.scanning
      /\ "HW" \notin local'.scanning
  BY <1>4, <1>5
<1>7. Radio(local')
  <2>1. local'.scanning # {} /\ local.scanning # {}
    BY <1>3, <1>4
  <2> QED
    BY <1>1, <1>2, <1>4, <2>1, KeepsRadio
<1>8. Kinds(local')
  BY <1>2, <1>3, <1>4, <1>5, <1>6 DEF Kinds
<1>9. Tuned(local')
  BY <1>2, <1>4, <1>5, <1>6 DEF Tuned
<1>10. Timely(local', looping')
  BY <1>2, <1>3, <1>4, <1>5, <1>6 DEF Timely, Queued, KeepsRocs
<1> QED
  BY <1>7, <1>8, <1>9, <1>10 DEF CalmNext, CalmInv

-----------------------------------------------------------------------------
(* Scans are aborted, interfaces go down and the hardware is restarted,    *)
(* while all is calm.                                                      *)

LEMMA AbortScanCalm ==
  ASSUME CalmHere, AbortScan
  PROVE  CalmNext
<1>1. local' \in ScanCancel(local) /\ looping = FALSE /\ looping' = FALSE
  BY DEF AbortScan, Becomes, Free, CalmHere, Sound
<1>2. CalmInv(local', FALSE)
  BY <1>1, ScanCancelCalm DEF CalmHere, Sound
<1> QED
  BY <1>1, <1>2 DEF CalmNext

(* No ROC ends. *)
LEMMA DestroyNoneCalm ==
  ASSUME Calm, NEW l, Good(l), NEW lp, CalmInv(l, lp)
  PROVE  CalmInv(Destroy(l, {}), lp)
<1> DEFINE m == Destroy(l, {})
<1>1. l \in LocalState
  BY DEF Good
<1>2. /\ m.works = l.works /\ m.armed = l.armed /\ m.hw_roc = l.hw_roc /\ m.stopped = l.stopped
      /\ m.tmp_channel = l.tmp_channel
      /\ m.started = l.started /\ m.hw_begun = l.hw_begun /\ m.notified = l.notified
      /\ m.abort = l.abort /\ m.on_channel = l.on_channel /\ m.over = l.over
      /\ \A r : Contains(m.roc_list, r) <=> Contains(l.roc_list, r)
      /\ \A some : Prefix(l.roc_list, some) => Prefix(m.roc_list, some)
  <2>1. PICK none : none = {}
    OBVIOUS
  <2> DEFINE d == Destroy(l, none)
  <2>2. /\ d.works = l.works /\ d.armed = l.armed /\ d.hw_roc = l.hw_roc /\ d.stopped = l.stopped
        /\ d.tmp_channel = l.tmp_channel
        /\ d.started = l.started \ none /\ d.hw_begun = l.hw_begun \ none
        /\ d.notified = l.notified \ none /\ d.abort = l.abort \ none
        /\ d.on_channel = l.on_channel \ none /\ d.over = l.over \ none
        /\ \A r : Contains(d.roc_list, r) <=> Contains(l.roc_list, r) /\ r \notin none
        /\ \A some : Prefix(l.roc_list, some) => Prefix(d.roc_list, some \ none)
    BY <1>1, DestroyIs, ZenonT(60)
  <2>3. d = m
    BY <2>1
  <2> HIDE DEF m, d
  <2>4. \A S : S \ none = S
    BY <2>1
  <2>5. \A r : r \notin none
    BY <2>1
  <2> QED
    BY <2>2, <2>3, <2>4, <2>5, SMTT(60)
<1>3. Good(m) /\ SameScan(l, m) /\ m \in LocalState
  BY DestroyGood DEF Good
<1> HIDE DEF m
<1>4. l.roc_list # <<>> => m.roc_list # <<>>
  <2>1. l.roc_list \in Seq(Rocs) /\ m.roc_list \in Seq(Rocs)
    BY <1>1, <1>3 DEF LocalState
  <2> QED
    BY <1>2, <2>1, EmptyIs
<1>5. m.scanning = l.scanning /\ m.in_reconfig = l.in_reconfig /\ Radio(l)
  BY <1>3 DEF SameScan, ScanFields, CalmInv
<1>6. driver.roc => HwRocsKept(m)
  BY <1>2, <1>4, <1>5 DEF Radio, HwRocsKept
<1>7. ~driver.roc => SoftRocsKept(m)
  BY <1>2, <1>4, <1>5 DEF Radio, SoftRocsKept, Queued
<1>8. Radio(m)
  BY <1>2, <1>5, <1>6, <1>7 DEF Radio
<1>9. CalmInv(m, lp)
  BY <1>2, <1>3, <1>8, RocCalm
<1> QED
  BY <1>9 DEF m

LEMMA PurgeNoneIs ==
  ASSUME NEW l, Good(l), NEW ifs, Of(l, ifs) = {}, NEW m \in RocPurge(l, ifs)
  PROVE  m = Destroy(l, {})
<1>1. l \in LocalState
  BY DEF Good
<1>2. [l EXCEPT !.hw_roc = l.hw_roc] = l /\ [l EXCEPT !.abort = l.abort \cup {}] = l
  BY <1>1 DEF LocalState
<1>3. Of(l, ifs) \cap l.started = {} /\ Of(l, ifs) \ (Of(l, ifs) \cap l.started) = {}
  OBVIOUS
<1> QED
  BY <1>2, <1>3, Zenon DEF RocPurge

LEMMA QuiesceCalm ==
  ASSUME CalmHere, NEW ifs, Quiesce(ifs)
  PROVE  CalmNext
<1>1. /\ Good(local) /\ Scanned(local) /\ Calm /\ CalmInv(local, FALSE)
      /\ looping' = FALSE /\ Of(local, ifs) = {}
  BY DEF CalmHere, Sound, Quiesce, Becomes, Free, Calm
<1>2. PICK m : (m = local \/ m \in ScanCancel(local)) /\ local' \in RocPurge(m, ifs)
  BY DEF Quiesce, Becomes
<1>3. Good(m) /\ CalmInv(m, FALSE) /\ m.roc_list = local.roc_list
  <2>1. CASE m = local
    BY <1>1, <2>1
  <2>2. CASE m \in ScanCancel(local)
    BY <1>1, <2>2, ScanCancelCalm, ScanCancelGood DEF Handled
  <2> QED
    BY <1>2, <2>1, <2>2
<1>4. Of(m, ifs) = {}
  BY <1>1, <1>3 DEF Of
<1>5. local' = Destroy(m, {})
  BY <1>2, <1>3, <1>4, PurgeNoneIs
<1>6. CalmInv(local', FALSE)
  BY <1>1, <1>3, <1>5, DestroyNoneCalm
<1> QED
  BY <1>1, <1>6 DEF CalmNext

(* roc_work is run if its timer is armed. *)
LEMMA FlushedCalm ==
  ASSUME Calm, NEW l, Good(l), CalmInv(l, FALSE), l.scanning = {},
         NEW n, IF "roc_work" \in l.armed THEN n \in RocWork(CancelWork(l, "roc_work")) ELSE n = l
  PROVE  /\ Good(n) /\ SameScan(l, n) /\ CalmInv(n, FALSE)
         /\ n # l => ~driver.roc
<1>1. Tuned(l) /\ Radio(l) /\ l.scan_chan = NoChan
  BY DEF CalmInv, Tuned
<1>2. CASE "roc_work" \notin l.armed
  BY <1>2, SameScanSelf
<1>3. CASE "roc_work" \in l.armed
  <2> DEFINE c == CancelWork(l, "roc_work")
  <2>1. ~driver.roc /\ l \in LocalState /\ "roc_work" \in Works
    BY <1>3 DEF Good, OwnWorks, Queued, Works
  <2>2. Good(c) /\ SameScan(l, c) /\ c \in LocalState
    BY <2>1, CancelGood DEF Good
  <2>3. /\ OnlyWorks(l, c) /\ "roc_work" \notin c.armed /\ ~Contains(c.works, "roc_work")
    BY <2>1, CancelWorkIs
  <2>4. RocFields(l, c) /\ c.stopped = l.stopped /\ c.tmp_channel = l.tmp_channel
    BY <2>1, <2>3, OnlyWorksIs
  <2>5. n \in RocWork(c)
    BY <1>3
  <2> HIDE DEF c
  <2>6. c.scanning = {} /\ c.scan_chan = NoChan
    BY <1>1, <2>2 DEF SameScan, ScanFields
  <2>7. SoftRocsKept(c)
    BY <1>1, <2>1, <2>3, <2>4 DEF Radio, SoftRocsKept, Queued, RocFields
  <2>8. Radio(c)
    BY <1>1, <2>1, <2>4, <2>6, <2>7 DEF Radio, RocFields
  <2>9. Radio(n)
    BY <2>1, <2>2, <2>3, <2>5, <2>6, <2>8, RocWorkRadio
  <2>10. Good(n) /\ SameScan(c, n)
    BY <2>1, <2>2, <2>5, RocWorkGood
  <2>11. SameScan(l, n)
    BY <2>2, <2>10, SameScanTrans
  <2>12. CalmInv(n, FALSE)
    BY <2>9, <2>11, RocCalm
  <2> QED
    BY <2>1, <2>10, <2>11, <2>12
<1> QED
  BY <1>2, <1>3

LEMMA RestartWorkCalm ==
  ASSUME CalmHere, RestartWork
  PROVE  CalmNext
<1>1. /\ Good(local) /\ Scanned(local) /\ Calm /\ CalmInv(local, FALSE)
      /\ looping' = FALSE /\ local.in_reconfig /\ local.works = <<>>
  BY DEF CalmHere, Sound, RestartWork, Becomes, Free
<1>2. PICK m \in ScanCancel(local) :
        \E l : /\ IF "roc_work" \in m.armed THEN l \in RocWork(CancelWork(m, "roc_work")) ELSE l = m
               /\ local' \in StartNextRoc([l EXCEPT !.in_reconfig = FALSE])
  BY DEF RestartWork, Becomes
<1>3. PICK l : /\ IF "roc_work" \in m.armed THEN l \in RocWork(CancelWork(m, "roc_work"))
                  ELSE l = m
               /\ local' \in StartNextRoc(ReconfigTo(l, FALSE))
  BY <1>2 DEF ReconfigTo
<1>4. \A w : ~Contains(local.works, w)
  BY <1>1 DEF Contains
<1>5. "HW" \notin local.scanning
  BY <1>1, <1>4 DEF Scanned, CalmInv, Timely
<1>6. Good(m) /\ CalmInv(m, FALSE) /\ m.scan_req = NoRequest /\ m.in_reconfig /\ KeepsRocs(local, m)
  BY <1>1, <1>5, ScanCancelCalm, ScanCancelGood DEF Handled
<1>7. Kinds(m) /\ Radio(m) /\ m.scanning = {} /\ ~m.hw_scan
  BY <1>6 DEF CalmInv, Kinds
<1>8. driver.roc => m.hw_roc = "idle" /\ ~Contains(m.works, "hw_roc_done")
  BY <1>4, <1>6, <1>7 DEF Radio, HwRocsKept, KeepsRocs
<1>9. Good(l) /\ SameScan(m, l) /\ CalmInv(l, FALSE) /\ (l # m => ~driver.roc)
  BY <1>1, <1>3, <1>6, <1>7, FlushedCalm
<1>10. l.hw_roc = "idle" /\ ~l.hw_scan /\ l.scanning = {}
       /\ (driver.roc => ~Contains(l.works, "hw_roc_done"))
  BY <1>7, <1>8, <1>9 DEF Good, OwnWorks, SameScan, ScanFields
<1> DEFINE r == ReconfigTo(l, FALSE)
<1>11. CalmInv(r, FALSE)
  BY <1>9, <1>10, ReconfigCalm
<1>12. Good(r) /\ r.works = l.works /\ r.hw_roc = l.hw_roc /\ r.scanning = l.scanning
  BY <1>9, ReconfigToIs
<1>13. local' \in StartNextRoc(r)
  BY <1>3
<1> HIDE DEF r
<1>14. Radio(local')
  BY <1>10, <1>11, <1>12, <1>13, NextRocRadio DEF CalmInv
<1>15. SameScan(r, local')
  BY <1>12, <1>13, StartNextRocGood
<1>16. CalmInv(local', FALSE)
  BY <1>1, <1>10, <1>11, <1>12, <1>14, <1>15, RocCalm
<1> QED
  BY <1>1, <1>16 DEF CalmNext

-----------------------------------------------------------------------------
(* The invariant holds while all is calm, whatever the next action is. *)

LEMMA NextCalm ==
  ASSUME CalmHere, Next
  PROVE  CalmNext
<1>1. CASE Ask
  BY <1>1, RequestScanCalm, RequestRocCalm, CancelCalm, AbortScanCalm, PollCalm, QuiesceCalm,
     RestartHwCalm DEF Ask
<1>2. CASE Answer
  BY <1>2, DriverScanDoneCalm, ReportCalm, BeaconCalm, ElapseCalm, PollCalm DEF Answer
<1>3. CASE Worker
  BY <1>3, RunScanWorkCalm, RunRocCalm, ScanLoopCalm, RestartWorkCalm DEF Worker, RunWork
<1>4. CASE \E w \in Works : TimerFires(w)
  BY <1>4, TimerCalm
<1> QED
  BY <1>1, <1>2, <1>3, <1>4 DEF Next

LEMMA InitInv == Init => IInv
<1> SUFFICES ASSUME Init PROVE IInv
  OBVIOUS
<1>1. Sound /\ looping = FALSE
  BY SoundInit DEF Init
<1>2. /\ local.works = <<>> /\ local.armed = {} /\ local.scan_req = NoRequest
      /\ local.scanning = {} /\ local.roc_list = <<>> /\ local.started = {}
      /\ local.scan_chan = NoChan /\ ~local.rx /\ local.tmp_channel = NoChan /\ ~local.stopped
      /\ local.notified = {} /\ local.hw_begun = {} /\ ~local.in_reconfig /\ ~local.hw_scan
      /\ local.hw_roc = "idle"
  BY DEF Init
<1>3. \A w : ~Contains(local.works, w)
  BY <1>2 DEF Contains
<1>4. Kinds(local) /\ Tuned(local)
  BY <1>2 DEF Kinds, Tuned
<1>5. Timely(local, FALSE)
  BY <1>2, <1>3 DEF Timely, Queued
<1>6. SoftRocsKept(local)
  BY <1>2, <1>3 DEF SoftRocsKept, Queued
<1>7. StartFirstThenDone(local.works) /\ Prefix(local.roc_list, {})
  BY <1>2 DEF StartFirstThenDone, Prefix
<1>8. HwRocsKept(local)
  BY <1>2, <1>3, <1>7 DEF HwRocsKept
<1>9. Radio(local)
  BY <1>2, <1>6, <1>8 DEF Radio
<1> QED
  BY <1>1, <1>4, <1>5, <1>9 DEF IInv, Sound, CalmInv

LEMMA NextInv == IInv /\ [Next]_vars => IInv'
<1> SUFFICES ASSUME IInv, [Next]_vars PROVE IInv'
  OBVIOUS
<1>1. Sound /\ (Calm => CalmInv(local, looping))
  BY DEF IInv, Sound
<1>2. Sound'
  BY <1>1, SoundNext
<1>3. CASE Next
  <2>1. driver' = driver
    BY <1>1, <1>3, NextSound DEF SoundStep
  <2>2. Calm => CalmInv(local', looping')
    BY <1>1, <1>3, NextCalm DEF CalmHere, CalmNext
  <2>3. (Calm => CalmInv(local, looping))'
    BY <2>1, <2>2 DEF Calm, CalmInv, Kinds, Tuned, Timely, Radio, HwRocsKept, SoftRocsKept, Queued
  <2> QED
    BY <1>2, <2>3 DEF IInv, Sound
<1>4. CASE UNCHANGED vars
  BY <1>4 DEF IInv, vars, Good, LocalState, Listed, OwnWorks, SoftEnd, Scanned, Calm, CalmInv,
     Kinds, Tuned, Timely, Radio, HwRocsKept, SoftRocsKept, Queued
<1> QED
  BY <1>3, <1>4 DEF vars

(* The inductive invariant: Sound, whatever happens, and CalmInv while     *)
(* nothing goes wrong between the driver, the receive path and userspace.  *)
THEOREM AlwaysKept == Spec => []IInv
  BY InitInv, NextInv, PTL DEF Spec

-----------------------------------------------------------------------------
(* The end that waits in hw_roc_done is that of the ROC which has started. *)

(* While the driver has a ROC, or its end waits, the first of the list has *)
(* started, so that no other is started before that end has been seen to.  *)
Owned(l) ==
  /\ l.hw_roc # "idle" \/ Contains(l.works, "hw_roc_done") =>
       l.roc_list # <<>> /\ First(l) \in l.started
  /\ Contains(l.works, "hw_roc_done") => l.hw_roc = "idle"

LEMMA OwnedSame ==
  ASSUME NEW l, Owned(l), NEW m, m.roc_list = l.roc_list, m.started = l.started,
         m.hw_roc = l.hw_roc, Contains(m.works, "hw_roc_done") => Contains(l.works, "hw_roc_done")
  PROVE  Owned(m)
  BY DEF Owned, First

LEMMA OwnedKept ==
  ASSUME NEW l, Owned(l), NEW m, KeepsRocs(l, m)
  PROVE  Owned(m) /\ m.roc_list = l.roc_list
  BY OwnedSame DEF KeepsRocs, RocFields

LEMMA OwnedIdle ==
  ASSUME NEW l, l.hw_roc = "idle", ~Contains(l.works, "hw_roc_done")
  PROVE  Owned(l)
  BY DEF Owned

(* The first of the list stays the first when others go, or one comes.     *)
LEMMA FirstStays ==
  ASSUME NEW l, Good(l), l.roc_list # <<>>, NEW gone, First(l) \notin gone
  PROVE  Destroy(l, gone).roc_list # <<>> /\ First(Destroy(l, gone)) = First(l)
<1> DEFINE f == First(l)
           m == Destroy(l, gone)
           q == m.roc_list
           s == l.roc_list
<1>1. l \in LocalState /\ NoDup(l.roc_list) /\ s \in Seq(Rocs)
  BY DEF Good, Listed, LocalState
<1>2. f = s[1] /\ Contains(s, f) /\ 1 \in 1 .. Len(s) /\ \A a \in 1 .. Len(s) : a >= 1
  BY <1>1, FirstIs
<1>3. Prefix(s, {f})
  BY <1>1, <1>2 DEF Prefix, NoDup
<1>4. /\ m \in LocalState
      /\ Contains(q, f) <=> Contains(s, f) /\ f \notin gone
      /\ Prefix(s, {f}) => Prefix(q, {f} \ gone)
  BY <1>1, DestroyIs
<1>5. q \in Seq(Rocs)
  BY <1>4 DEF LocalState
<1>6. f \notin gone
  OBVIOUS
<1> HIDE DEF m, f, s
<1>7. {f} \ gone = {f}
  BY <1>6
<1>8. Contains(q, f) /\ Prefix(q, {f})
  BY <1>2, <1>3, <1>4, <1>6, <1>7
<1> DEFINE p == q
<1>9. p \in Seq(Rocs) /\ Contains(p, f) /\ Prefix(p, {f})
  BY <1>5, <1>8
<1> HIDE DEF p
<1>10. PICK n \in 1 .. Len(p) : p[n] = f
  BY <1>9 DEF Contains
<1>11. 1 \in 1 .. Len(p) /\ (n = 1 \/ 1 < n)
  BY <1>9
<1>12. p[1] = f
  BY <1>9, <1>10, <1>11 DEF Prefix
<1>13. p # <<>> /\ Head(p) = f
  BY <1>9, <1>11, <1>12
<1> QED
  BY <1>13 DEF p, First, f, m

LEMMA FirstBefore ==
  ASSUME NEW l \in LocalState, l.roc_list # <<>>, NEW r \in Rocs, NEW q,
         q = Append(l.roc_list, r)
           \/ \E i \in DOMAIN l.roc_list : q = InsertAt(l.roc_list, i + 1, r)
  PROVE  q # <<>> /\ Head(q) = First(l)
<1> DEFINE s == l.roc_list
<1>1. s \in Seq(Rocs) /\ s # <<>> /\ First(l) = s[1]
  BY FirstIs DEF LocalState
<1>2. q = Append(s, r) \/ \E i \in DOMAIN s : q = InsertAt(s, i + 1, r)
  OBVIOUS
<1> HIDE DEF s
<1>3. CASE q = Append(s, r)
  <2>1. Len(q) = Len(s) + 1 /\ Len(s) >= 1 /\ q[1] = s[1] /\ q \in Seq(Rocs)
    BY <1>1, <1>3
  <2> QED
    BY <1>1, <2>1
<1>4. ASSUME NEW i \in DOMAIN s, q = InsertAt(s, i + 1, r)
      PROVE  q # <<>> /\ Head(q) = First(l)
  <2>1. i \in 1 .. Len(s) /\ i \in Nat /\ Len(s) \in Nat /\ (i + 1) - 1 = i
    BY <1>1
  <2> DEFINE front == SubSeq(s, 1, i)
             start == front \o <<r>>
             back  == SubSeq(s, i + 1, Len(s))
  <2>2. q = start \o back
    BY <1>4, <2>1 DEF InsertAt
  <2>3. front \in Seq(Rocs) /\ Len(front) = i /\ front[1] = s[1]
    BY <1>1, <2>1
  <2>4. back \in Seq(Rocs)
    BY <1>1, <2>1
  <2> HIDE DEF front, back
  <2>5. start \in Seq(Rocs) /\ Len(start) = i + 1 /\ start[1] = front[1]
    BY <2>1, <2>3
  <2> HIDE DEF start
  <2>6. q \in Seq(Rocs) /\ Len(q) >= 1 /\ q[1] = start[1]
    BY <2>1, <2>2, <2>4, <2>5
  <2> QED
    BY <1>1, <2>3, <2>5, <2>6
<1> QED
  BY <1>2, <1>3, <1>4

LEMMA NextRocOwned ==
  ASSUME driver.roc, NEW l, Good(l), Owned(l), NEW m \in StartNextRoc(l)
  PROVE  Good(m) /\ Owned(m) /\ m.roc_list = l.roc_list
<1>1. l \in LocalState /\ Good(m) /\ m.roc_list = l.roc_list
  BY StartNextRocGood DEF Good
<1>2. m = l \/ m \in RunDeferredScan(l) \/ m \in StartFirst(l)
  BY DEF StartNextRoc
<1>3. CASE m \in RunDeferredScan(l)
  <2>1. /\ RocFields(l, m) /\ m.hw_roc = l.hw_roc
        /\ Contains(m.works, "hw_roc_done") <=> Contains(l.works, "hw_roc_done")
    BY <1>3, RunDeferredScanGood
  <2> QED
    BY <1>1, <2>1, OwnedSame DEF RocFields
<1>4. ASSUME Fresh(l)
      PROVE  /\ l.hw_roc = "idle" /\ ~Contains(l.works, "hw_roc_done")
             /\ l.roc_list # <<>> /\ First(l) \in Batch(l)
  BY <1>4, BatchIs DEF Owned, Fresh
<1>5. CASE Fresh(l) /\ m = Accepted(l)
  <2>1. m.roc_list = l.roc_list /\ m.started = l.started \cup Batch(l) /\ m.works = l.works
    BY <1>5, AcceptedIs
  <2> QED
    BY <1>1, <1>4, <1>5, <2>1 DEF Owned, First
<1>6. CASE Fresh(l) /\ m = QueueWork(Refused(l), "hw_roc_done")
  <2> DEFINE x == Refused(l)
  <2>1. /\ Good(x) /\ x.roc_list = l.roc_list /\ x.started = l.started \cup Batch(l)
        /\ x.hw_roc = l.hw_roc
    BY <1>6, RefusedIs
  <2>2. m = QueueWork(x, "hw_roc_done") /\ "hw_roc_done" \in Works
    BY <1>6 DEF Works
  <2> HIDE DEF x
  <2>3. OnlyWorks(x, m)
    BY <2>1, <2>2, QueueWorkIs DEF Good
  <2>4. RocFields(x, m) /\ m.hw_roc = x.hw_roc
    BY <2>1, <2>3, OnlyWorksIs DEF Good
  <2> QED
    BY <1>1, <1>4, <1>6, <2>1, <2>4 DEF Owned, First, RocFields
<1>7. CASE m \in StartFirst(l)
  BY <1>1, <1>5, <1>6, <1>7, StartFirstIs
<1> QED
  BY <1>1, <1>2, <1>3, <1>7

(* A scan ends, is cancelled, or is continued. *)
LEMMA FinishScanOwned ==
  ASSUME driver.roc, NEW l, Good(l), Claimed(l), l.scan_req # NoRequest, Owned(l),
         NEW m \in FinishScan(l)
  PROVE  Good(m) /\ Owned(m) /\ m.roc_list = l.roc_list
<1> DEFINE h == AfterScan(l)
<1>1. Good(h) /\ KeepsRocs(l, h)
  BY EndedIs
<1>2. m = h \/ m \in StartNextRoc(h)
  BY FinishScanIs
<1> HIDE DEF h
<1>3. Owned(h) /\ h.roc_list = l.roc_list
  BY <1>1, OwnedKept
<1> QED
  BY <1>1, <1>2, <1>3, NextRocOwned

LEMMA ScanCompletedOwned ==
  ASSUME driver.roc, NEW l, Good(l), Claimed(l), Owned(l), NEW aborted,
         NEW m \in ScanCompleted(l, aborted)
  PROVE  Good(m) /\ Owned(m) /\ m.roc_list = l.roc_list
<1> DEFINE n == NextBand(l)
<1>1. CASE m = l
  BY <1>1
<1>2. CASE l.scan_req # NoRequest /\ m \in FinishScan(l)
  BY <1>2, FinishScanOwned
<1>3. ASSUME l.scan_req # NoRequest, More(l, aborted)
      PROVE  Good(n) /\ Claimed(n) /\ Owned(n) /\ n.scan_req # NoRequest /\ n.roc_list = l.roc_list
  <2>1. Good(n) /\ KeepsRocs(l, n) /\ ScanFields(l, n)
    BY <1>3, NextBandIs DEF More
  <2> HIDE DEF n
  <2> QED
    BY <1>3, <2>1, OwnedKept DEF ScanFields, Claimed
<1> HIDE DEF n
<1>4. CASE l.scan_req # NoRequest /\ More(l, aborted) /\ m \in FinishScan(n)
  BY <1>3, <1>4, FinishScanOwned
<1>5. CASE l.scan_req # NoRequest /\ More(l, aborted) /\ m \in DriverScans(n)
  <2>1. m = HwScans(n)
    BY <1>5, DriverScansIs
  <2>2. Good(m) /\ KeepsRocs(n, m)
    BY <1>3, <1>5, <2>1, HwScansIs
  <2> QED
    BY <1>3, <1>5, <2>2, OwnedKept
<1> QED
  BY <1>1, <1>2, <1>4, <1>5, ScanCompletedIs DEF n

LEMMA ScanCancelOwned ==
  ASSUME driver.roc, NEW l, Good(l), Scanned(l), Owned(l), NEW m \in ScanCancel(l)
  PROVE  Good(m) /\ Owned(m) /\ m.roc_list = l.roc_list
<1>1. CASE m = l
  BY <1>1
<1>2. CASE m = HwCancels(l)
  <2>1. Good(m) /\ KeepsRocs(l, m)
    BY <1>2, HwCancelsIs
  <2> QED
    BY <2>1, OwnedKept
<1>3. CASE m \in ScanCompleted(CancelWork(l, "scan_work"), TRUE)
          /\ l.scan_req # NoRequest /\ "HW" \notin l.scanning
  <2> DEFINE c == CancelWork(l, "scan_work")
  <2>1. Good(c) /\ KeepsRocs(l, c) /\ ScanFields(l, c)
    BY ScanDropped
  <2>2. m \in ScanCompleted(c, TRUE)
    BY <1>3
  <2> HIDE DEF c
  <2>3. Claimed(c) /\ Owned(c) /\ c.roc_list = l.roc_list
    BY <2>1, ScannedClaims, OwnedKept DEF Claimed, ScanFields
  <2> QED
    BY <2>1, <2>2, <2>3, ScanCompletedOwned
<1> QED
  BY <1>1, <1>2, <1>3, ScanCancelIs

LEMMA ScanWorkOwned ==
  ASSUME driver.roc, NEW l, Good(l), Claimed(l), Owned(l), ~ScanWorkLoops(l), NEW m \in ScanWork(l)
  PROVE  Owned(m)
<1>1. l.scan_req \in Requests \cup {NoRequest}
  BY DEF Good, LocalState
<1>2. CASE m \in ScanCompleted(l, TRUE)
  BY <1>2, ScanCompletedOwned
<1>3. CASE m \in ScanCompleted(ReportRead(l), "ABORTED" \in l.scanning)
  <2> DEFINE d == ReportRead(l)
             aborted == "ABORTED" \in l.scanning
  <2>1. /\ Good(d) /\ KeepsRocs(l, d) /\ d.scan_req = l.scan_req /\ d.asked = l.asked
        /\ d.scanning = l.scanning \ {"COMPLETED", "ABORTED"}
    BY ReportReadIs
  <2>2. m \in ScanCompleted(d, aborted)
    BY <1>3
  <2> HIDE DEF d, aborted
  <2>3. Claimed(d) /\ Owned(d)
    BY <2>1, OwnedKept DEF Claimed
  <2> QED
    BY <2>1, <2>2, <2>3, ScanCompletedOwned
<1> DEFINE none == WithRequest(l, NoRequest)
<1>4. /\ Good(none) /\ KeepsRocs(l, none) /\ none.asked = l.asked /\ none.scanning = l.scanning
  BY WithRequestIs
<1> HIDE DEF none
<1>5. Owned(none)
  BY <1>4, OwnedKept
<1>6. CASE l.scan_req # NoRequest /\ m \in StartScan(none, l.scan_req)
  <2>1. KeepsRocs(none, m)
    BY <1>1, <1>4, <1>6, StartScanIs
  <2> QED
    BY <1>5, <2>1, OwnedKept
<1>7. ASSUME l.scan_req # NoRequest, l.scanning = {},
             NEW f \in StartScanFails(none, l.scan_req),
             m \in ScanCompleted(WithRequest(f, l.scan_req), TRUE)
      PROVE  Owned(m)
  <2> DEFINE g == WithRequest(f, l.scan_req)
  <2>1. Good(f) /\ KeepsRocs(none, f) /\ f.asked = l.asked /\ f.scanning = {}
    BY <1>4, <1>7, StartScanFailsIs
  <2>2. /\ Good(g) /\ KeepsRocs(f, g) /\ g.scan_req = l.scan_req
        /\ g.asked = f.asked /\ g.scanning = f.scanning
    BY <1>1, <2>1, WithRequestIs
  <2>3. m \in ScanCompleted(g, TRUE)
    BY <1>7
  <2> HIDE DEF g
  <2>4. Claimed(g) /\ Owned(g)
    BY <1>5, <2>1, <2>2, OwnedKept DEF Claimed
  <2> QED
    BY <2>2, <2>3, <2>4, ScanCompletedOwned
<1> QED
  BY <1>2, <1>3, <1>6, <1>7, ScanWorkIs DEF none

(* One lemma for each action. *)
OwnedHere == Sound /\ driver.roc /\ "purge" \notin driver.events /\ Owned(local)

LEMMA ScanAskedOwned ==
  ASSUME OwnedHere, \/ \E req \in Requests : RequestScan(req)
                    \/ AbortScan
                    \/ \E i \in Ifaces : StartPoll(i) \/ StopPoll(i)
  PROVE  Owned(local')
<1>1. Good(local) /\ local \in LocalState /\ Scanned(local) /\ Owned(local) /\ driver.roc
  BY DEF OwnedHere, Sound, Good
<1>2. ASSUME NEW req \in Requests, NEW m \in StartScan(local, req), local' = Asking(m, req)
      PROVE  Owned(local')
  <2>1. Good(m) /\ KeepsRocs(local, m)
    BY <1>1, StartScanIs
  <2>2. KeepsRocs(m, local')
    BY <1>2, <2>1, AskingIs
  <2> QED
    BY <1>1, <2>1, <2>2, OwnedKept
<1>3. ASSUME NEW req \in Requests, RequestScan(req) PROVE Owned(local')
  <2>1. \/ \E m \in StartScan(local, req) : local' = Asking(m, req)
        \/ local' \in StartScanFails(local, req)
    BY <1>3 DEF RequestScan, Becomes, Asking
  <2>2. CASE local' \in StartScanFails(local, req)
    <3>1. KeepsRocs(local, local')
      BY <1>1, <2>2, StartScanFailsIs
    <3> QED
      BY <1>1, <3>1, OwnedKept
  <2> QED
    BY <1>2, <2>1, <2>2
<1>4. CASE AbortScan
  BY <1>1, <1>4, ScanCancelOwned DEF AbortScan, Becomes
<1>5. ASSUME NEW i \in Ifaces, StartPoll(i) \/ StopPoll(i) PROVE Owned(local')
  <2>1. \/ local' = PollTo(local, local.poll \cup {i})
        \/ local' \in RunDeferredScan(PollTo(local, local.poll \ {i}))
    BY <1>5 DEF StartPoll, StopPoll, Becomes, PollTo
  <2>2. ASSUME NEW s \in SUBSET Ifaces PROVE Good(PollTo(local, s)) /\ Owned(PollTo(local, s))
    <3> DEFINE p == PollTo(local, s)
    <3>1. Good(p) /\ RocFields(local, p) /\ p.works = local.works /\ p.hw_roc = local.hw_roc
      BY <1>1, PollToIs
    <3> HIDE DEF p
    <3>2. Owned(p)
      BY <1>1, <3>1, OwnedSame DEF RocFields
    <3> QED
      BY <3>1, <3>2 DEF p
  <2>3. local.poll \cup {i} \in SUBSET Ifaces /\ local.poll \ {i} \in SUBSET Ifaces
    BY <1>1 DEF LocalState
  <2>4. CASE local' = PollTo(local, local.poll \cup {i})
    BY <2>2, <2>3, <2>4
  <2>5. CASE local' \in RunDeferredScan(PollTo(local, local.poll \ {i}))
    <3> DEFINE p == PollTo(local, local.poll \ {i})
    <3>1. Good(p) /\ Owned(p) /\ local' \in RunDeferredScan(p)
      BY <2>2, <2>3, <2>5
    <3> HIDE DEF p
    <3>2. /\ RocFields(p, local') /\ local'.hw_roc = p.hw_roc
          /\ Contains(local'.works, "hw_roc_done") <=> Contains(p.works, "hw_roc_done")
      BY <3>1, RunDeferredScanGood
    <3> QED
      BY <3>1, <3>2, OwnedSame DEF RocFields
  <2> QED
    BY <2>1, <2>4, <2>5
<1> QED
  BY <1>3, <1>4, <1>5

LEMMA RequestRocOwned ==
  ASSUME OwnedHere, NEW r \in Rocs, RequestRoc(r)
  PROVE  Owned(local')
<1> DEFINE l == local
<1>1. Good(l) /\ l \in LocalState /\ Owned(l) /\ driver.roc
  BY DEF OwnedHere, Sound, Good
<1>2. ~Contains(l.roc_list, r) /\ local' \in StartRoc(l, r)
  BY DEF RequestRoc, Becomes
<1> DEFINE m == local'
<1>3. CASE /\ l.roc_list = <<>> /\ l.hw_roc = "idle"
           /\ m = [l EXCEPT !.roc_list = <<r>>, !.started = {r}, !.hw_roc = "accepted"]
  <2>1. m.roc_list = <<r>> /\ m.started = {r} /\ m.works = l.works /\ Head(<<r>>) = r
    BY <1>1, <1>3 DEF LocalState
  <2> QED
    BY <1>1, <1>3, <2>1 DEF Owned, First
<1>4. ASSUME m.works = l.works, m.hw_roc = l.hw_roc, l.started \subseteq m.started,
             \/ m.roc_list = Append(l.roc_list, r)
             \/ \E i \in DOMAIN l.roc_list : m.roc_list = InsertAt(l.roc_list, i + 1, r)
      PROVE  Owned(m)
  <2>1. l.roc_list # <<>> => m.roc_list # <<>> /\ First(m) = First(l)
    BY <1>1, <1>4, FirstBefore DEF First
  <2> QED
    BY <1>1, <1>4, <2>1 DEF Owned
<1>5. CASE m = [l EXCEPT !.roc_list = Append(@, r)]
  <2>1. Waits(l, r, m) /\ m.roc_list = Append(l.roc_list, r)
    BY <1>1, <1>2, <1>5, WaitsGood DEF LocalState
  <2> QED
    BY <1>4, <2>1 DEF Waits
<1>6. ASSUME NEW i \in DOMAIN l.roc_list, m = InsertAfter(l, r, i)
      PROVE  Owned(m)
  <2>1. Waits(l, r, m) /\ m.roc_list = InsertAt(l.roc_list, i + 1, r)
    BY <1>1, <1>2, <1>6, WaitsGood DEF LocalState, InsertAfter
  <2> QED
    BY <1>4, <2>1 DEF Waits
<1>7. ASSUME NEW i \in DOMAIN l.roc_list, l.roc_list[i] \in l.started,
             m = Marks(InsertAfter(l, r, i), r, {r}, {})
      PROVE  Owned(m)
  <2>1. Joined(l, r, i, {r}, {}, m)
    BY <1>1, <1>2, <1>7, JoinedIs
  <2>2. m.roc_list = InsertAt(l.roc_list, i + 1, r)
    BY <1>1, <1>7 DEF LocalState, InsertAfter, Marks
  <2> QED
    BY <1>4, <2>1, <2>2 DEF Joined
<1>8. CASE m \in QueueRoc(l, r)
  BY <1>1, <1>5, <1>6, <1>7, <1>8, QueueRocIs, CombineIs
<1> QED
  BY <1>1, <1>2, <1>3, <1>8, StartRocIs

(* The driver reports that a ROC has begun. *)
LEMMA ReportedOwned ==
  ASSUME NEW l, Good(l), Owned(l), NEW m \in Reported(l)
  PROVE  Owned(m)
<1> DEFINE x == [l EXCEPT !.hw_roc = "begun"]
<1>1. l.hw_roc = "accepted" /\ driver.roc /\ m = QueueWork(x, "hw_roc_start")
  BY ReportedIs
<1>2. Good(x) /\ RocFields(l, x) /\ x.works = l.works /\ x.hw_roc = "begun"
  BY <1>1, HwRocGood
<1> HIDE DEF x
<1>3. /\ OnlyWorks(x, m)
      /\ Contains(m.works, "hw_roc_done") <=> Contains(x.works, "hw_roc_done")
  BY <1>1, <1>2, QueueWorkIs DEF Works, Good
<1>4. RocFields(x, m) /\ m.hw_roc = x.hw_roc
  BY <1>2, <1>3, OnlyWorksIs DEF Good
<1> QED
  BY <1>1, <1>2, <1>3, <1>4 DEF Owned, First, RocFields

LEMMA CancelOwned ==
  ASSUME OwnedHere, NEW r \in Rocs, Cancel(r)
  PROVE  Owned(local')
<1>1. PICK l \in {local} \cup LateReport : local' \in CancelRoc(l, r)
  BY DEF Cancel, Becomes
<1>2. Good(l) /\ Owned(l) /\ driver.roc
  BY ReportedIs, ReportedOwned DEF LateReport, OwnedHere, Sound
<1> DEFINE a == [l EXCEPT !.hw_roc = "idle"]
           b == CancelWork(a, "hw_roc_done")
           c == Destroy(b, StartedFront(l))
<1>3. \/ local' = l
      \/ r \notin l.started /\ local' = Destroy(l, {r})
      \/ local' \in StartNextRoc(c)
  BY <1>1, <1>2 DEF CancelRoc
<1>4. CASE r \notin l.started /\ local' = Destroy(l, {r})
  <2> DEFINE m == Destroy(l, {r})
  <2>1. /\ m.works = l.works /\ m.hw_roc = l.hw_roc /\ m.started = l.started \ {r}
    BY <1>2, DestroyIs DEF Good
  <2>2. ASSUME l.roc_list # <<>>, First(l) \in l.started
        PROVE  m.roc_list # <<>> /\ First(m) = First(l)
    BY <1>2, <1>4, <2>2, FirstStays
  <2> HIDE DEF m
  <2>3. Owned(m)
    BY <1>2, <1>4, <2>1, <2>2 DEF Owned
  <2> QED
    BY <1>4, <2>3 DEF m
<1>5. CASE local' \in StartNextRoc(c)
  <2>1. Good(a) /\ a.works = l.works /\ a.hw_roc = "idle"
    BY <1>2, HwRocGood
  <2> HIDE DEF a
  <2>2. /\ Good(b) /\ OnlyWorks(a, b) /\ ~Contains(b.works, "hw_roc_done")
    BY <2>1, CancelGood, CancelWorkIs DEF Works, Good
  <2>3. b.hw_roc = "idle"
    BY <2>1, <2>2, OnlyWorksIs DEF Good
  <2> HIDE DEF b
  <2>4. Good(c) /\ c.works = b.works /\ c.hw_roc = b.hw_roc
    BY <2>2, DestroyGood, DestroyIs DEF Good
  <2> HIDE DEF c
  <2>5. Owned(c)
    BY <2>2, <2>3, <2>4, OwnedIdle
  <2> QED
    BY <1>2, <1>5, <2>4, <2>5, NextRocOwned
<1> QED
  BY <1>2, <1>3, <1>4, <1>5

LEMMA QuiesceOwned ==
  ASSUME OwnedHere, NEW ifs, Quiesce(ifs)
  PROVE  Owned(local')
<1>1. Good(local) /\ Scanned(local) /\ Owned(local) /\ driver.roc /\ Of(local, ifs) = {}
  BY DEF OwnedHere, Sound, Quiesce
<1>2. PICK m : (m = local \/ m \in ScanCancel(local)) /\ local' \in RocPurge(m, ifs)
  BY DEF Quiesce, Becomes
<1>3. Good(m) /\ Owned(m) /\ m.roc_list = local.roc_list
  BY <1>1, <1>2, ScanCancelOwned
<1>4. Of(m, ifs) = {}
  BY <1>1, <1>3 DEF Of
<1>5. PICK none : none = {}
  OBVIOUS
<1> DEFINE d == Destroy(m, none)
<1>6. local' = d
  BY <1>2, <1>3, <1>4, <1>5, PurgeNoneIs
<1>7. d.works = m.works /\ d.hw_roc = m.hw_roc /\ d.started = m.started \ none
  BY <1>3, DestroyIs DEF Good
<1>8. m.roc_list # <<>> => d.roc_list # <<>> /\ First(d) = First(m)
  BY <1>3, <1>5, FirstStays
<1> HIDE DEF d
<1>9. d.started = m.started
  BY <1>5, <1>7
<1> QED
  BY <1>3, <1>6, <1>7, <1>8, <1>9 DEF Owned

LEMMA AnswerOwned ==
  ASSUME OwnedHere,
         \/ \E aborted \in BOOLEAN : DriverScanDone(aborted)
         \/ DriverReady \/ DriverExpired \/ RestartHw \/ RxBeacon \/ RxMark
  PROVE  Owned(local')
<1>1. Good(local) /\ local \in LocalState /\ Owned(local) /\ driver.roc
  BY DEF OwnedHere, Sound, Good
<1>2. ASSUME NEW aborted \in BOOLEAN, DriverScanDone(aborted) PROVE Owned(local')
  <2> DEFINE s == local.scanning \cup {"COMPLETED"} \cup (IF aborted THEN {"ABORTED"} ELSE {})
             x == [local EXCEPT !.hw_scan = FALSE, !.scanning = s]
  <2>1. local' = QueueWork(x, "scan_work")
    BY <1>2 DEF DriverScanDone, Becomes
  <2>2. s \in SUBSET Flags
    BY <1>1 DEF LocalState, Flags
  <2> HIDE DEF s
  <2>3. /\ x \in LocalState /\ RocFields(local, x) /\ x.hw_roc = local.hw_roc
        /\ x.works = local.works
    BY <1>1, <2>2 DEF LocalState, RocFields
  <2> HIDE DEF x
  <2>4. /\ OnlyWorks(x, local')
        /\ Contains(local'.works, "hw_roc_done") <=> Contains(x.works, "hw_roc_done")
    BY <2>1, <2>3, QueueWorkIs DEF Works
  <2>5. RocFields(x, local') /\ local'.hw_roc = x.hw_roc
    BY <2>3, <2>4, OnlyWorksIs
  <2> QED
    BY <1>1, <2>3, <2>4, <2>5, OwnedSame DEF RocFields
<1>3. CASE DriverReady
  BY <1>1, <1>3, ReportedOwned DEF DriverReady, Becomes
<1>4. CASE DriverExpired
  <2> DEFINE x == [local EXCEPT !.hw_roc = "idle"]
  <2>1. local' = QueueWork(x, "hw_roc_done") /\ local.hw_roc # "idle"
    BY <1>4 DEF DriverExpired, Becomes
  <2>2. Good(x) /\ RocFields(local, x) /\ x.hw_roc = "idle"
    BY <1>1, HwRocGood
  <2> HIDE DEF x
  <2>3. OnlyWorks(x, local')
    BY <2>1, <2>2, QueueWorkIs DEF Works, Good
  <2>4. RocFields(x, local') /\ local'.hw_roc = x.hw_roc
    BY <2>2, <2>3, OnlyWorksIs DEF Good
  <2> QED
    BY <1>1, <2>1, <2>2, <2>4 DEF Owned, First, RocFields
<1>5. CASE RestartHw
  <2>1. local' = ReconfigTo(local, TRUE)
    BY <1>5 DEF RestartHw, Becomes, ReconfigTo
  <2>2. RocFields(local, local') /\ local'.works = local.works /\ local'.hw_roc = local.hw_roc
    BY <1>1, <2>1, ReconfigToIs
  <2> QED
    BY <1>1, <2>2, OwnedSame DEF RocFields
<1>6. CASE RxBeacon \/ RxMark
  <2> DEFINE s == local.scanning \ {"BEACON_WAIT"}
  <2>1. local' = Marked(local) \/ local' = Waited(local, s, TRUE)
    BY <1>6 DEF RxBeacon, RxMark, Becomes, Waited
  <2>2. s \in SUBSET Flags
    BY <1>1 DEF LocalState
  <2> HIDE DEF s
  <2>3. CASE local' = Marked(local)
    BY <1>1, <2>3, MarkedIs, OwnedKept
  <2>4. CASE local' = Waited(local, s, TRUE)
    <3>1. KeepsRocs(local, local')
      BY <1>1, <2>2, <2>4, WaitedIs
    <3> QED
      BY <1>1, <3>1, OwnedKept
  <2> QED
    BY <2>1, <2>3, <2>4
<1> QED
  BY <1>2, <1>3, <1>4, <1>5, <1>6

LEMMA TimerOwned ==
  ASSUME OwnedHere, NEW w \in Works, TimerFires(w)
  PROVE  Owned(local')
<1>1. Good(local) /\ Listed(local) /\ Owned(local) /\ w \in local.armed
  BY DEF OwnedHere, Sound, Good, TimerFires
<1>2. w = "scan_work"
  BY <1>1 DEF OwnedHere, Good, OwnWorks, Listed, Queued
<1> DEFINE q == QueueWork(local, "scan_work")
<1>3. local' = OverAlso(q, {})
  BY <1>2 DEF TimerFires, Becomes, OverAlso
<1>4. Good(q) /\ KeepsRocs(local, q)
  BY <1>1, ScanQueued
<1> HIDE DEF q
<1>5. /\ local'.roc_list = q.roc_list /\ local'.started = q.started
      /\ local'.works = q.works /\ local'.hw_roc = q.hw_roc
  BY <1>3, <1>4, OverAlsoIs
<1> QED
  BY <1>1, <1>4, <1>5, OwnedKept, OwnedSame

LEMMA RunScanWorkOwned ==
  ASSUME OwnedHere, RunScanWork
  PROVE  Owned(local')
<1>1. Good(local) /\ Scanned(local) /\ Owned(local) /\ driver.roc
  BY DEF OwnedHere, Sound
<1> DEFINE t == Take(local)
           s == t.scanning \ {"BEACON_WAIT"}
<1>2. /\ local.works # <<>> /\ Head(local.works) = "scan_work"
      /\ \/ ~ScanWorkLoops(local) /\ local' \in ScanWork(t)
         \/ local' = [t EXCEPT !.scanning = @ \ {"BEACON_WAIT"}]
  BY DEF RunScanWork, Runs, Taken, Take
<1>3. Good(t) /\ KeepsRocs(local, t) /\ ScanFields(local, t) /\ t \in LocalState
  BY <1>1, <1>2, ScanTaken DEF Good
<1> HIDE DEF t
<1>4. Owned(t)
  BY <1>1, <1>3, OwnedKept
<1>5. CASE ~ScanWorkLoops(local) /\ local' \in ScanWork(t)
  <2>1. ~ScanWorkLoops(t)
    BY <1>3, <1>5 DEF ScanWorkLoops, ScanFields
  <2>2. Claimed(t)
    BY <1>1, <1>3 DEF Claimed, Scanned, ScanFields
  <2> QED
    BY <1>1, <1>3, <1>4, <1>5, <2>1, <2>2, ScanWorkOwned
<1>6. CASE local' = [t EXCEPT !.scanning = @ \ {"BEACON_WAIT"}]
  <2>1. s \in SUBSET Flags /\ t.rx \in BOOLEAN
    BY <1>3 DEF LocalState
  <2>2. local' = Waited(t, s, t.rx)
    BY <1>3, <1>6 DEF Waited, LocalState
  <2>3. KeepsRocs(t, local')
    BY <1>3, <2>1, <2>2, WaitedIs
  <2> QED
    BY <1>4, <2>3, OwnedKept
<1> QED
  BY <1>2, <1>5, <1>6

LEMMA RunRocOwned ==
  ASSUME OwnedHere, RunRocWork \/ RunHwRocStart \/ RunHwRocDone
  PROVE  Owned(local')
<1>1. Good(local) /\ local \in LocalState /\ Listed(local) /\ Owned(local) /\ driver.roc
  BY DEF OwnedHere, Sound, Good
<1> DEFINE t == Take(local)
<1>2. /\ local.works # <<>>
      /\ \/ Head(local.works) = "roc_work"
         \/ Head(local.works) = "hw_roc_start" /\ local' = HwRocStart(t)
         \/ Head(local.works) = "hw_roc_done" /\ local' \in HwRocDone(t)
  BY DEF RunRocWork, RunHwRocStart, RunHwRocDone, Runs, Taken, Take
<1>3. /\ Contains(local.works, Head(local.works)) /\ OnlyWorks(local, t)
      /\ \A v : Contains(t.works, v) <=> Contains(local.works, v) /\ v # Head(local.works)
  BY <1>1, <1>2, TakenIs DEF Listed
<1>4. RocFields(local, t) /\ t.hw_roc = local.hw_roc
  BY <1>1, <1>3, OnlyWorksIs
<1>5. Good(t)
  BY <1>1, <1>2, TakeGood
<1> HIDE DEF t
<1>6. Owned(t)
  BY <1>1, <1>3, <1>4, OwnedSame DEF RocFields
<1>7. CASE Head(local.works) = "hw_roc_start" /\ local' = HwRocStart(t)
  <2>1. /\ local'.roc_list = t.roc_list /\ local'.started = t.started
        /\ local'.works = t.works /\ local'.hw_roc = t.hw_roc
    BY <1>1, <1>5, <1>7, HwRocStartGood
  <2> QED
    BY <1>6, <2>1, OwnedSame
<1>8. CASE Head(local.works) = "hw_roc_done" /\ local' \in HwRocDone(t)
  <2> DEFINE gone == {r \in StartedFront(t) : driver.roc \/ r \in t.abort \cup t.over}
             x == Destroy(t, gone)
  <2>1. local' \in StartNextRoc(x)
    BY <1>8 DEF HwRocDone, EndFinished
  <2> HIDE DEF gone
  <2>2. Good(x) /\ x.works = t.works /\ x.hw_roc = t.hw_roc
    BY <1>5, DestroyGood, DestroyIs DEF Good
  <2> HIDE DEF x
  <2>3. Owned(x)
    BY <1>1, <1>3, <1>4, <1>8, <2>2, OwnedIdle DEF Owned
  <2> QED
    BY <1>1, <2>1, <2>2, <2>3, NextRocOwned
<1>9. Head(local.works) # "roc_work"
  BY <1>1, <1>3 DEF Good, OwnWorks, Queued
<1> QED
  BY <1>2, <1>7, <1>8, <1>9

LEMMA LoopLeadsOwned ==
  ASSUME NEW l \in LocalState, Owned(l), NEW m, NEW lp, NEW s, NEW n, NEW c, NEW i, NEW b,
         LoopLeads(l, m, lp, s, n, c, i, b)
  PROVE  Owned(m)
<1> DEFINE x == LoopTo(l, s, n, c, i, b)
<1>1. m = x \/ m = [x EXCEPT !.armed = @ \cup {"scan_work"}]
  BY DEF LoopLeads, QueueLater
<1>2. /\ m.roc_list = l.roc_list /\ m.started = l.started /\ m.works = l.works
      /\ m.hw_roc = l.hw_roc
  BY <1>1 DEF LoopTo, LocalState
<1> QED
  BY <1>2, OwnedSame

LEMMA ScanLoopOwned ==
  ASSUME OwnedHere, ScanLoop
  PROVE  Owned(local')
<1>1. /\ Good(local) /\ local \in LocalState /\ Scanned(local) /\ Owned(local) /\ driver.roc
      /\ looping /\ local.scan_req # NoRequest
  BY DEF OwnedHere, Sound, Good, ScanLoop
<1>2. \/ \E lp, s, n, c, i, b : LoopLeads(local, local', lp, s, n, c, i, b)
      \/ \E aborted \in BOOLEAN :
           local' \in ScanCompleted(LoopTo(local, Left(local), LoopState, local.scan_chan,
                                           local.idx, local.stopped), aborted)
  <2>1. ASSUME NEW n, local' = LoopTo(local, Left(local), n, local.scan_chan, local.idx, local.stopped)
        PROVE  \E lp, s, nn, c, i, b : LoopLeads(local, local', lp, s, nn, c, i, b)
    <3>1. LoopLeads(local, local', TRUE, Left(local), n, local.scan_chan, local.idx, local.stopped)
      BY <2>1 DEF LoopLeads
    <3> QED
      BY <3>1
  <2> QED
    BY <1>1, <2>1, ScanLoopIs
<1>3. ASSUME NEW aborted \in BOOLEAN,
             local' \in ScanCompleted(LoopTo(local, Left(local), LoopState, local.scan_chan,
                                             local.idx, local.stopped), aborted)
      PROVE  Owned(local')
  <2> DEFINE x == LoopTo(local, Left(local), LoopState, local.scan_chan, local.idx, local.stopped)
  <2>1. /\ Left(local) \in SUBSET Flags /\ LoopState \in ScanStates
        /\ local.scan_chan \in Chans \cup {NoChan} /\ local.idx \in Nat /\ local.stopped \in BOOLEAN
    BY <1>1 DEF LocalState, Left, LoopState, ScanStates
  <2>2. /\ Good(x) /\ KeepsRocs(local, x)
        /\ x.scan_req = local.scan_req /\ x.asked = local.asked /\ x.scanning = Left(local)
    BY <1>1, <2>1, LoopToIs
  <2>3. local' \in ScanCompleted(x, aborted)
    BY <1>3
  <2> HIDE DEF x
  <2>4. Claimed(x) /\ Owned(x)
    BY <1>1, <2>2, OwnedKept DEF Scanned, Claimed, Left
  <2> QED
    BY <1>1, <2>2, <2>3, <2>4, ScanCompletedOwned
<1> QED
  BY <1>1, <1>2, <1>3, LoopLeadsOwned

LEMMA RestartWorkOwned ==
  ASSUME OwnedHere, RestartWork
  PROVE  Owned(local')
<1>1. Good(local) /\ Scanned(local) /\ Owned(local) /\ driver.roc
  BY DEF OwnedHere, Sound
<1>2. PICK m \in ScanCancel(local) :
        \E l : /\ IF "roc_work" \in m.armed THEN l \in RocWork(CancelWork(m, "roc_work")) ELSE l = m
               /\ local' \in StartNextRoc(ReconfigTo(l, FALSE))
  BY DEF RestartWork, Becomes, ReconfigTo
<1>3. Good(m) /\ Owned(m)
  BY <1>1, ScanCancelOwned
<1>4. local' \in StartNextRoc(ReconfigTo(m, FALSE))
  BY <1>1, <1>2, <1>3 DEF Good, OwnWorks, Queued
<1> DEFINE r == ReconfigTo(m, FALSE)
<1>5. Good(r) /\ RocFields(m, r) /\ r.works = m.works /\ r.hw_roc = m.hw_roc
  BY <1>3, ReconfigToIs
<1>6. local' \in StartNextRoc(r)
  BY <1>4
<1> HIDE DEF r
<1>7. Owned(r)
  BY <1>3, <1>5, OwnedSame DEF RocFields
<1> QED
  BY <1>1, <1>5, <1>6, <1>7, NextRocOwned

(* The driver's kind does not change: what a driver with ROCs of its own   *)
(* keeps is an invariant of all behaviours.                                *)
OwnedInv == driver.roc /\ "purge" \notin driver.events => Owned(local)

LEMMA OwnedNext ==
  ASSUME Sound, OwnedInv, [Next]_vars
  PROVE  OwnedInv'
<1>1. driver' = driver
  BY NextSound DEF SoundStep, vars
<1>2. SUFFICES ASSUME driver.roc, "purge" \notin driver.events PROVE Owned(local')
  BY <1>1 DEF OwnedInv, Owned, First
<1>3. OwnedHere
  BY <1>2 DEF OwnedHere, OwnedInv
<1>4. CASE Ask
  <2>1. \/ \E req \in Requests : RequestScan(req)
        \/ \E r \in Rocs : RequestRoc(r)
        \/ \E r \in Rocs : Cancel(r)
        \/ AbortScan
        \/ \E i \in Ifaces : StartPoll(i)
        \/ \E ifs : Quiesce(ifs)
        \/ RestartHw
    BY <1>4 DEF Ask
  <2> QED
    BY <1>3, <2>1, ScanAskedOwned, RequestRocOwned, CancelOwned, QuiesceOwned, AnswerOwned
<1>5. CASE Answer
  BY <1>2, <1>3, <1>5, AnswerOwned, ScanAskedOwned DEF Answer, Elapse
<1>6. CASE Worker
  BY <1>3, <1>6, RunScanWorkOwned, RunRocOwned, ScanLoopOwned, RestartWorkOwned
     DEF Worker, RunWork
<1>7. CASE \E w \in Works : TimerFires(w)
  BY <1>3, <1>7, TimerOwned
<1>8. CASE UNCHANGED vars
  BY <1>3, <1>8 DEF OwnedHere, vars
<1> QED
  BY <1>4, <1>5, <1>6, <1>7, <1>8 DEF Next

-----------------------------------------------------------------------------
(* What follows of it. *)

(* Every field of struct ieee80211_local keeps its type: no index, band or *)
(* list entry is out of range whatever the drivers and userspace do.       *)
THEOREM TypeCorrect == Spec => []TypeOK
<1>1. Sound => TypeOK
  BY DEF Sound, Good, TypeOK
<1> QED
  BY <1>1, AlwaysSound, PTL

(* A scan keeps its request, its flags and the answer it owes together     *)
(* through every deferral, failure, cancellation, restart and purge, and   *)
(* while all is calm it reads the list of channels within its bounds: the  *)
(* index and the state of the loop, which outlive the scan they belong to, *)
(* are back at the start before another scan uses them.                    *)
THEOREM ScanStaysWhole == Spec => []ScanKept
<1>1. IInv => ScanOwned /\ HwScanEnds
  BY DEF IInv, Scanned, ScanOwned, HwScanEnds
<1>2. IInv => ScanInRange
  BY DEF IInv, CalmInv, Timely, Tuned, ScanInRange
<1> QED
  BY <1>1, <1>2, AlwaysKept, PTL DEF ScanKept

(* ieee80211_scan_cancel() sets SCAN_HW_CANCELLED, and from then on the    *)
(* driver is not told to scan the next band.                               *)
THEOREM CancelledEnds == Spec => CancelledScanEnds
<1>1. Sound /\ [Next]_vars =>
        [("HW_CANCELLED" \in local.scanning /\ ~local.hw_scan) => ~local'.hw_scan]_vars
  <2> SUFFICES ASSUME Sound, Next
               PROVE  ("HW_CANCELLED" \in local.scanning /\ ~local.hw_scan) => ~local'.hw_scan
    OBVIOUS
  <2> QED
    BY NextSound DEF SoundStep, Handled
<1> QED
  BY <1>1, AlwaysSound, PTL DEF Spec, CancelledScanEnds

(* The ROCs that software has started stay at the front of the list, where *)
(* recalc_sw_work() and cancel_roc() look for them, and roc_work will come *)
(* back to end them.                                                       *)
THEOREM SoftRocsAreEnded == Spec => []SoftRocsEnd
<1>1. Sound => SoftRocsEnd
  <2> SUFFICES ASSUME Sound PROVE SoftRocsEnd
    OBVIOUS
  <2>1. ~driver.roc => StartedFront(local) = local.started
    BY FrontStarted DEF Sound
  <2> QED
    BY <2>1 DEF Sound, SoftEnd, Queued, Pending, SoftRocsEnd
<1> QED
  BY <1>1, AlwaysSound, PTL

-----------------------------------------------------------------------------
(* What it says of the radio that scans and ROCs share. *)

(* ieee80211_can_scan() and the deferral on both sides share the radio for *)
(* any number of scans, ROCs and interfaces: while all is calm no ROC is   *)
(* started during a scan, queues and interfaces are stopped whenever the   *)
(* radio is away from the operating channel, and it comes home when nobody *)
(* needs it elsewhere.                                                     *)
THEOREM RadioStaysShared == Spec => []RadioIsShared
<1>1. IInv => RadioIsShared
  <2> SUFFICES ASSUME IInv, Calm
               PROVE  RocExcludesScan /\ AwayIsStopped /\ RadioHome
    BY DEF RadioIsShared
  <2>1. Good(local) /\ Kinds(local) /\ Tuned(local) /\ Radio(local)
    BY DEF IInv, CalmInv
  <2>2. local.stopped \in BOOLEAN /\ local.next \in ScanStates /\ local.scanning \subseteq Flags
    BY <2>1 DEF Good, LocalState
  <2>3. RocExcludesScan /\ RadioHome
    BY <2>1 DEF Radio, RocExcludesScan, RadioHome
  <2>4. AwayIsStopped
    <3>1. CASE local.scan_chan # NoChan
      BY <2>1, <3>1 DEF Tuned, AwayIsStopped
    <3>2. CASE local.scan_chan = NoChan /\ local.tmp_channel # NoChan
      BY <2>1, <3>2 DEF Radio, HwRocsKept, SoftRocsKept, AwayIsStopped
    <3>3. CASE local.scan_chan = NoChan /\ local.tmp_channel = NoChan
      BY <3>3 DEF Channel, AwayIsStopped
    <3> QED
      BY <3>1, <3>2, <3>3
  <2> QED
    BY <2>3, <2>4
<1> QED
  BY <1>1, AlwaysKept, PTL

(* cancel_roc() removes what the driver has reported of a ROC before the   *)
(* next one is started, also when the cancellation crosses the report: an  *)
(* end that waits in hw_roc_done never meets a ROC of the driver that it   *)
(* is not the end of, for any number of ROCs and whatever else happens but *)
(* a purge.                                                                *)
THEOREM EndsAreOwn == Spec => []EndIsOwn
<1>1. Init => OwnedInv
  BY OwnedIdle DEF Init, OwnedInv, Contains
<1>2. OwnedInv => EndIsOwn
  BY DEF OwnedInv, Owned, EndIsOwn
<1> QED
  BY <1>1, <1>2, AlwaysSound, OwnedNext, PTL DEF Spec

(* A ROC that has begun will be ended.  Those that software has started    *)
(* stay at the front with roc_work pending, whatever happens; while all is *)
(* calm, what the driver does belongs to a ROC that is started, and when   *)
(* userspace has been told that a ROC began the driver is still on it, or  *)
(* its end waits in hw_roc_done, which is the end of that ROC.             *)
THEOREM RocsAreEnded == Spec => []RocsEnd
<1>1. IInv => HwRocsOwned
  <2> SUFFICES ASSUME IInv, Calm
               PROVE  /\ local.hw_roc # "idle" => local.started # {}
                      /\ driver.roc /\ local.notified # {} =>
                           local.hw_roc = "begun" \/ Contains(local.works, "hw_roc_done")
    BY DEF HwRocsOwned
  <2>1. OwnWorks(local) /\ Radio(local)
    BY DEF IInv, CalmInv, Good
  <2> QED
    BY <2>1 DEF OwnWorks, Radio, HwRocsKept
<1> QED
  BY <1>1, AlwaysKept, SoftRocsAreEnded, EndsAreOwn, PTL DEF RocsEnd
=============================================================================
