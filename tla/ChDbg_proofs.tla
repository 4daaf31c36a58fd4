---------------------------- MODULE ChDbg_proofs ----------------------------
(***************************************************************************)
(* What TLAPS proves of ChDbg for any number of writers, lines and calls.  *)
(***************************************************************************)
EXTENDS ChDbg, Induction, FiniteSetTheorems, SequenceTheorems

(* The successor of a slot is a slot: i wraps at MAX_LINES (line 32). *)
LEMMA FollowingInRing == \A k \in Slots : Following(k) \in Slots
  BY ChDbgAssumption DEF Following, Slots

(* Type correctness of every variable; above all, however the unlocked     *)
(* calls of wifi_dbg() race, no one of them ever formats outside dbg_arr.  *)
THEOREM TypeCorrect == Spec => []TypeOK
<1>1. Init => TypeOK
  BY ChDbgAssumption DEF Init, TypeOK, Slots
<1>2. TypeOK /\ [Next]_vars => TypeOK'
  <2> SUFFICES ASSUME TypeOK, [Next]_vars PROVE TypeOK'
    OBVIOUS
  <2> USE DEF TypeOK
  <2>1. CASE UNCHANGED vars
    BY <2>1 DEF vars
  <2>2. ASSUME NEW w \in Writers, BeginLine(w) PROVE TypeOK'
    <3>1. PICK n \in 1 .. MAX_LINE_LEN - 1 :
            msg' = [msg EXCEPT ![w] = [by |-> w, call |-> msg[w].call + 1, len |-> n]]
      BY <2>2 DEF BeginLine
    <3>2. msg[w].call \in 0 .. MaxCalls
      BY ChDbgAssumption DEF Messages, Empty
    <3>3. [by |-> w, call |-> msg[w].call + 1, len |-> n] \in Messages
      BY <2>2, <3>2, ChDbgAssumption DEF BeginLine, Messages
    <3>4. msg' \in [Writers -> Messages \cup {Empty}]
      BY <3>1, <3>3
    <3> QED BY <2>2, <3>4 DEF BeginLine
  <2>3. ASSUME NEW w \in Writers, EndLine(w) PROVE TypeOK'
    <3>1. msg[w] \in Messages \cup {Empty} /\ dbg_arr[slot[w]] \in Messages \cup {Empty, Garbled}
      OBVIOUS
    <3>2. dbg_arr' \in [Slots -> Messages \cup {Empty, Garbled}]
      BY <2>3, <3>1 DEF EndLine
    <3> QED BY <2>3, <3>2 DEF EndLine
  <2>4. ASSUME NEW w \in Writers, LoadIndex(w) PROVE TypeOK'
    BY <2>4 DEF LoadIndex
  <2>5. ASSUME NEW w \in Writers, StoreIndex(w) PROVE TypeOK'
    BY <2>5, FollowingInRing DEF StoreIndex
  <2> QED BY <2>1, <2>2, <2>3, <2>4, <2>5 DEF Next
<1> QED BY <1>1, <1>2, PTL DEF Spec

-----------------------------------------------------------------------------
(* What a read returns. *)

(* The lengths of the lines are those snprintf() leaves. *)
LEMMA LengthType == TypeOK => \A s \in Slots : dbg_arr[s].len \in 0 .. MAX_LINE_LEN - 1
  BY ChDbgAssumption DEF TypeOK, Messages, Empty, Garbled

(* The sum that CharsBefore defines by recursion exists. *)
LEMMA CharsBeforeDef ==
  TypeOK => CharsBefore = [s \in 0 .. MAX_LINES |->
              IF s = 0 THEN 0 ELSE CharsBefore[s - 1] + dbg_arr[s - 1].len + 1]
<1> SUFFICES ASSUME TypeOK
             PROVE  CharsBefore = [s \in 0 .. MAX_LINES |->
                      IF s = 0 THEN 0 ELSE CharsBefore[s - 1] + dbg_arr[s - 1].len + 1]
  OBVIOUS
<1> DEFINE more(n) == IF n \in 1 .. MAX_LINES THEN dbg_arr[n - 1].len + 1 ELSE 0
           F == [n \in Nat |-> [x \in Nat |-> x + more(n)]]
<1>1. MAX_LINES \in Nat /\ 0 \in Nat /\ \A n \in 1 .. MAX_LINES : n - 1 \in Slots
  BY ChDbgAssumption DEF Slots
<1>2. \A n \in Nat : more(n) \in Nat
  BY <1>1, LengthType, ChDbgAssumption
<1>3. F \in [Nat -> [Nat -> Nat]]
  BY <1>2
<1>4. \A n \in Nat : \A x \in Nat : F[n][x] = x + more(n)
  OBVIOUS
<1> HIDE DEF F
<1>5. PICK r : GoesOn(r, Nat, F, 0, MAX_LINES)
  BY <1>1, <1>3, Recursion
<1> HIDE DEF more
<1>6. r \in [0 .. MAX_LINES -> Nat] /\ r[0] = 0
  BY <1>5 DEF GoesOn
<1>7. ASSUME NEW n \in 1 .. MAX_LINES PROVE r[n] = r[n - 1] + dbg_arr[n - 1].len + 1
  <2>1. n \in Nat /\ n - 1 \in 0 .. MAX_LINES /\ n - 1 \in Slots
    BY <1>1
  <2>2. r[n - 1] \in Nat
    BY <1>6, <2>1
  <2>3. dbg_arr[n - 1].len \in 0 .. MAX_LINE_LEN - 1 /\ MAX_LINE_LEN \in Nat
    BY <2>1, LengthType, ChDbgAssumption
  <2>4. dbg_arr[n - 1].len \in Nat
    BY <2>3
  <2>5. r[n] = F[n][r[n - 1]]
    BY <1>5 DEF GoesOn
  <2>6. F[n][r[n - 1]] = r[n - 1] + more(n)
    BY <1>4, <2>1, <2>2, Zenon
  <2>7. more(n) = dbg_arr[n - 1].len + 1
    BY DEF more
  <2> QED
    BY <2>2, <2>4, <2>5, <2>6, <2>7
<1>8. r = [s \in 0 .. MAX_LINES |-> IF s = 0 THEN 0 ELSE r[s - 1] + dbg_arr[s - 1].len + 1]
  <2>1. \A s \in 0 .. MAX_LINES :
           r[s] = IF s = 0 THEN 0 ELSE r[s - 1] + dbg_arr[s - 1].len + 1
    BY <1>1, <1>6, <1>7
  <2>2. r = [s \in 0 .. MAX_LINES |-> r[s]]
    BY <1>6
  <2> QED
    BY <2>1, <2>2
<1> QED
  BY <1>8, Zenon DEF CharsBefore

(* The lines before slot s take at most MAX_LINE_LEN characters each. *)
LEMMA CharsBound ==
  TypeOK => \A s \in 0 .. MAX_LINES : CharsBefore[s] \in Nat /\ CharsBefore[s] <= s * MAX_LINE_LEN
<1> SUFFICES ASSUME TypeOK
             PROVE  \A s \in 0 .. MAX_LINES :
                      CharsBefore[s] \in Nat /\ CharsBefore[s] <= s * MAX_LINE_LEN
  OBVIOUS
<1> DEFINE G == {s \in Nat : CharsBefore[s] \in Nat /\ CharsBefore[s] <= s * MAX_LINE_LEN}
<1>1. MAX_LINES \in Nat /\ MAX_LINE_LEN \in Nat
  BY ChDbgAssumption
<1>2. \A s \in 0 .. MAX_LINES :
         CharsBefore[s] = IF s = 0 THEN 0 ELSE CharsBefore[s - 1] + dbg_arr[s - 1].len + 1
  BY CharsBeforeDef, Zenon
<1>3. 0 \in G
  BY <1>1, <1>2
<1>4. ASSUME NEW s \in 1 .. MAX_LINES, s - 1 \in G PROVE s \in G
  <2>1. /\ CharsBefore[s - 1] \in Nat /\ CharsBefore[s - 1] <= (s - 1) * MAX_LINE_LEN
        /\ dbg_arr[s - 1].len \in 0 .. MAX_LINE_LEN - 1
    BY <1>1, <1>4, LengthType DEF Slots
  <2>2. CharsBefore[s] = CharsBefore[s - 1] + dbg_arr[s - 1].len + 1
    <3>1. s \in 0 .. MAX_LINES /\ s # 0
      BY <1>1
    <3> QED
      BY <1>2, <3>1, Zenon
  <2>3. (s - 1) * MAX_LINE_LEN + MAX_LINE_LEN = s * MAX_LINE_LEN
    BY <1>1
  <2>4. (s - 1) * MAX_LINE_LEN \in Int /\ s * MAX_LINE_LEN \in Int
    BY <1>1
  <2> QED
    BY <1>1, <2>1, <2>2, <2>3, <2>4
<1> HIDE DEF G
<1>5. \A s \in 0 .. MAX_LINES : s \in G
  BY <1>1, <1>3, <1>4, SetInductionUpTo
<1> QED
  BY <1>5 DEF G

(* The buffer of a read has room for the text of every line, whatever the  *)
(* number and size of the lines and however full each of them is (lines    *)
(* 60-70: what is cut off is at most the newline of the last one).         *)
THEOREM ReadsInFull == Spec => []ReadKeepsEveryLine
<1>1. TypeOK => ReadKeepsEveryLine
  <2> SUFFICES ASSUME TypeOK, NEW s \in Slots
               PROVE  CharsBefore[s] + dbg_arr[s].len <= BufChars
    BY DEF ReadKeepsEveryLine
  <2>1. /\ s \in Nat /\ s + 1 <= MAX_LINES
        /\ MAX_LINES \in Nat /\ MAX_LINE_LEN \in Nat
        /\ dbg_arr[s].len \in Nat /\ dbg_arr[s].len <= MAX_LINE_LEN - 1
    BY ChDbgAssumption, LengthType DEF Slots
  <2>2. CharsBefore[s] \in Nat /\ CharsBefore[s] <= s * MAX_LINE_LEN
    BY <2>1, CharsBound
  <2>3. s * MAX_LINE_LEN + MAX_LINE_LEN <= MAX_LINES * MAX_LINE_LEN
    BY <2>1
  <2>4. s * MAX_LINE_LEN \in Int /\ MAX_LINES * MAX_LINE_LEN \in Int
    BY <2>1
  <2> QED
    BY <2>1, <2>2, <2>3, <2>4 DEF BufChars
<1> QED
  BY <1>1, TypeCorrect, PTL

-----------------------------------------------------------------------------
(* The ring as a log. *)

(* Nobody who has not called is inside; and while there is one writer, the  *)
(* slot and the index it goes by are i's, no line is mixed, and the lines   *)
(* that are still empty are the oldest ones.                               *)
Inside(w) == pc[w] \in {"copying", "copied", "loaded"}

EmptyUpTo(e) == \A k \in 1 .. MAX_LINES - 1 : NewestLines[k] = Empty <=> k <= e

Alone ==
  /\ mixed = {}
  /\ \A w \in Writers : Inside(w) => slot[w] = i /\ (pc[w] = "loaded" => tmp[w] = i)
  /\ \E e \in 0 .. MAX_LINES - 1 : EmptyUpTo(e)

LogInv ==
  /\ TypeOK
  /\ \A w \in Writers : msg[w] = Empty => pc[w] = "idle"
  /\ Single => Alone

(* The ring's arithmetic. *)
LEMMA RemainderFact ==
  ASSUME NEW M \in Nat \ {0}, NEW a \in 0 .. M - 1
  PROVE  a % M = a /\ (a + M) % M = a /\ (a + M + M) % M = a
  OBVIOUS

(* Slots before, at and after slot j, and what they are once j goes on.    *)
Around(M, j, k) ==
  /\ (j + M - 1 + 1 + k) % M = (j + k) % M
  /\ (j + k) % M \in 0 .. M - 1 /\ (j + k) % M # j
  /\ (j + 1) % M \in 0 .. M - 1
  /\ (((j + 1) % M) + k) % M = (j + 1 + k) % M
  /\ (j + 1 + (M - 1)) % M = j
  /\ k # M - 1 => (j + 1 + k) % M = (j + (k + 1)) % M

LEMMA AroundFact ==
  ASSUME NEW M \in Nat \ {0, 1}, NEW j \in 0 .. M - 1, NEW k \in 1 .. M - 1
  PROVE  Around(M, j, k)
<1>1. \A a \in 0 .. M - 1 : a % M = a /\ (a + M) % M = a /\ (a + M + M) % M = a
  BY RemainderFact
<1>2. (j + M - 1 + 1 + k) % M = (j + k) % M
  <2>1. CASE j + k < M
    <3>1. j + k \in 0 .. M - 1 /\ j + M - 1 + 1 + k = (j + k) + M
      BY <2>1
    <3> QED
      BY <1>1, <3>1
  <2>2. CASE ~(j + k < M)
    <3>1. /\ j + k - M \in 0 .. M - 1 /\ j + M - 1 + 1 + k = (j + k - M) + M + M
          /\ j + k = (j + k - M) + M
      BY <2>2
    <3> QED
      BY <1>1, <3>1
  <2> QED
    BY <2>1, <2>2
<1>3. (j + k) % M \in 0 .. M - 1 /\ (j + k) % M # j
  <2>1. CASE j + k < M
    <3>1. j + k \in 0 .. M - 1 /\ j + k # j
      BY <2>1
    <3> QED
      BY <1>1, <3>1
  <2>2. CASE ~(j + k < M)
    <3>1. j + k - M \in 0 .. M - 1 /\ j + k = (j + k - M) + M /\ j + k - M # j
      BY <2>2
    <3> QED
      BY <1>1, <3>1
  <2> QED
    BY <2>1, <2>2
<1>4. (j + 1) % M = IF j = M - 1 THEN 0 ELSE j + 1
  <2>1. CASE j = M - 1
    <3>1. 0 \in 0 .. M - 1 /\ j + 1 = 0 + M
      BY <2>1
    <3> QED
      BY <1>1, <2>1, <3>1
  <2>2. CASE j # M - 1
    <3>1. j + 1 \in 0 .. M - 1
      BY <2>2
    <3> QED
      BY <1>1, <2>2, <3>1
  <2> QED
    BY <2>1, <2>2
<1>5. (((j + 1) % M) + k) % M = (j + 1 + k) % M
  <2>1. CASE j = M - 1
    <3>1. k \in 0 .. M - 1 /\ j + 1 + k = k + M /\ (j + 1) % M = 0 /\ 0 + k = k
      BY <1>4, <2>1
    <3> QED
      BY <1>1, <3>1
  <2>2. CASE j # M - 1
    BY <1>4, <2>2
  <2> QED
    BY <2>1, <2>2
<1>6. (j + 1 + (M - 1)) % M = j
  <2>1. j + 1 + (M - 1) = j + M
    OBVIOUS
  <2> QED
    BY <1>1, <2>1
<1>7. j + 1 + k = j + (k + 1)
  OBVIOUS
<1>8. (j + 1) % M \in 0 .. M - 1
  BY <1>4
<1> QED
  BY <1>2, <1>3, <1>5, <1>6, <1>7, <1>8 DEF Around

(* What a full log makes of a new message, with what it was of the lines.   *)
LEMMA ShiftedFact ==
  ASSUME NEW S, NEW N \in Nat \ {0}, NEW n \in [1 .. N -> S], NEW n2 \in [1 .. N -> S],
         NEW m \in S, \A k \in 1 .. N - 1 : n2[k] = n[k + 1], n2[N] = m, NEW e \in 0 .. N
  PROVE  LET s == Append(SubSeq(n, e + 1, N), m)
         IN  SubSeq(n2, (IF e = 0 THEN 0 ELSE e - 1) + 1, N) = IF Len(s) > N THEN Tail(s) ELSE s
<1> DEFINE a == SubSeq(n, e + 1, N)
           s == Append(a, m)
           d == IF e = 0 THEN 1 ELSE e
           b == SubSeq(n2, d, N)
<1>1. n \in Seq(S) /\ Len(n) = N /\ n2 \in Seq(S) /\ Len(n2) = N
  OBVIOUS
<1>2. a \in Seq(S) /\ Len(a) = N - e /\ \A k \in 1 .. N - e : a[k] = n[e + k]
  BY <1>1
<1> HIDE DEF a
<1>3. s \in Seq(S) /\ Len(s) = N - e + 1 /\ s[N - e + 1] = m
      /\ \A k \in 1 .. N - e : s[k] = n[e + k]
  BY <1>2
<1>4. d \in 1 .. N /\ b \in Seq(S) /\ Len(b) = N - d + 1
      /\ \A k \in 1 .. N - d + 1 : b[k] = n2[d + k - 1]
  BY <1>1
<1> HIDE DEF s, b
<1>5. CASE e = 0
  <2>1. Tail(s) \in Seq(S) /\ Len(Tail(s)) = N /\ \A k \in 1 .. N : Tail(s)[k] = s[k + 1]
    BY <1>3, <1>5
  <2>2. \A k \in 1 .. N : b[k] = Tail(s)[k]
    <3> SUFFICES ASSUME NEW k \in 1 .. N PROVE b[k] = Tail(s)[k]
      OBVIOUS
    <3>1. b[k] = n2[k] /\ Tail(s)[k] = s[k + 1]
      BY <1>4, <1>5, <2>1
    <3>2. CASE k = N
      BY <1>3, <1>5, <3>1, <3>2
    <3>3. CASE k # N
      <4>1. n2[k] = n[k + 1] /\ s[k + 1] = n[k + 1]
        BY <1>3, <1>5, <3>3
      <4> QED
        BY <3>1, <4>1
    <3> QED
      BY <3>2, <3>3
  <2>3. b = Tail(s)
    BY <1>4, <1>5, <2>1, <2>2, SeqEqual
  <2> QED
    BY <1>3, <1>5, <2>3 DEF s, b, a
<1>6. CASE e # 0
  <2>1. d = e /\ Len(b) = Len(s)
    BY <1>3, <1>4, <1>6
  <2>2. \A k \in 1 .. N - e + 1 : b[k] = s[k]
    <3> SUFFICES ASSUME NEW k \in 1 .. N - e + 1 PROVE b[k] = s[k]
      OBVIOUS
    <3>1. b[k] = n2[e + k - 1]
      BY <1>4, <1>6
    <3>2. CASE k = N - e + 1
      BY <1>3, <3>1, <3>2
    <3>3. CASE k # N - e + 1
      <4>1. k \in 1 .. N - e /\ e + k - 1 \in 1 .. N - 1 /\ (e + k - 1) + 1 = e + k
        BY <1>6, <3>3
      <4> QED
        BY <1>3, <3>1, <4>1
    <3> QED
      BY <3>2, <3>3
  <2>3. b = s
    BY <1>3, <1>4, <2>1, <2>2, SeqEqual
  <2>4. (e - 1) + 1 = e /\ ~(Len(s) > N)
    BY <1>3, <1>6
  <2> QED
    BY <1>6, <2>1, <2>3, <2>4 DEF s, b, a
<1> QED
  BY <1>5, <1>6

(* The log of a ring whose oldest e lines are empty. *)
LEMMA LogFact ==
  ASSUME NEW e \in 0 .. MAX_LINES - 1, EmptyUpTo(e)
  PROVE  RingLog = SubSeq(NewestLines, e + 1, MAX_LINES - 1)
<1>1. DOMAIN NewestLines = 1 .. MAX_LINES - 1
  BY DEF NewestLines
<1>2. {k \in DOMAIN NewestLines : NewestLines[k] = Empty} = 1 .. e
  BY <1>1, ChDbgAssumption DEF EmptyUpTo
<1>3. Cardinality(1 .. e) = e
  BY FS_Interval, ChDbgAssumption
<1> QED
  BY <1>2, <1>3 DEF RingLog

(* Steps that leave the lines of the log. *)
LEMMA SameLines ==
  ASSUME NewestLines' = NewestLines
  PROVE  RingLog' = RingLog /\ \A e : EmptyUpTo(e)' <=> EmptyUpTo(e)
  BY DEF RingLog, EmptyUpTo

(* While there is one writer, all others have never called. *)
LEMMA OneWriter ==
  ASSUME LogInv, NEW w \in Writers, BeginLine(w) \/ Inside(w), Single',
         \A v \in Writers : msg'[v] = Empty => msg[v] = Empty,
         BeginLine(w) => msg'[w] # Empty, Inside(w) => msg'[w] = msg[w]
  PROVE  Single /\ Alone /\ \A v \in Writers \ {w} : pc[v] = "idle" /\ msg'[v] = Empty
<1>1. PICK o \in Writers : \A v \in Writers \ {o} : msg'[v] = Empty
  BY DEF Single
<1>2. msg'[w] # Empty
  BY DEF LogInv, Inside
<1>3. o = w
  BY <1>1, <1>2
<1>4. Single
  BY <1>1 DEF Single
<1> QED
  BY <1>1, <1>3, <1>4 DEF LogInv

(* The lines of the log are not where a message is written, and with the   *)
(* message the log goes on by one line.                                    *)
LEMMA LinesFact ==
  ASSUME NEW j \in Slots, NEW k \in 1 .. MAX_LINES - 1
  PROVE  /\ (j + MAX_LINES - 1 + 1 + k) % MAX_LINES = (j + k) % MAX_LINES
         /\ (j + k) % MAX_LINES \in Slots \ {j}
         /\ Following(j) \in Slots
         /\ (Following(j) + MAX_LINES - 1 + 1 + k) % MAX_LINES = (j + 1 + k) % MAX_LINES
         /\ (j + 1 + (MAX_LINES - 1)) % MAX_LINES = j
         /\ k # MAX_LINES - 1 => (j + 1 + k) % MAX_LINES = (j + (k + 1)) % MAX_LINES
<1> DEFINE M == MAX_LINES
           f == (j + 1) % M
<1>1. M \in Nat \ {0, 1} /\ j \in 0 .. M - 1 /\ k \in 1 .. M - 1
  BY ChDbgAssumption DEF Slots
<1> HIDE DEF M
<1>2. Around(M, j, k)
  BY <1>1, AroundFact
<1>3. f \in 0 .. M - 1 /\ (f + k) % M = (j + 1 + k) % M
  BY <1>2 DEF Around
<1> HIDE DEF f
<1>4. Around(M, f, k)
  BY <1>1, <1>3, AroundFact
<1>5. (f + M - 1 + 1 + k) % M = (f + k) % M
  BY <1>4 DEF Around
<1> QED
  BY <1>2, <1>3, <1>5 DEF f, M, Following, Slots, Around

(* What a step does to the log. *)
LogStep == RingLog' = RingLog \/ Log!LogMessage

LEMMA BeginLogs ==
  ASSUME LogInv, TypeOK', NEW w \in Writers, BeginLine(w)
  PROVE  LogInv' /\ (Single' => LogStep)
<1>1. /\ pc[w] = "idle" /\ pc' = [pc EXCEPT ![w] = "copying"] /\ slot' = [slot EXCEPT ![w] = i]
      /\ dbg_arr' = [dbg_arr EXCEPT ![i] = Garbled] /\ UNCHANGED <<i, tmp>>
      /\ mixed' = IF Rivals(w, i) = {} THEN mixed \ {i} ELSE mixed \cup {i}
  BY DEF BeginLine
<1>2. TypeOK /\ pc \in [Writers -> {"idle", "copying", "copied", "loaded"}]
      /\ slot \in [Writers -> Slots] /\ dbg_arr \in [Slots -> Messages \cup {Empty, Garbled}]
  BY DEF LogInv, TypeOK
<1>3. PICK n \in 1 .. MAX_LINE_LEN - 1 :
        msg' = [msg EXCEPT ![w] = [by |-> w, call |-> msg[w].call + 1, len |-> n]]
  BY DEF BeginLine
<1>4. msg'[w] # Empty /\ \A v \in Writers \ {w} : msg'[v] = msg[v]
  <2>1. msg \in [Writers -> Messages \cup {Empty}]
    BY <1>2 DEF TypeOK
  <2>2. msg[w].call \in Nat
    BY <2>1, ChDbgAssumption DEF Messages, Empty
  <2>3. msg'[w].call # 0
    BY <1>3, <2>1, <2>2
  <2> QED
    BY <1>3, <2>1, <2>3 DEF Empty
<1>5. \A v \in Writers : msg'[v] = Empty => msg[v] = Empty
  BY <1>4
<1>6. \A v \in Writers : msg'[v] = Empty => pc'[v] = "idle"
  BY <1>1, <1>2, <1>4 DEF LogInv
<1>7. ASSUME Single' PROVE Alone' /\ NewestLines' = NewestLines
  <2>1. Alone /\ \A v \in Writers \ {w} : pc[v] = "idle"
    BY <1>1, <1>4, <1>5, <1>7, OneWriter DEF Inside
  <2>2. \A v \in Writers : pc[v] = "idle" /\ pc'[v] \in {"idle", "copying"}
    BY <1>1, <1>2, <2>1
  <2>3. LastWritten = i + MAX_LINES - 1 /\ LastWritten' = i + MAX_LINES - 1
    BY <1>1, <2>2 DEF LastWritten
  <2>4. \A k \in 1 .. MAX_LINES - 1 : (LastWritten + 1 + k) % MAX_LINES \in Slots \ {i}
    BY <1>2, <2>3, LinesFact DEF TypeOK
  <2>5. NewestLines' = NewestLines
    <3>1. \A k \in 1 .. MAX_LINES - 1 :
             dbg_arr'[(LastWritten' + 1 + k) % MAX_LINES] = dbg_arr[(LastWritten + 1 + k) % MAX_LINES]
      BY <1>1, <1>2, <2>3, <2>4
    <3> QED
      BY <3>1 DEF NewestLines
  <2>6. mixed' = {}
    BY <1>1, <2>1, <2>2 DEF Alone, Rivals
  <2>7. \A v \in Writers : Inside(v)' => slot'[v] = i' /\ (pc'[v] = "loaded" => tmp'[v] = i')
    BY <1>1, <1>2, <2>2 DEF Inside
  <2>8. \E e \in 0 .. MAX_LINES - 1 : EmptyUpTo(e)'
    BY <2>1, <2>5, SameLines DEF Alone
  <2> QED
    BY <2>5, <2>6, <2>7, <2>8 DEF Alone
<1> QED
  BY <1>6, <1>7, SameLines DEF LogInv, LogStep

(* The writer's call in hand, when no other is. *)
LEMMA InsideAlone ==
  ASSUME LogInv, NEW w \in Writers, Inside(w), UNCHANGED msg, Single'
  PROVE  /\ Alone /\ slot[w] = i /\ (pc[w] = "loaded" => tmp[w] = i)
         /\ msg[w] # Empty /\ \A v \in Writers \ {w} : pc[v] = "idle"
<1>1. ~BeginLine(w)
  BY DEF BeginLine, Inside
<1>2. Single /\ Alone /\ \A v \in Writers \ {w} : pc[v] = "idle"
  BY <1>1, OneWriter
<1>3. msg[w] # Empty
  BY DEF LogInv, Inside
<1> QED
  BY <1>2, <1>3 DEF Alone

(* When the line is there the log has one more, and one less if it was     *)
(* full.                                                                   *)
LEMMA EndLogs ==
  ASSUME LogInv, TypeOK', NEW w \in Writers, EndLine(w)
  PROVE  LogInv' /\ (Single' => LogStep)
<1>1. /\ pc[w] = "copying" /\ pc' = [pc EXCEPT ![w] = "copied"]
      /\ UNCHANGED <<i, msg, slot, tmp, mixed>>
  BY DEF EndLine
<1>2. TypeOK /\ pc \in [Writers -> {"idle", "copying", "copied", "loaded"}]
      /\ dbg_arr \in [Slots -> Messages \cup {Empty, Garbled}]
      /\ msg[w] \in Messages \cup {Empty} /\ i \in Slots
  BY DEF LogInv, TypeOK
<1>3. \A v \in Writers : msg'[v] = Empty => pc'[v] = "idle"
  <2>1. msg[w] # Empty
    BY <1>1 DEF LogInv
  <2> QED
    BY <1>1, <1>2, <2>1 DEF LogInv
<1>4. ASSUME Single' PROVE Alone' /\ Log!LogMessage
  <2>1. /\ Alone /\ slot[w] = i /\ msg[w] # Empty
        /\ \A v \in Writers \ {w} : pc[v] = "idle"
    BY <1>1, <1>4, InsideAlone DEF Inside
  <2>2. dbg_arr' = [dbg_arr EXCEPT ![i] = msg[w]] /\ msg[w] \in Messages
    BY <1>2, <2>1 DEF EndLine, Alone
  <2>3. LastWritten = i + MAX_LINES - 1 /\ LastWritten' = i
    BY <1>1, <1>2, <2>1 DEF LastWritten
  <2> DEFINE N == MAX_LINES - 1
             n == NewestLines
             n2 == NewestLines'
             S == Messages \cup {Empty, Garbled}
  <2>4. N \in Nat \ {0} /\ MAX_LINES \in Nat
    BY ChDbgAssumption
  <2>5. /\ n = [k \in 1 .. N |-> dbg_arr[(i + MAX_LINES - 1 + 1 + k) % MAX_LINES]]
        /\ n2 = [k \in 1 .. N |-> dbg_arr'[(i + 1 + k) % MAX_LINES]]
    BY <2>3 DEF NewestLines
  <2>6. \A k \in 1 .. N : n[k] = dbg_arr[(i + k) % MAX_LINES] /\ (i + k) % MAX_LINES \in Slots \ {i}
    BY <1>2, <2>5, LinesFact
  <2>7. \A k \in 1 .. N - 1 : n2[k] = n[k + 1]
    <3> SUFFICES ASSUME NEW k \in 1 .. N - 1 PROVE n2[k] = n[k + 1]
      OBVIOUS
    <3>1. k \in 1 .. MAX_LINES - 1 /\ k # MAX_LINES - 1 /\ k + 1 \in 1 .. N /\ k \in 1 .. N
      BY <2>4
    <3>2. (i + 1 + k) % MAX_LINES = (i + (k + 1)) % MAX_LINES
      BY <1>2, <3>1, LinesFact
    <3>3. n2[k] = dbg_arr'[(i + (k + 1)) % MAX_LINES]
      BY <2>5, <3>1, <3>2
    <3> QED
      BY <1>2, <2>2, <2>6, <3>1, <3>3
  <2>8. n2[N] = msg[w]
    <3>1. N \in 1 .. MAX_LINES - 1 /\ N \in 1 .. N
      BY <2>4
    <3>2. (i + 1 + N) % MAX_LINES = i
      BY <1>2, <3>1, LinesFact
    <3> QED
      BY <1>2, <2>2, <2>5, <3>1, <3>2
  <2>9. n \in [1 .. N -> S] /\ n2 \in [1 .. N -> S] /\ msg[w] \in S
    <3>1. n \in [1 .. N -> S]
      BY <1>2, <2>5, <2>6
    <3>2. \A k \in 1 .. N : n2[k] \in S
      BY <2>2, <2>4, <2>7, <2>8, <3>1
    <3> QED
      BY <2>2, <2>5, <3>1, <3>2
  <2>10. PICK e \in 0 .. N : EmptyUpTo(e)
    BY <2>1 DEF Alone
  <2> DEFINE d == IF e = 0 THEN 0 ELSE e - 1
  <2>11. d \in 0 .. N /\ EmptyUpTo(d)'
    <3>1. \A k \in 1 .. N : n[k] = Empty <=> k <= e
      BY <2>10 DEF EmptyUpTo
    <3> HIDE DEF n, n2, N
    <3>2. ASSUME NEW k \in 1 .. N PROVE n2[k] = Empty <=> k <= d
      <4>1. CASE k = N
        BY <2>1, <2>4, <2>8, <4>1
      <4>2. CASE k # N
        <5>1. k \in 1 .. N - 1 /\ k + 1 \in 1 .. N
          BY <2>4, <4>2
        <5>2. n2[k] = Empty <=> k + 1 <= e
          BY <2>7, <3>1, <5>1
        <5> QED
          BY <2>4, <5>1, <5>2
      <4> QED
        BY <4>1, <4>2
    <3> HIDE DEF d
    <3>3. EmptyUpTo(d)'
      BY <3>2 DEF EmptyUpTo, n2, N
    <3> QED
      BY <2>4, <3>3 DEF d
  <2>12. RingLog = SubSeq(n, e + 1, N)
    BY <2>10, LogFact
  <2>13. RingLog' = SubSeq(n2, d + 1, N)
    <3>1. {k \in 1 .. N : n2[k] = Empty} = 1 .. d
      <4> HIDE DEF d
      <4>1. \A k \in 1 .. N : n2[k] = Empty <=> k <= d
        BY <2>11 DEF EmptyUpTo
      <4> HIDE DEF n2, N
      <4> QED
        BY <2>4, <2>11, <4>1
    <3>2. DOMAIN n2 = 1 .. N
      BY <2>5
    <3>3. Cardinality(1 .. d) = d
      <4>1. d \in Nat
        BY <2>4, <2>11
      <4> HIDE DEF d
      <4> QED
        BY <4>1, FS_Interval
    <3>4. RingLog' = SubSeq(n2, Cardinality({k \in DOMAIN n2 : n2[k] = Empty}) + 1, N)
      BY DEF RingLog
    <3> QED
      BY <3>1, <3>2, <3>3, <3>4
  <2>14. RingLog' = Log!Newest(Append(RingLog, msg[w]))
    <3> HIDE DEF n, n2, N, S
    <3> DEFINE s == Append(SubSeq(n, e + 1, N), msg[w])
    <3>1. SubSeq(n2, d + 1, N) = IF Len(s) > N THEN Tail(s) ELSE s
      BY <2>4, <2>7, <2>8, <2>9, ShiftedFact
    <3>2. RingLog' = IF Len(s) > N THEN Tail(s) ELSE s
      BY <2>13, <3>1
    <3> QED
      BY <2>12, <3>2 DEF Log!Newest, N
  <2>15. Log!LogMessage
    BY <2>2, <2>14 DEF Log!LogMessage
  <2>16. /\ mixed' = {}
         /\ \A v \in Writers : Inside(v)' => slot'[v] = i' /\ (pc'[v] = "loaded" => tmp'[v] = i')
    BY <1>1, <1>2, <2>1 DEF Alone, Inside
  <2> QED
    BY <2>11, <2>15, <2>16 DEF Alone
<1> QED
  BY <1>3, <1>4 DEF LogInv, LogStep

(* The index is loaded and stored: the lines stay where they are. *)
LEMMA LoadLogs ==
  ASSUME LogInv, TypeOK', NEW w \in Writers, LoadIndex(w)
  PROVE  LogInv' /\ (Single' => LogStep)
<1>1. /\ pc[w] = "copied" /\ pc' = [pc EXCEPT ![w] = "loaded"]
      /\ tmp' = [tmp EXCEPT ![w] = i] /\ UNCHANGED <<dbg_arr, i, msg, slot, mixed>>
  BY DEF LoadIndex
<1>2. pc \in [Writers -> {"idle", "copying", "copied", "loaded"}] /\ tmp \in [Writers -> Slots]
  BY DEF LogInv, TypeOK
<1>3. NewestLines' = NewestLines
  <2>1. LastWritten = i /\ LastWritten' = i
    BY <1>1, <1>2 DEF LastWritten
  <2> QED
    BY <1>1, <2>1 DEF NewestLines
<1>4. \A v \in Writers : msg'[v] = Empty => pc'[v] = "idle"
  BY <1>1, <1>2 DEF LogInv
<1>5. ASSUME Single' PROVE Alone'
  <2>1. Alone /\ slot[w] = i /\ \A v \in Writers \ {w} : pc[v] = "idle"
    BY <1>1, <1>5, InsideAlone DEF Inside
  <2>2. /\ mixed' = {}
        /\ \A v \in Writers : Inside(v)' => slot'[v] = i' /\ (pc'[v] = "loaded" => tmp'[v] = i')
    BY <1>1, <1>2, <2>1 DEF Alone, Inside
  <2> QED
    BY <1>3, <2>1, <2>2, SameLines DEF Alone
<1> QED
  BY <1>3, <1>4, <1>5, SameLines DEF LogInv, LogStep

LEMMA StoreLogs ==
  ASSUME LogInv, TypeOK', NEW w \in Writers, StoreIndex(w)
  PROVE  LogInv' /\ (Single' => LogStep)
<1>1. /\ pc[w] = "loaded" /\ pc' = [pc EXCEPT ![w] = "idle"]
      /\ i' = Following(tmp[w]) /\ UNCHANGED <<dbg_arr, msg, slot, tmp, mixed>>
  BY DEF StoreIndex
<1>2. /\ pc \in [Writers -> {"idle", "copying", "copied", "loaded"}]
      /\ i \in Slots
  BY DEF LogInv, TypeOK
<1>3. \A v \in Writers : msg'[v] = Empty => pc'[v] = "idle"
  BY <1>1, <1>2 DEF LogInv
<1>4. ASSUME Single' PROVE Alone' /\ NewestLines' = NewestLines
  <2>1. /\ Alone /\ slot[w] = i /\ tmp[w] = i
        /\ \A v \in Writers \ {w} : pc[v] = "idle"
    BY <1>1, <1>4, InsideAlone DEF Inside
  <2>2. \A v \in Writers : pc'[v] = "idle"
    BY <1>1, <1>2, <2>1
  <2>3. i' = Following(i) /\ LastWritten = i /\ LastWritten' = Following(i) + MAX_LINES - 1
    BY <1>1, <2>1, <2>2 DEF LastWritten
  <2>4. \A k \in 1 .. MAX_LINES - 1 :
           (LastWritten' + 1 + k) % MAX_LINES = (LastWritten + 1 + k) % MAX_LINES
    BY <1>2, <2>3, LinesFact
  <2>5. NewestLines' = NewestLines
    BY <1>1, <2>4 DEF NewestLines
  <2>6. mixed' = {} /\ \A v \in Writers : ~Inside(v)'
    BY <1>1, <2>1, <2>2 DEF Alone, Inside
  <2> QED
    BY <2>1, <2>5, <2>6, SameLines DEF Alone
<1> QED
  BY <1>3, <1>4, SameLines DEF LogInv, LogStep

LEMMA InitLog == Init => LogInv /\ Log!LogInit
<1> SUFFICES ASSUME Init PROVE LogInv /\ Log!LogInit
  OBVIOUS
<1>1. TypeOK
  BY ChDbgAssumption DEF Init, TypeOK, Slots
<1>2. MAX_LINES - 1 \in Nat /\ LastWritten = i + MAX_LINES - 1 /\ i \in Slots
  BY <1>1, ChDbgAssumption DEF Init, TypeOK, LastWritten
<1>3. \A k \in 1 .. MAX_LINES - 1 : NewestLines[k] = Empty
  <2>1. \A k \in 1 .. MAX_LINES - 1 : (LastWritten + 1 + k) % MAX_LINES \in Slots
    BY <1>2, LinesFact
  <2> QED
    BY <2>1 DEF Init, NewestLines
<1>4. EmptyUpTo(MAX_LINES - 1)
  BY <1>2, <1>3 DEF EmptyUpTo
<1>5. Alone
  BY <1>2, <1>4 DEF Alone, Init, Inside
<1>6. RingLog = <<>>
  <2>1. NewestLines \in Seq({Empty}) /\ Len(NewestLines) = MAX_LINES - 1
    BY <1>2, <1>3 DEF NewestLines
  <2>2. RingLog = SubSeq(NewestLines, MAX_LINES - 1 + 1, MAX_LINES - 1)
    BY <1>2, <1>4, LogFact
  <2> QED
    BY <1>2, <2>1, <2>2
<1> QED
  BY <1>1, <1>5, <1>6 DEF LogInv, Init, Log!LogInit

(* As long as one thread logs, the ring is the log of the newest messages:  *)
(* at every point of its calls, and however often i wraps, none of them is  *)
(* lost, doubled or out of order (lines 31-32).                             *)
THEOREM NewestKept == Spec => KeepsNewest
<1>1. Init => LogInv /\ Log!LogInit
  BY InitLog
<1>2. LogInv /\ TypeOK' /\ [Next]_vars => LogInv' /\ (Single' => LogStep)
  <2> SUFFICES ASSUME LogInv, TypeOK', [Next]_vars PROVE LogInv' /\ (Single' => LogStep)
    OBVIOUS
  <2>1. CASE UNCHANGED vars
    <3>1. UNCHANGED <<dbg_arr, i, pc, msg, slot, tmp, mixed>>
      BY <2>1 DEF vars
    <3>2. NewestLines' = NewestLines
      BY <3>1 DEF NewestLines, LastWritten
    <3>3. Alone => Alone'
      BY <3>1, <3>2, SameLines DEF Alone, Inside
    <3>4. Single' <=> Single
      BY <3>1 DEF Single
    <3> QED
      BY <3>1, <3>2, <3>3, <3>4, SameLines DEF LogInv, LogStep
  <2>2. CASE Next
    BY <2>2, BeginLogs, EndLogs, LoadLogs, StoreLogs DEF Next
  <2> QED
    BY <2>1, <2>2
<1>3. Spec => [](LogInv /\ TypeOK)
  BY <1>1, <1>2, TypeCorrect, PTL DEF Spec
<1>4. LogInv /\ TypeOK' /\ [Next]_vars => [Single' => Log!LogMessage]_RingLog
  BY <1>2 DEF LogStep
<1>5. Spec => [][Single' => Log!LogMessage]_RingLog
  BY <1>3, <1>4, TypeCorrect, PTL DEF Spec
<1> QED
  BY <1>1, <1>5, PTL DEF Spec, KeepsNewest
=============================================================================
