-------------------------- MODULE WiphyWork_proofs --------------------------
(***************************************************************************)
(* What TLAPS proves of WiphyWork, for any set of works, any of them       *)
(* delayed, and any number of contexts that queue at the same time.        *)
(*                                                                         *)
(* The inductive invariant adds two things to the invariants of the model: *)
(* that what a flush still owes is on the list, and that a suspend is only *)
(* under way while the wiphy is not suspended.                             *)
(***************************************************************************)
EXTENDS WiphyWork, TLAPS

USE WiphyWorkAssumption DEF vars, timers, Holders, Cancelled, ScheduleMore, ResumeSchedules,
        TimerIdle, FlushReached

(* What a flush still has to run is on the list, and is the work it waits  *)
(* for if it waits for one.                                                *)
FlushInv ==
  holder = "flush" =>
    /\ owed \subseteq Queued
    /\ end # NoWork => owed \subseteq {end} /\ (running = end => owed = {})

SuspendInv == holder = "suspend" => ~suspended

IInv ==
  /\ TypeOK /\ OnListOnce /\ NoLostWakeup /\ CancelHolds /\ FlushRuns
  /\ FlushInv /\ SuspendInv

-----------------------------------------------------------------------------
(* The list. *)

(* A work put on the list. *)
LEMMA Added ==
  ASSUME list \in Seq(Works), OnListOnce, NEW w \in Works, ListAdd(w)
  PROVE  list' \in Seq(Works) /\ OnListOnce' /\ Queued' = Queued \cup {w}
<1>1. CASE w \in Queued
  BY <1>1 DEF ListAdd, OnListOnce, Queued
<1>2. CASE w \notin Queued
  <2>1. list' = Append(list, w)
    BY <1>2 DEF ListAdd
  <2>2. /\ Len(list') = Len(list) + 1 /\ list'[Len(list) + 1] = w
        /\ \A i \in 1 .. Len(list) : list'[i] = list[i]
        /\ DOMAIN list' = 1 .. Len(list) + 1 /\ DOMAIN list = 1 .. Len(list)
        /\ Len(list) \in Nat /\ list' \in Seq(Works)
    BY <2>1
  <2>3. \A i \in 1 .. Len(list) : list[i] # w
    BY <1>2, <2>2 DEF Queued
  <2>4. OnListOnce'
    BY <2>2, <2>3 DEF OnListOnce
  <2>5. Queued' = Queued \cup {w}
    BY <2>2 DEF Queued
  <2> QED
    BY <2>2, <2>4, <2>5
<1> QED
  BY <1>1, <1>2

(* A work taken off the list, wherever it was. *)
LEMMA Deleted ==
  ASSUME list \in Seq(Works), OnListOnce, NEW w \in Works, ListDel(w)
  PROVE  /\ list' \in Seq(Works) /\ OnListOnce' /\ Queued' = Queued \ {w}
         /\ list' # <<>> => list # <<>>
<1>1. CASE w \notin Queued
  BY <1>1 DEF ListDel, OnListOnce, Queued
<1>2. CASE w \in Queued
  <2>1. PICK i \in DOMAIN list :
          /\ list[i] = w
          /\ list' = [j \in 1 .. Len(list) - 1 |-> IF j < i THEN list[j] ELSE list[j + 1]]
    BY <1>2 DEF ListDel
  <2>2. DOMAIN list = 1 .. Len(list) /\ Len(list) \in Nat \ {0} /\ list # <<>>
    BY <2>1
  <2>3. /\ list' \in Seq(Works) /\ Len(list') = Len(list) - 1
        /\ DOMAIN list' = 1 .. Len(list) - 1
        /\ \A j \in 1 .. Len(list) - 1 : list'[j] = IF j < i THEN list[j] ELSE list[j + 1]
    BY <2>1, <2>2
  <2>4. OnListOnce'
    BY <2>1, <2>2, <2>3, SMTT(40) DEF OnListOnce
  <2>5. Queued' \subseteq Queued \ {w}
    <3> SUFFICES ASSUME NEW j \in DOMAIN list'
                 PROVE  list'[j] \in Queued \ {w}
      BY DEF Queued
    <3>1. PICK k \in DOMAIN list : list'[j] = list[k] /\ k # i
      BY <2>1, <2>2, <2>3
    <3> QED
      BY <3>1, <2>1 DEF OnListOnce, Queued
  <2>6. Queued \ {w} \subseteq Queued'
    <3> SUFFICES ASSUME NEW k \in DOMAIN list, list[k] # w
                 PROVE  list[k] \in Queued'
      BY DEF Queued
    <3>1. PICK j \in DOMAIN list' : list'[j] = list[k]
      <4>1. CASE k < i
        BY <4>1, <2>1, <2>2, <2>3
      <4>2. CASE k > i
        <5>1. k - 1 \in DOMAIN list' /\ ~(k - 1 < i) /\ (k - 1) + 1 = k
          BY <4>2, <2>1, <2>2, <2>3
        <5> QED
          BY <5>1, <2>3
      <4> QED
        BY <4>1, <4>2, <2>1, <2>2
    <3> QED
      BY <3>1 DEF Queued
  <2> QED
    BY <2>2, <2>3, <2>4, <2>5, <2>6
<1> QED
  BY <1>1, <1>2

(* The first work taken off the list. *)
LEMMA Taken ==
  ASSUME list \in Seq(Works), OnListOnce, list # <<>>, list' = Tail(list)
  PROVE  /\ Head(list) \in Works /\ list' \in Seq(Works) /\ OnListOnce'
         /\ Queued' = Queued \ {Head(list)}
         /\ list' # <<>> => Len(list) > 1
<1>1. /\ Len(list) \in Nat \ {0} /\ DOMAIN list = 1 .. Len(list) /\ Head(list) = list[1]
      /\ list' \in Seq(Works) /\ Len(list') = Len(list) - 1
      /\ DOMAIN list' = 1 .. Len(list) - 1
      /\ \A j \in 1 .. Len(list) - 1 : list'[j] = list[j + 1]
      /\ Head(list) \in Works /\ list' # <<>> => Len(list) > 1
  OBVIOUS
<1>2. OnListOnce'
  BY <1>1 DEF OnListOnce
<1>3. Queued' \subseteq Queued \ {Head(list)}
  <2> SUFFICES ASSUME NEW j \in 1 .. Len(list) - 1
               PROVE  list[j + 1] \in Queued \ {Head(list)}
    BY <1>1 DEF Queued
  <2>1. j + 1 \in DOMAIN list /\ 1 \in DOMAIN list /\ j + 1 # 1
    BY <1>1
  <2> QED
    BY <2>1, <1>1 DEF Queued, OnListOnce
<1>4. Queued \ {Head(list)} \subseteq Queued'
  <2> SUFFICES ASSUME NEW k \in DOMAIN list, list[k] # Head(list)
               PROVE  list[k] \in Queued'
    BY DEF Queued
  <2>1. k - 1 \in DOMAIN list' /\ (k - 1) + 1 = k
    BY <1>1
  <2>2. list'[k - 1] = list[k]
    BY <2>1, <1>1
  <2> QED
    BY <2>1, <2>2 DEF Queued
<1> QED
  BY <1>1, <1>2, <1>3, <1>4
-----------------------------------------------------------------------------
(* The inductive invariant. *)

(* It holds of a wiphy with nothing queued. *)
LEMMA InitIInv == Init => IInv
<1> SUFFICES ASSUME Init PROVE IInv
  OBVIOUS
<1>1. list \in Seq(Works) /\ DOMAIN list = {} /\ Queued = {}
  BY DEF Init, Queued
<1>2. scheduled \in BOOLEAN /\ suspended \in BOOLEAN
  BY Zenon DEF Init
<1>3. TypeOK
  BY <1>1, <1>2 DEF Init, TypeOK
<1> QED
  BY <1>1, <1>3 DEF Init, IInv, OnListOnce, NoLostWakeup, CancelHolds, FlushRuns, FlushInv,
     SuspendInv

(* What queues a work. *)
LEMMA QueueStep == ASSUME IInv, Queue \/ Timer PROVE IInv'
<1> USE DEF IInv
<1>1. ASSUME NEW w \in Works, w \notin Delayed, WorkQueue(w) PROVE IInv'
  <2>1. list' \in Seq(Works) /\ OnListOnce' /\ Queued' = Queued \cup {w}
    BY <1>1, Added DEF WorkQueue, TypeOK
  <2> QED
    BY <1>1, <2>1 DEF WorkQueue, TypeOK, NoLostWakeup, CancelHolds, FlushRuns, FlushInv, SuspendInv
<1>2. ASSUME NEW w \in Delayed, DelayedWorkQueue(w) PROVE IInv'
  <2>1. OnListOnce' /\ Queued' = Queued
    BY <1>2 DEF DelayedWorkQueue, OnListOnce, Queued
  <2> QED
    BY <1>2, <2>1 DEF DelayedWorkQueue, TypeOK, NoLostWakeup, CancelHolds, FlushRuns, FlushInv,
       SuspendInv
<1>3. ASSUME NEW w \in Delayed, DelayedWorkQueueNow(w) PROVE IInv'
  <2>1. list' \in Seq(Works) /\ OnListOnce' /\ Queued' = Queued \cup {w}
    BY <1>3, Added DEF DelayedWorkQueueNow, TypeOK
  <2> QED
    BY <1>3, <2>1 DEF DelayedWorkQueueNow, TypeOK, NoLostWakeup, CancelHolds, FlushRuns, FlushInv,
       SuspendInv
<1>4. ASSUME NEW w \in Delayed, TimerExpires(w) PROVE IInv'
  <2>1. OnListOnce' /\ Queued' = Queued
    BY <1>4 DEF TimerExpires, OnListOnce, Queued
  <2> QED
    BY <1>4, <2>1 DEF TimerExpires, TypeOK, NoLostWakeup, CancelHolds, FlushRuns, FlushInv, SuspendInv
<1>5. ASSUME NEW w \in Delayed, DelayedWorkTimer(w) PROVE IInv'
  <2>1. list' \in Seq(Works) /\ OnListOnce' /\ Queued' = Queued \cup {w}
    BY <1>5, Added DEF DelayedWorkTimer, TypeOK
  <2> QED
    BY <1>5, <2>1 DEF DelayedWorkTimer, TypeOK, NoLostWakeup, CancelHolds, FlushRuns, FlushInv,
       SuspendInv
<1> QED
  BY <1>1, <1>2, <1>3, <1>4, <1>5 DEF Queue, Timer

(* What cancels a work. *)
LEMMA CancelStep ==
  ASSUME IInv, NEW w \in Works, WorkCancel(w) \/ (w \in Delayed /\ DelayedWorkCancel(w))
  PROVE  IInv'
<1> USE DEF IInv
<1>1. ListDel(w)
  BY DEF WorkCancel, DelayedWorkCancel
<1>2. /\ list' \in Seq(Works) /\ OnListOnce' /\ Queued' = Queued \ {w}
      /\ list' # <<>> => list # <<>>
  BY <1>1, Deleted DEF TypeOK
<1>3. CASE WorkCancel(w)
  BY <1>2, <1>3 DEF WorkCancel, TypeOK, NoLostWakeup, CancelHolds, FlushRuns, FlushInv, SuspendInv
<1>4. CASE w \in Delayed /\ DelayedWorkCancel(w)
  BY <1>2, <1>4 DEF DelayedWorkCancel, TypeOK, NoLostWakeup, CancelHolds, FlushRuns, FlushInv,
     SuspendInv
<1> QED
  BY <1>3, <1>4

(* What takes a work off the list to run it. *)
LEMMA TakeStep ==
  ASSUME IInv, list # <<>>, WorkerTakes \/ FlushRun
  PROVE  IInv'
<1> USE DEF IInv
<1>1. CASE WorkerTakes /\ list' = list
  <2>1. OnListOnce' /\ Queued' = Queued
    BY <1>1 DEF OnListOnce, Queued
  <2>2. suspended \/ list' # list
    BY <1>1, Taken DEF WorkerTakes, TypeOK
  <2> QED
    BY <1>1, <2>1, <2>2 DEF WorkerTakes, TypeOK, NoLostWakeup, CancelHolds, FlushRuns, FlushInv,
       SuspendInv
<1>2. CASE list' = Tail(list)
  <2>1. /\ Head(list) \in Works /\ list' \in Seq(Works) /\ OnListOnce'
        /\ Queued' = Queued \ {Head(list)}
        /\ list' # <<>> => Len(list) > 1
    BY <1>2, Taken DEF TypeOK
  <2>2. CASE WorkerTakes
    <3>1. list' # list
      BY <1>2, <2>1 DEF TypeOK
    <3>2. scheduled' \in BOOLEAN /\ (Len(list) > 1 => scheduled')
      BY Zenon, <2>2, <3>1 DEF WorkerTakes, TypeOK
    <3>3. TypeOK'
      BY <2>1, <2>2, <3>1, <3>2 DEF WorkerTakes, TypeOK
    <3>4. NoLostWakeup'
      BY <2>1, <3>2 DEF NoLostWakeup
    <3> QED
      BY <2>1, <2>2, <3>1, <3>3, <3>4 DEF WorkerTakes, CancelHolds, FlushRuns, FlushInv, SuspendInv
  <2>3. CASE FlushRun
    BY <2>1, <2>3 DEF FlushRun, TypeOK, NoLostWakeup, CancelHolds, FlushRuns, FlushInv,
       SuspendInv
  <2> QED
    BY <2>2, <2>3
<1> QED
  BY <1>1, <1>2 DEF WorkerTakes, FlushRun

(* Everything else leaves the list alone. *)
LEMMA OtherStep ==
  ASSUME IInv, list' = list,
         \/ WorkPost \/ WorkerStart \/ WorkerTakes \/ WorkerDone
         \/ CallerLock \/ CallerUnlock \/ WorkFlush \/ Suspend \/ SuspendDone \/ Resume
         \/ \E w \in Delayed : DelayedWorkFlush(w)
         \/ FlushRan \/ FlushEmpty \/ UNCHANGED vars
  PROVE  IInv'
<1> USE DEF IInv
<1>0. OnListOnce' /\ Queued' = Queued
  BY DEF OnListOnce, Queued
<1>e. list = <<>> => Queued = {}
  BY DEF Queued
<1> USE <1>0 DEF TypeOK, NoLostWakeup, CancelHolds, FlushRuns, FlushInv, SuspendInv
<1>1. CASE WorkPost
  BY <1>1 DEF WorkPost
<1>2. CASE WorkerStart
  <2>1. waiting' \in 1 .. 2
    BY <1>2 DEF WorkerStart
  <2>2. scheduled' \in BOOLEAN
    BY Zenon, <1>2 DEF WorkerStart
  <2> QED
    BY <1>2, <2>1, <2>2 DEF WorkerStart
<1>3. CASE WorkerTakes
  BY <1>3, TakeStep DEF WorkerTakes
<1>4. CASE WorkerDone
  BY <1>4 DEF WorkerDone
<1>5. CASE CallerLock \/ CallerUnlock
  BY <1>5 DEF CallerLock, CallerUnlock
<1>6. CASE WorkFlush
  <2>1. Queued \subseteq Works
    BY DEF Queued
  <2> QED
    BY <1>6, <2>1 DEF WorkFlush
<1>7. CASE Suspend \/ SuspendDone
  BY <1>7 DEF Suspend, SuspendDone
<1>12. CASE Resume
  <2>1. scheduled' /\ ~suspended' /\ scheduled' \in BOOLEAN /\ suspended' \in BOOLEAN
    BY Zenon, <1>12 DEF Resume
  <2> QED
    BY <1>12, <2>1 DEF Resume
<1>8. ASSUME NEW w \in Delayed, DelayedWorkFlush(w) PROVE IInv'
  BY <1>8 DEF DelayedWorkFlush
<1>9. CASE FlushRan
  BY <1>9 DEF FlushRan
<1>10. CASE FlushEmpty
  BY <1>10, <1>e DEF FlushEmpty
<1>11. CASE UNCHANGED vars
  BY <1>11
<1> QED
  BY <1>1, <1>2, <1>3, <1>4, <1>5, <1>6, <1>7, <1>8, <1>9, <1>10, <1>11, <1>12

(* Every step preserves it. *)
LEMMA NextIInv == IInv /\ [Next]_vars => IInv'
<1> SUFFICES ASSUME IInv, [Next]_vars PROVE IInv'
  OBVIOUS
<1>1. CASE Queue \/ Timer
  BY <1>1, QueueStep
<1>2. CASE \/ \E w \in Works : WorkCancel(w)
           \/ \E w \in Delayed : DelayedWorkCancel(w)
  BY <1>2, CancelStep
<1>3. CASE FlushRun
  BY <1>3, TakeStep DEF FlushRun
<1>4. CASE WorkerTakes
  BY <1>4, TakeStep, OtherStep DEF WorkerTakes
<1>5. CASE \/ WorkPost \/ WorkerStart \/ WorkerDone
           \/ CallerLock \/ CallerUnlock \/ WorkFlush \/ Suspend \/ SuspendDone \/ Resume
           \/ \E w \in Delayed : DelayedWorkFlush(w)
           \/ FlushRan \/ FlushEmpty \/ UNCHANGED vars
  <2>1. list' = list
    BY <1>5 DEF WorkPost, WorkerStart, WorkerDone, CallerLock, CallerUnlock, WorkFlush,
       Suspend, SuspendDone, Resume, DelayedWorkFlush, FlushRan, FlushEmpty
  <2> QED
    BY <1>5, <2>1, OtherStep
<1> QED
  BY <1>1, <1>2, <1>3, <1>4, <1>5 DEF Next, Worker, Caller, Flush

(* The invariant holds always. *)
THEOREM Invariant == Spec => []IInv
  BY InitIInv, NextIInv, PTL DEF Spec

(* Every variable keeps its type, and a work's function runs only while    *)
(* the wiphy mutex is held for it.                                         *)
THEOREM TypeCorrect == Spec => []TypeOK
<1>1. IInv => TypeOK
  BY DEF IInv
<1> QED
  BY <1>1, Invariant, PTL

(* wiphy_work_list is never destroyed by a work linked twice. *)
THEOREM ListSound == Spec => []OnListOnce
<1>1. IInv => OnListOnce
  BY DEF IInv
<1> QED
  BY <1>1, Invariant, PTL

(* wiphy_work_queue() and cfg80211_wiphy_work() lose no wakeup. *)
THEOREM WakeupKept == Spec => []NoLostWakeup
<1>1. IInv => NoLostWakeup
  BY DEF IInv
<1> QED
  BY <1>1, Invariant, PTL

(* wiphy_work_cancel() and wiphy_delayed_work_cancel() are final. *)
THEOREM CancelFinal == Spec => []CancelHolds
<1>1. IInv => CancelHolds
  BY DEF IInv
<1> QED
  BY <1>1, Invariant, PTL

(* wiphy_work_flush() does not return early. *)
THEOREM FlushComplete == Spec => []FlushRuns
<1>1. IInv => FlushRuns
  BY DEF IInv
<1> QED
  BY <1>1, Invariant, PTL
=============================================================================
