---------------------------- MODULE MvmTxq_proofs ----------------------------
(***************************************************************************)
(* What TLAPS proves of MvmTxq, for any number of contexts and any sizes   *)
(* of the ring and its marks: one context transmits at a time, a stopped   *)
(* TID will be told to go on, and no frame is forgotten.                   *)
(***************************************************************************)
EXTENDS MvmTxq, TLAPS

USE CallersAssumption, SizesAssumption
    DEF vars, bits, stream, tfds, over, At, Goto, Threads, Points

-----------------------------------------------------------------------------
(* The inductive invariant *)

(* Which context can be at which point; what is left to do where.          *)
Redirecting ==
  {"drain", "drained", "disable", "unmap", "unmap_wake", "command", "enable",
   "reconfig", "redirected"}
Replaying == {"replay", "retx", "wake_queue"}

Places ==
  /\ \A t \in Callers : pc[t] \in {"idle", "wake", "list", "xmit"} \cup Loop
  /\ pc["worker"] \in {"idle", "inactivity", "streams", "unlist", "clear", "xmit"}
                        \cup Redirecting \cup Loop
  /\ pc["reclaim"] \in {"idle", "clear", "xmit", "finish"} \cup Replaying \cup Loop
  /\ \A t \in Threads : pc[t] \in {"tx", "stop"} => mpdus[t] > 0
  /\ pc["reclaim"] = "retx" => replay > 0

(* The counter is positive exactly while somebody transmits.               *)
Counted == tx_request = 0 <=> \A t \in Threads : pc[t] \notin Loop

(* The worker's redirection: its bit, and when the queue is not used.      *)
Redirection ==
  /\ pc["worker"] \in Redirecting \cup {"clear"} => redirect
  /\ redirect => pc["worker"] \in Redirecting \cup {"clear", "xmit", "test", "dec"}
  /\ redirect /\ pc["worker"] \in
       {"unmap", "unmap_wake", "clear", "xmit", "test", "dec", "command", "enable"}
       => ~queue_used
  /\ pc["worker"] = "enable" => pc["reclaim"] \notin Replaying

(* Once its ring has been emptied, a queue that is not used gets at most   *)
(* the frames of two contexts that had looked before, and need not stop.   *)
Woken == redirect /\ pc["worker"] \in {"clear", "xmit", "test", "dec", "command", "enable"}
Emptied ==
  Woken \/ pc["worker"] = "unmap_wake" =>
    /\ ring <= 2 /\ ~Locked
    /\ pc["reclaim"] = "retx" => ring <= 1
    /\ \A t \in Threads : pc[t] = "tx" =>
         ring <= 1 /\ (pc["reclaim"] = "retx" => ring = 0)

(* A stop is under way only on a queue marked stopped, never beside a      *)
(* replay, and a replay finds the queue stopped.                           *)
Stopping ==
  /\ Locked => queue_stopped
  /\ pc["reclaim"] \in Replaying => ~Locked /\ (queue_stopped \/ Woken)

(* A queue on the list has a worker.                                       *)
ListServed == listed => add_stream_wk \/ pc["worker"] # "idle"

(* What the stop of a queue and its wake leave to one another.  A wake     *)
(* that is under way (the point "clear") belongs to a queue that is not    *)
(* stopped, and no transmitter can stop it before the wake is complete:    *)
(* STOP_FULL keeps new ones out, and one that was in when the queue was    *)
(* stopped has room for what is left of its skb.                           *)
Room(t) ==
  /\ pc[t] # "dequeue"
  /\ pc[t] \in {"mpdu", "tx"} => Space + 1 >= HighMark + mpdus[t]

Waking ==
  /\ StopHolds
  /\ Woken => ~queue_stopped
  /\ pc["worker"] = "enable" => pc["reclaim"] = "idle"
  /\ pc["reclaim"] = "clear" => ~queue_stopped
  /\ queue_stopped => \A t \in Threads :
       pc[t] # "dequeue" /\ (pc[t] \in {"mpdu", "tx"} => mpdus[t] < Segments)
  /\ pc["reclaim"] = "clear" \/ (pc["reclaim"] = "wake_queue" /\ queue_stopped) =>
       Woken \/ (full /\ ~Locked /\ \A t \in Threads : Room(t))

(* Why a queue is stopped.                                                 *)
Caused ==
  /\ Locked => Space < HighMark
  /\ queue_stopped /\ ~Locked =>
       Space <= LowMark \/ pc["reclaim"] \in Replaying \/ pc["worker"] = "unmap_wake"

IInv ==
  /\ TypeOK /\ Places /\ OneTransmitter /\ Counted /\ Redirection
  /\ Emptied /\ Stopping /\ StopIsUndone /\ ListServed /\ NoneForgotten

-----------------------------------------------------------------------------
(* A step keeps the counters in their ranges.                              *)
LEMMA KeepsTypes ==
  ASSUME IInv, [Next]_vars
  PROVE  TypeOK'
<1> USE DEF IInv
<1>1. ASSUME NEW t \in Callers, Enqueue(t) \/ WakeTxQueue(t) \/ AddStream(t)
      PROVE  TypeOK'
  <2>1. CASE Enqueue(t)
    <3>1. waiting' \in 0..MaxWaiting
      BY <2>1 DEF Enqueue, TypeOK
    <3>2. /\ pc' \in [Threads -> Points]
          /\ UNCHANGED <<tx_request, bits, stream, tfds, over, mpdus>>
          /\ parked' = FALSE
      BY <2>1 DEF Enqueue, TypeOK
    <3> QED
      BY <3>1, <3>2 DEF TypeOK
  <2>2. CASE WakeTxQueue(t)
    BY <2>2 DEF WakeTxQueue, TypeOK, Places, Counted, Loop
  <2>3. CASE AddStream(t)
    <3>1. /\ listed' \in BOOLEAN /\ add_stream_wk' \in BOOLEAN
          /\ UNCHANGED <<ready, full, redirect>>
      BY <2>3 DEF AddStream, TypeOK, stream, bits
    <3>2. pc' \in [Threads -> Points]
      BY <2>3 DEF AddStream, TypeOK, Goto, Points
    <3>3. UNCHANGED <<waiting, tx_request, bits, tfds, over, mpdus, parked>>
      BY <2>3 DEF AddStream
    <3> QED
      BY <3>1, <3>2, <3>3 DEF TypeOK, bits, tfds, over
  <2> QED
    BY <1>1, <2>1, <2>2, <2>3
<1>2. ASSUME NEW t \in Threads, Xmit(t)
      PROVE  TypeOK'
  <2>1. CASE TakeRequest(t)
    BY <2>1 DEF TakeRequest, TypeOK, Places, Counted, Loop, Return
  <2>2. CASE TestState(t)
    BY <2>2 DEF TestState, TypeOK, Places, Counted, Loop
  <2>3. CASE Dequeue(t)
    BY <2>3 DEF Dequeue, TypeOK, Places, Counted, Loop
  <2>4. CASE NextMpdu(t)
    BY <2>4 DEF NextMpdu, TypeOK, Places, Counted, Loop
  <2>5. CASE StopQueue(t)
    BY <2>5 DEF StopQueue, TypeOK, Places, Counted, Loop, PutFrame, MustStop,
       Space
  <2>6. CASE PutAfterStop(t)
    BY <2>6 DEF PutAfterStop, TypeOK, Places, Counted, Loop, PutFrame,
       MustStop, Space
  <2>7. CASE Put(t)
    BY <2>7 DEF Put, TypeOK, Places, Counted, Loop, PutFrame, MustStop, Space
  <2>8. CASE DecRequest(t)
    BY <2>8 DEF DecRequest, TypeOK, Places, Counted, Loop, Return
  <2> QED
    BY <1>2, <2>1, <2>2, <2>3, <2>4, <2>5, <2>6, <2>7, <2>8 DEF Xmit
<1>3. CASE Reclaimer /\ ~Xmit("reclaim")
  <2>1. CASE Reclaim
    <3>1. ring' \in 0..Window
      BY <2>1 DEF Reclaim, TypeOK
    <3>2. overflow_q' \in 0..MaxOverflow /\ replay' \in 0..MaxOverflow
      BY <2>1 DEF Reclaim, TypeOK
    <3>3. pc' \in [Threads -> Points]
      BY <2>1 DEF Reclaim, TypeOK
    <3>4. overflow_tx' \in BOOLEAN
      BY <2>1 DEF Reclaim, TypeOK
    <3>5. UNCHANGED <<waiting, tx_request, bits, stream, queue_used, queue_stopped,
                      mpdus, parked>>
      BY <2>1 DEF Reclaim
    <3> QED
      BY <3>1, <3>2, <3>3, <3>4, <3>5 DEF TypeOK
  <2>2. CASE NextReplay
    BY <2>2 DEF NextReplay, TypeOK, Places, Counted, Loop, PutFrame, MustStop,
       Space
  <2>3. CASE ReplayPut
    BY <2>3 DEF ReplayPut, TypeOK, Places, Counted, Loop, PutFrame, MustStop,
       Space
  <2>4. CASE WakeQueue("reclaim", "wake_queue", "finish")
    BY <2>4 DEF WakeQueue, TypeOK, Places, Counted, Loop
  <2>5. CASE ClearFull("reclaim")
    BY <2>5 DEF ClearFull, TypeOK, Places, Counted, Loop
  <2>6. CASE FinishReclaim
    BY <2>6 DEF FinishReclaim, TypeOK, Places, Counted, Loop
  <2> QED
    BY <1>3, <2>1, <2>2, <2>3, <2>4, <2>5, <2>6 DEF Reclaimer
<1>4. CASE Worker /\ ~Xmit("worker")
  <2>1. CASE StartWork
    BY <2>1 DEF StartWork, TypeOK, Places, Counted, Loop
  <2>2. CASE NothingToUnshare
    BY <2>2 DEF NothingToUnshare, TypeOK, Places, Counted, Loop
  <2>3. CASE BeginRedirect
    BY <2>3 DEF BeginRedirect, TypeOK, Places, Counted, Loop
  <2>4. CASE DrainOverflow
    BY <2>4 DEF DrainOverflow, TypeOK, Places, Counted, Loop
  <2>5. CASE DrainRing
    BY <2>5 DEF DrainRing, TypeOK, Places, Counted, Loop
  <2>6. CASE DrainTimeout
    BY <2>6 DEF DrainTimeout, TypeOK, Places, Counted, Loop
  <2>7. CASE DisableQueue
    BY <2>7 DEF DisableQueue, TypeOK, Places, Counted, Loop
  <2>8. CASE Unmap
    BY <2>8 DEF Unmap, TypeOK, Places, Counted, Loop
  <2>9. CASE WakeQueue("worker", "unmap_wake", "command")
    BY <2>9 DEF WakeQueue, TypeOK, Places, Counted, Loop
  <2>10. CASE Command
    BY <2>10 DEF Command, TypeOK, Places, Counted, Loop
  <2>11. CASE ClearFull("worker")
    BY <2>11 DEF ClearFull, TypeOK, Places, Counted, Loop
  <2>12. CASE EnableQueue
    BY <2>12 DEF EnableQueue, TypeOK, Places, Counted, Loop
  <2>13. CASE EndRedirect
    BY <2>13 DEF EndRedirect, TypeOK, Places, Counted, Loop
  <2>14. CASE AllocQueue
    BY <2>14 DEF AllocQueue, TypeOK, Places, Counted, Loop
  <2>15. CASE Unlist
    BY <2>15 DEF Unlist, TypeOK, Places, Counted, Loop
  <2>16. CASE AllocFails
    BY <2>16 DEF AllocFails, TypeOK, Places, Counted, Loop
  <2>17. CASE EndWork
    BY <2>17 DEF EndWork, TypeOK, Places, Counted, Loop
  <2> QED
    BY <1>4, <2>1, <2>2, <2>3, <2>4, <2>5, <2>6, <2>7, <2>8, <2>9, <2>10,
       <2>11, <2>12, <2>13, <2>14, <2>15, <2>16, <2>17
       DEF Worker
<1>5. CASE OtherStreams
  BY <1>5 DEF OtherStreams, TypeOK, Places, Counted, Loop
<1>6. CASE UNCHANGED vars
  BY <1>6 DEF TypeOK, Places, Counted, Loop, Space
<1> QED
  BY <1>1, <1>2, <1>3, <1>4, <1>5, <1>6 DEF Next, Caller

(* A step takes each context to a point of its own code: only the worker   *)
(* redirects, only the reclaim replays, and an MPDU being put is counted.  *)
LEMMA KeepsPlaces ==
  ASSUME IInv, [Next]_vars
  PROVE  Places'
<1> USE DEF IInv
<1>1. ASSUME NEW t \in Callers, Enqueue(t) \/ WakeTxQueue(t) \/ AddStream(t)
      PROVE  Places'
  <2>1. CASE Enqueue(t)
    BY <2>1 DEF Enqueue, TypeOK, Places, Redirection, Loop, Return,
       Redirecting, Replaying
  <2>2. CASE WakeTxQueue(t)
    BY <2>2 DEF WakeTxQueue, TypeOK, Places, Redirection, Loop, Return,
       Redirecting, Replaying
  <2>3. CASE AddStream(t)
    BY <2>3 DEF AddStream, TypeOK, Places, Redirection, Loop, Return,
       Redirecting, Replaying
  <2> QED
    BY <1>1, <2>1, <2>2, <2>3
<1>2. ASSUME NEW t \in Threads, Xmit(t)
      PROVE  Places'
  <2>1. CASE TakeRequest(t)
    BY <2>1 DEF TakeRequest, TypeOK, Places, Redirection, Loop, Return,
       Redirecting, Replaying
  <2>2. CASE TestState(t)
    BY <2>2 DEF TestState, TypeOK, Places, Redirection, Loop, Return,
       Redirecting, Replaying
  <2>3. CASE Dequeue(t)
    BY <2>3 DEF Dequeue, TypeOK, Places, Redirection, Loop, Return,
       Redirecting, Replaying
  <2>4. CASE NextMpdu(t)
    BY <2>4 DEF NextMpdu, TypeOK, Places, Redirection, Loop, Return,
       Redirecting, Replaying
  <2>5. CASE StopQueue(t)
    BY <2>5 DEF StopQueue, TypeOK, Places, Redirection, Loop, Return,
       Redirecting, Replaying, PutFrame, MustStop, Space
  <2>6. CASE PutAfterStop(t)
    BY <2>6 DEF PutAfterStop, TypeOK, Places, Redirection, Loop, Return,
       Redirecting, Replaying, PutFrame, MustStop, Space
  <2>7. CASE Put(t)
    BY <2>7 DEF Put, TypeOK, Places, Redirection, Loop, Return, Redirecting,
       Replaying, PutFrame, MustStop, Space
  <2>8. CASE DecRequest(t)
    BY <2>8 DEF DecRequest, TypeOK, Places, Redirection, Loop, Return,
       Redirecting, Replaying
  <2> QED
    BY <1>2, <2>1, <2>2, <2>3, <2>4, <2>5, <2>6, <2>7, <2>8 DEF Xmit
<1>3. CASE Reclaimer /\ ~Xmit("reclaim")
  <2>1. CASE Reclaim
    BY <2>1 DEF Reclaim, TypeOK, Places, Redirection, Loop, Return,
       Redirecting, Replaying
  <2>2. CASE NextReplay
    BY <2>2 DEF NextReplay, TypeOK, Places, Redirection, Loop, Return,
       Redirecting, Replaying, PutFrame, MustStop, Space
  <2>3. CASE ReplayPut
    BY <2>3 DEF ReplayPut, TypeOK, Places, Redirection, Loop, Return,
       Redirecting, Replaying, PutFrame, MustStop, Space
  <2>4. CASE WakeQueue("reclaim", "wake_queue", "finish")
    BY <2>4 DEF WakeQueue, TypeOK, Places, Redirection, Loop, Return,
       Redirecting, Replaying
  <2>5. CASE ClearFull("reclaim")
    BY <2>5 DEF ClearFull, TypeOK, Places, Redirection, Loop, Return,
       Redirecting, Replaying
  <2>6. CASE FinishReclaim
    BY <2>6 DEF FinishReclaim, TypeOK, Places, Redirection, Loop, Return,
       Redirecting, Replaying
  <2> QED
    BY <1>3, <2>1, <2>2, <2>3, <2>4, <2>5, <2>6 DEF Reclaimer
<1>4. CASE Worker /\ ~Xmit("worker")
  <2>1. CASE StartWork
    BY <2>1 DEF StartWork, TypeOK, Places, Redirection, Loop, Return,
       Redirecting, Replaying
  <2>2. CASE NothingToUnshare
    BY <2>2 DEF NothingToUnshare, TypeOK, Places, Redirection, Loop, Return,
       Redirecting, Replaying
  <2>3. CASE BeginRedirect
    BY <2>3 DEF BeginRedirect, TypeOK, Places, Redirection, Loop, Return,
       Redirecting, Replaying
  <2>4. CASE DrainOverflow
    BY <2>4 DEF DrainOverflow, TypeOK, Places, Redirection, Loop, Return,
       Redirecting, Replaying
  <2>5. CASE DrainRing
    BY <2>5 DEF DrainRing, TypeOK, Places, Redirection, Loop, Return,
       Redirecting, Replaying
  <2>6. CASE DrainTimeout
    BY <2>6 DEF DrainTimeout, TypeOK, Places, Redirection, Loop, Return,
       Redirecting, Replaying
  <2>7. CASE DisableQueue
    BY <2>7 DEF DisableQueue, TypeOK, Places, Redirection, Loop, Return,
       Redirecting, Replaying
  <2>8. CASE Unmap
    BY <2>8 DEF Unmap, TypeOK, Places, Redirection, Loop, Return, Redirecting,
       Replaying
  <2>9. CASE WakeQueue("worker", "unmap_wake", "command")
    BY <2>9 DEF WakeQueue, TypeOK, Places, Redirection, Loop, Return,
       Redirecting, Replaying
  <2>10. CASE Command
    BY <2>10 DEF Command, TypeOK, Places, Redirection, Loop, Return,
       Redirecting, Replaying
  <2>11. CASE ClearFull("worker")
    BY <2>11 DEF ClearFull, TypeOK, Places, Redirection, Loop, Return,
       Redirecting, Replaying
  <2>12. CASE EnableQueue
    BY <2>12 DEF EnableQueue, TypeOK, Places, Redirection, Loop, Return,
       Redirecting, Replaying
  <2>13. CASE EndRedirect
    BY <2>13 DEF EndRedirect, TypeOK, Places, Redirection, Loop, Return,
       Redirecting, Replaying
  <2>14. CASE AllocQueue
    BY <2>14 DEF AllocQueue, TypeOK, Places, Redirection, Loop, Return,
       Redirecting, Replaying
  <2>15. CASE Unlist
    BY <2>15 DEF Unlist, TypeOK, Places, Redirection, Loop, Return,
       Redirecting, Replaying
  <2>16. CASE AllocFails
    BY <2>16 DEF AllocFails, TypeOK, Places, Redirection, Loop, Return,
       Redirecting, Replaying
  <2>17. CASE EndWork
    BY <2>17 DEF EndWork, TypeOK, Places, Redirection, Loop, Return,
       Redirecting, Replaying
  <2> QED
    BY <1>4, <2>1, <2>2, <2>3, <2>4, <2>5, <2>6, <2>7, <2>8, <2>9, <2>10,
       <2>11, <2>12, <2>13, <2>14, <2>15, <2>16, <2>17
       DEF Worker
<1>5. CASE OtherStreams
  BY <1>5 DEF OtherStreams, TypeOK, Places, Redirection, Loop, Return,
     Redirecting, Replaying
<1>6. CASE UNCHANGED vars
  BY <1>6 DEF TypeOK, Places, Redirection, Loop, Return, Redirecting,
     Replaying, Space
<1> QED
  BY <1>1, <1>2, <1>3, <1>4, <1>5, <1>6 DEF Next, Caller

(* A step lets no second context into the loop of iwl_mvm_mac_itxq_xmit,   *)
(* and leaves tx_request at 0 exactly when the last one has left.          *)
LEMMA KeepsOne ==
  ASSUME IInv, [Next]_vars
  PROVE  OneTransmitter' /\ Counted'
<1> USE DEF IInv
<1>1. ASSUME NEW t \in Callers, Enqueue(t) \/ WakeTxQueue(t) \/ AddStream(t)
      PROVE  OneTransmitter' /\ Counted'
  <2>1. CASE Enqueue(t)
    BY <2>1 DEF Enqueue, TypeOK, Places, OneTransmitter, Counted, Loop, Return,
       Redirecting, Replaying
  <2>2. CASE WakeTxQueue(t)
    BY <2>2 DEF WakeTxQueue, TypeOK, Places, OneTransmitter, Counted, Loop,
       Return, Redirecting, Replaying
  <2>3. CASE AddStream(t)
    BY <2>3 DEF AddStream, TypeOK, Places, OneTransmitter, Counted, Loop,
       Return, Redirecting, Replaying
  <2> QED
    BY <1>1, <2>1, <2>2, <2>3
<1>2. ASSUME NEW t \in Threads, Xmit(t)
      PROVE  OneTransmitter' /\ Counted'
  <2>1. CASE TakeRequest(t)
    BY <2>1 DEF TakeRequest, TypeOK, Places, OneTransmitter, Counted, Loop,
       Return, Redirecting, Replaying
  <2>2. CASE TestState(t)
    BY <2>2 DEF TestState, TypeOK, Places, OneTransmitter, Counted, Loop,
       Return, Redirecting, Replaying
  <2>3. CASE Dequeue(t)
    BY <2>3 DEF Dequeue, TypeOK, Places, OneTransmitter, Counted, Loop, Return,
       Redirecting, Replaying
  <2>4. CASE NextMpdu(t)
    BY <2>4 DEF NextMpdu, TypeOK, Places, OneTransmitter, Counted, Loop,
       Return, Redirecting, Replaying
  <2>5. CASE StopQueue(t)
    BY <2>5 DEF StopQueue, TypeOK, Places, OneTransmitter, Counted, Loop,
       Return, Redirecting, Replaying, PutFrame, MustStop, Space
  <2>6. CASE PutAfterStop(t)
    BY <2>6 DEF PutAfterStop, TypeOK, Places, OneTransmitter, Counted, Loop,
       Return, Redirecting, Replaying, PutFrame, MustStop, Space
  <2>7. CASE Put(t)
    BY <2>7 DEF Put, TypeOK, Places, OneTransmitter, Counted, Loop, Return,
       Redirecting, Replaying, PutFrame, MustStop, Space
  <2>8. CASE DecRequest(t)
    BY <2>8 DEF DecRequest, TypeOK, Places, OneTransmitter, Counted, Loop,
       Return, Redirecting, Replaying
  <2> QED
    BY <1>2, <2>1, <2>2, <2>3, <2>4, <2>5, <2>6, <2>7, <2>8 DEF Xmit
<1>3. CASE Reclaimer /\ ~Xmit("reclaim")
  <2>1. CASE Reclaim
    BY <2>1 DEF Reclaim, TypeOK, Places, OneTransmitter, Counted, Loop, Return,
       Redirecting, Replaying
  <2>2. CASE NextReplay
    BY <2>2 DEF NextReplay, TypeOK, Places, OneTransmitter, Counted, Loop,
       Return, Redirecting, Replaying, PutFrame, MustStop, Space
  <2>3. CASE ReplayPut
    BY <2>3 DEF ReplayPut, TypeOK, Places, OneTransmitter, Counted, Loop,
       Return, Redirecting, Replaying, PutFrame, MustStop, Space
  <2>4. CASE WakeQueue("reclaim", "wake_queue", "finish")
    BY <2>4 DEF WakeQueue, TypeOK, Places, OneTransmitter, Counted, Loop,
       Return, Redirecting, Replaying
  <2>5. CASE ClearFull("reclaim")
    BY <2>5 DEF ClearFull, TypeOK, Places, OneTransmitter, Counted, Loop,
       Return, Redirecting, Replaying
  <2>6. CASE FinishReclaim
    BY <2>6 DEF FinishReclaim, TypeOK, Places, OneTransmitter, Counted, Loop,
       Return, Redirecting, Replaying
  <2> QED
    BY <1>3, <2>1, <2>2, <2>3, <2>4, <2>5, <2>6 DEF Reclaimer
<1>4. CASE Worker /\ ~Xmit("worker")
  <2>1. CASE StartWork
    BY <2>1 DEF StartWork, TypeOK, Places, OneTransmitter, Counted, Loop,
       Return, Redirecting, Replaying
  <2>2. CASE NothingToUnshare
    BY <2>2 DEF NothingToUnshare, TypeOK, Places, OneTransmitter, Counted,
       Loop, Return, Redirecting, Replaying
  <2>3. CASE BeginRedirect
    BY <2>3 DEF BeginRedirect, TypeOK, Places, OneTransmitter, Counted, Loop,
       Return, Redirecting, Replaying
  <2>4. CASE DrainOverflow
    BY <2>4 DEF DrainOverflow, TypeOK, Places, OneTransmitter, Counted, Loop,
       Return, Redirecting, Replaying
  <2>5. CASE DrainRing
    BY <2>5 DEF DrainRing, TypeOK, Places, OneTransmitter, Counted, Loop,
       Return, Redirecting, Replaying
  <2>6. CASE DrainTimeout
    BY <2>6 DEF DrainTimeout, TypeOK, Places, OneTransmitter, Counted, Loop,
       Return, Redirecting, Replaying
  <2>7. CASE DisableQueue
    BY <2>7 DEF DisableQueue, TypeOK, Places, OneTransmitter, Counted, Loop,
       Return, Redirecting, Replaying
  <2>8. CASE Unmap
    BY <2>8 DEF Unmap, TypeOK, Places, OneTransmitter, Counted, Loop, Return,
       Redirecting, Replaying
  <2>9. CASE WakeQueue("worker", "unmap_wake", "command")
    BY <2>9 DEF WakeQueue, TypeOK, Places, OneTransmitter, Counted, Loop,
       Return, Redirecting, Replaying
  <2>10. CASE Command
    BY <2>10 DEF Command, TypeOK, Places, OneTransmitter, Counted, Loop,
       Return, Redirecting, Replaying
  <2>11. CASE ClearFull("worker")
    BY <2>11 DEF ClearFull, TypeOK, Places, OneTransmitter, Counted, Loop,
       Return, Redirecting, Replaying
  <2>12. CASE EnableQueue
    BY <2>12 DEF EnableQueue, TypeOK, Places, OneTransmitter, Counted, Loop,
       Return, Redirecting, Replaying
  <2>13. CASE EndRedirect
    BY <2>13 DEF EndRedirect, TypeOK, Places, OneTransmitter, Counted, Loop,
       Return, Redirecting, Replaying
  <2>14. CASE AllocQueue
    BY <2>14 DEF AllocQueue, TypeOK, Places, OneTransmitter, Counted, Loop,
       Return, Redirecting, Replaying
  <2>15. CASE Unlist
    BY <2>15 DEF Unlist, TypeOK, Places, OneTransmitter, Counted, Loop, Return,
       Redirecting, Replaying
  <2>16. CASE AllocFails
    BY <2>16 DEF AllocFails, TypeOK, Places, OneTransmitter, Counted, Loop,
       Return, Redirecting, Replaying
  <2>17. CASE EndWork
    BY <2>17 DEF EndWork, TypeOK, Places, OneTransmitter, Counted, Loop,
       Return, Redirecting, Replaying
  <2> QED
    BY <1>4, <2>1, <2>2, <2>3, <2>4, <2>5, <2>6, <2>7, <2>8, <2>9, <2>10,
       <2>11, <2>12, <2>13, <2>14, <2>15, <2>16, <2>17
       DEF Worker
<1>5. CASE OtherStreams
  BY <1>5 DEF OtherStreams, TypeOK, Places, OneTransmitter, Counted, Loop,
     Return, Redirecting, Replaying
<1>6. CASE UNCHANGED vars
  BY <1>6 DEF TypeOK, Places, OneTransmitter, Counted, Loop, Return,
     Redirecting, Replaying, Space
<1> QED
  BY <1>1, <1>2, <1>3, <1>4, <1>5, <1>6 DEF Next, Caller

(* A step keeps STOP_REDIRECT set for the length of a redirect and the     *)
(* queue unused between its disable and its enable (mvm/sta.c 701-785).    *)
LEMMA KeepsRedirection ==
  ASSUME IInv, [Next]_vars
  PROVE  Redirection'
<1> USE DEF IInv
<1>1. ASSUME NEW t \in Callers, Enqueue(t) \/ WakeTxQueue(t) \/ AddStream(t)
      PROVE  Redirection'
  <2>1. CASE Enqueue(t)
    BY <2>1 DEF Enqueue, TypeOK, Places, Redirection, Loop, Return,
       Redirecting, Replaying
  <2>2. CASE WakeTxQueue(t)
    BY <2>2 DEF WakeTxQueue, TypeOK, Places, Redirection, Loop, Return,
       Redirecting, Replaying
  <2>3. CASE AddStream(t)
    BY <2>3 DEF AddStream, TypeOK, Places, Redirection, Loop, Return,
       Redirecting, Replaying
  <2> QED
    BY <1>1, <2>1, <2>2, <2>3
<1>2. ASSUME NEW t \in Threads, Xmit(t)
      PROVE  Redirection'
  <2>1. CASE TakeRequest(t)
    BY <2>1 DEF TakeRequest, TypeOK, Places, Redirection, Loop, Return,
       Redirecting, Replaying
  <2>2. CASE TestState(t)
    BY <2>2 DEF TestState, TypeOK, Places, Redirection, Loop, Return,
       Redirecting, Replaying
  <2>3. CASE Dequeue(t)
    BY <2>3 DEF Dequeue, TypeOK, Places, Redirection, Loop, Return,
       Redirecting, Replaying
  <2>4. CASE NextMpdu(t)
    BY <2>4 DEF NextMpdu, TypeOK, Places, Redirection, Loop, Return,
       Redirecting, Replaying
  <2>5. CASE StopQueue(t)
    BY <2>5 DEF StopQueue, TypeOK, Places, Redirection, Loop, Return,
       Redirecting, Replaying, PutFrame, MustStop, Space
  <2>6. CASE PutAfterStop(t)
    BY <2>6 DEF PutAfterStop, TypeOK, Places, Redirection, Loop, Return,
       Redirecting, Replaying, PutFrame, MustStop, Space
  <2>7. CASE Put(t)
    BY <2>7 DEF Put, TypeOK, Places, Redirection, Loop, Return, Redirecting,
       Replaying, PutFrame, MustStop, Space
  <2>8. CASE DecRequest(t)
    BY <2>8 DEF DecRequest, TypeOK, Places, Redirection, Loop, Return,
       Redirecting, Replaying
  <2> QED
    BY <1>2, <2>1, <2>2, <2>3, <2>4, <2>5, <2>6, <2>7, <2>8 DEF Xmit
<1>3. CASE Reclaimer /\ ~Xmit("reclaim")
  <2>1. CASE Reclaim
    BY <2>1 DEF Reclaim, TypeOK, Places, Redirection, Loop, Return,
       Redirecting, Replaying
  <2>2. CASE NextReplay
    BY <2>2 DEF NextReplay, TypeOK, Places, Redirection, Loop, Return,
       Redirecting, Replaying, PutFrame, MustStop, Space
  <2>3. CASE ReplayPut
    BY <2>3 DEF ReplayPut, TypeOK, Places, Redirection, Loop, Return,
       Redirecting, Replaying, PutFrame, MustStop, Space
  <2>4. CASE WakeQueue("reclaim", "wake_queue", "finish")
    BY <2>4 DEF WakeQueue, TypeOK, Places, Redirection, Loop, Return,
       Redirecting, Replaying
  <2>5. CASE ClearFull("reclaim")
    BY <2>5 DEF ClearFull, TypeOK, Places, Redirection, Loop, Return,
       Redirecting, Replaying
  <2>6. CASE FinishReclaim
    BY <2>6 DEF FinishReclaim, TypeOK, Places, Redirection, Loop, Return,
       Redirecting, Replaying
  <2> QED
    BY <1>3, <2>1, <2>2, <2>3, <2>4, <2>5, <2>6 DEF Reclaimer
<1>4. CASE Worker /\ ~Xmit("worker")
  <2>1. CASE StartWork
    BY <2>1 DEF StartWork, TypeOK, Places, Redirection, Loop, Return,
       Redirecting, Replaying
  <2>2. CASE NothingToUnshare
    BY <2>2 DEF NothingToUnshare, TypeOK, Places, Redirection, Loop, Return,
       Redirecting, Replaying
  <2>3. CASE BeginRedirect
    BY <2>3 DEF BeginRedirect, TypeOK, Places, Redirection, Loop, Return,
       Redirecting, Replaying
  <2>4. CASE DrainOverflow
    BY <2>4 DEF DrainOverflow, TypeOK, Places, Redirection, Loop, Return,
       Redirecting, Replaying
  <2>5. CASE DrainRing
    BY <2>5 DEF DrainRing, TypeOK, Places, Redirection, Loop, Return,
       Redirecting, Replaying
  <2>6. CASE DrainTimeout
    BY <2>6 DEF DrainTimeout, TypeOK, Places, Redirection, Loop, Return,
       Redirecting, Replaying
  <2>7. CASE DisableQueue
    BY <2>7 DEF DisableQueue, TypeOK, Places, Redirection, Loop, Return,
       Redirecting, Replaying
  <2>8. CASE Unmap
    BY <2>8 DEF Unmap, TypeOK, Places, Redirection, Loop, Return, Redirecting,
       Replaying
  <2>9. CASE WakeQueue("worker", "unmap_wake", "command")
    BY <2>9 DEF WakeQueue, TypeOK, Places, Redirection, Loop, Return,
       Redirecting, Replaying
  <2>10. CASE Command
    BY <2>10 DEF Command, TypeOK, Places, Redirection, Loop, Return,
       Redirecting, Replaying
  <2>11. CASE ClearFull("worker")
    BY <2>11 DEF ClearFull, TypeOK, Places, Redirection, Loop, Return,
       Redirecting, Replaying
  <2>12. CASE EnableQueue
    BY <2>12 DEF EnableQueue, TypeOK, Places, Redirection, Loop, Return,
       Redirecting, Replaying
  <2>13. CASE EndRedirect
    BY <2>13 DEF EndRedirect, TypeOK, Places, Redirection, Loop, Return,
       Redirecting, Replaying
  <2>14. CASE AllocQueue
    BY <2>14 DEF AllocQueue, TypeOK, Places, Redirection, Loop, Return,
       Redirecting, Replaying
  <2>15. CASE Unlist
    BY <2>15 DEF Unlist, TypeOK, Places, Redirection, Loop, Return,
       Redirecting, Replaying
  <2>16. CASE AllocFails
    BY <2>16 DEF AllocFails, TypeOK, Places, Redirection, Loop, Return,
       Redirecting, Replaying
  <2>17. CASE EndWork
    BY <2>17 DEF EndWork, TypeOK, Places, Redirection, Loop, Return,
       Redirecting, Replaying
  <2> QED
    BY <1>4, <2>1, <2>2, <2>3, <2>4, <2>5, <2>6, <2>7, <2>8, <2>9, <2>10,
       <2>11, <2>12, <2>13, <2>14, <2>15, <2>16, <2>17
       DEF Worker
<1>5. CASE OtherStreams
  BY <1>5 DEF OtherStreams, TypeOK, Places, Redirection, Loop, Return,
     Redirecting, Replaying
<1>6. CASE UNCHANGED vars
  BY <1>6 DEF TypeOK, Places, Redirection, Loop, Return, Redirecting,
     Replaying, Space
<1> QED
  BY <1>1, <1>2, <1>3, <1>4, <1>5, <1>6 DEF Next, Caller

(* A step stops the queue only outside a replay, and only when more frames *)
(* are on its ring than a redirect in progress leaves there.               *)
LEMMA KeepsStops ==
  ASSUME IInv, [Next]_vars
  PROVE  Emptied' /\ Stopping'
<1> USE DEF IInv
<1>1. ASSUME NEW t \in Callers, Enqueue(t) \/ WakeTxQueue(t) \/ AddStream(t)
      PROVE  Emptied' /\ Stopping'
  <2>1. CASE Enqueue(t)
    BY <2>1 DEF Enqueue, TypeOK, Places, OneTransmitter, Redirection, Emptied,
       Stopping, Woken, Locked, Space, Loop, Return, Redirecting, Replaying
  <2>2. CASE WakeTxQueue(t)
    BY <2>2 DEF WakeTxQueue, TypeOK, Places, OneTransmitter, Redirection,
       Emptied, Stopping, Woken, Locked, Space, Loop, Return, Redirecting,
       Replaying
  <2>3. CASE AddStream(t)
    BY <2>3 DEF AddStream, TypeOK, Places, OneTransmitter, Redirection,
       Emptied, Stopping, Woken, Locked, Space, Loop, Return, Redirecting,
       Replaying
  <2> QED
    BY <1>1, <2>1, <2>2, <2>3
<1>2. ASSUME NEW t \in Threads, Xmit(t)
      PROVE  Emptied' /\ Stopping'
  <2>1. CASE TakeRequest(t)
    BY <2>1 DEF TakeRequest, TypeOK, Places, OneTransmitter, Redirection,
       Emptied, Stopping, Woken, Locked, Space, Loop, Return, Redirecting,
       Replaying
  <2>2. CASE TestState(t)
    BY <2>2 DEF TestState, TypeOK, Places, OneTransmitter, Redirection,
       Emptied, Stopping, Woken, Locked, Space, Loop, Return, Redirecting,
       Replaying
  <2>3. CASE Dequeue(t)
    BY <2>3 DEF Dequeue, TypeOK, Places, OneTransmitter, Redirection, Emptied,
       Stopping, Woken, Locked, Space, Loop, Return, Redirecting, Replaying
  <2>4. CASE NextMpdu(t)
    BY <2>4 DEF NextMpdu, TypeOK, Places, OneTransmitter, Redirection, Emptied,
       Stopping, Woken, Locked, Space, Loop, Return, Redirecting, Replaying
  <2>5. CASE StopQueue(t)
    BY <2>5 DEF StopQueue, TypeOK, Places, OneTransmitter, Redirection,
       Emptied, Stopping, Woken, Locked, Space, Loop, Return, Redirecting,
       Replaying, PutFrame, MustStop
  <2>6. CASE PutAfterStop(t)
    BY <2>6 DEF PutAfterStop, TypeOK, Places, OneTransmitter, Redirection,
       Emptied, Stopping, Woken, Locked, Space, Loop, Return, Redirecting,
       Replaying, PutFrame, MustStop
  <2>7. CASE Put(t)
    BY <2>7 DEF Put, TypeOK, Places, OneTransmitter, Redirection, Emptied,
       Stopping, Woken, Locked, Space, Loop, Return, Redirecting, Replaying,
       PutFrame, MustStop
  <2>8. CASE DecRequest(t)
    BY <2>8 DEF DecRequest, TypeOK, Places, OneTransmitter, Redirection,
       Emptied, Stopping, Woken, Locked, Space, Loop, Return, Redirecting,
       Replaying
  <2> QED
    BY <1>2, <2>1, <2>2, <2>3, <2>4, <2>5, <2>6, <2>7, <2>8 DEF Xmit
<1>3. CASE Reclaimer /\ ~Xmit("reclaim")
  <2>1. CASE Reclaim
    BY <2>1 DEF Reclaim, TypeOK, Places, OneTransmitter, Redirection, Emptied,
       Stopping, Woken, Locked, Space, Loop, Return, Redirecting, Replaying
  <2>2. CASE NextReplay
    BY <2>2 DEF NextReplay, TypeOK, Places, OneTransmitter, Redirection,
       Emptied, Stopping, Woken, Locked, Space, Loop, Return, Redirecting,
       Replaying, PutFrame, MustStop
  <2>3. CASE ReplayPut
    BY <2>3 DEF ReplayPut, TypeOK, Places, OneTransmitter, Redirection,
       Emptied, Stopping, Woken, Locked, Space, Loop, Return, Redirecting,
       Replaying, PutFrame, MustStop
  <2>4. CASE WakeQueue("reclaim", "wake_queue", "finish")
    BY <2>4 DEF WakeQueue, TypeOK, Places, OneTransmitter, Redirection,
       Emptied, Stopping, Woken, Locked, Space, Loop, Return, Redirecting,
       Replaying
  <2>5. CASE ClearFull("reclaim")
    BY <2>5 DEF ClearFull, TypeOK, Places, OneTransmitter, Redirection,
       Emptied, Stopping, Woken, Locked, Space, Loop, Return, Redirecting,
       Replaying
  <2>6. CASE FinishReclaim
    BY <2>6 DEF FinishReclaim, TypeOK, Places, OneTransmitter, Redirection,
       Emptied, Stopping, Woken, Locked, Space, Loop, Return, Redirecting,
       Replaying
  <2> QED
    BY <1>3, <2>1, <2>2, <2>3, <2>4, <2>5, <2>6 DEF Reclaimer
<1>4. CASE Worker /\ ~Xmit("worker")
  <2>1. CASE StartWork
    BY <2>1 DEF StartWork, TypeOK, Places, OneTransmitter, Redirection,
       Emptied, Stopping, Woken, Locked, Space, Loop, Return, Redirecting,
       Replaying
  <2>2. CASE NothingToUnshare
    BY <2>2 DEF NothingToUnshare, TypeOK, Places, OneTransmitter, Redirection,
       Emptied, Stopping, Woken, Locked, Space, Loop, Return, Redirecting,
       Replaying
  <2>3. CASE BeginRedirect
    BY <2>3 DEF BeginRedirect, TypeOK, Places, OneTransmitter, Redirection,
       Emptied, Stopping, Woken, Locked, Space, Loop, Return, Redirecting,
       Replaying
  <2>4. CASE DrainOverflow
    BY <2>4 DEF DrainOverflow, TypeOK, Places, OneTransmitter, Redirection,
       Emptied, Stopping, Woken, Locked, Space, Loop, Return, Redirecting,
       Replaying
  <2>5. CASE DrainRing
    BY <2>5 DEF DrainRing, TypeOK, Places, OneTransmitter, Redirection,
       Emptied, Stopping, Woken, Locked, Space, Loop, Return, Redirecting,
       Replaying
  <2>6. CASE DrainTimeout
    BY <2>6 DEF DrainTimeout, TypeOK, Places, OneTransmitter, Redirection,
       Emptied, Stopping, Woken, Locked, Space, Loop, Return, Redirecting,
       Replaying
  <2>7. CASE DisableQueue
    BY <2>7 DEF DisableQueue, TypeOK, Places, OneTransmitter, Redirection,
       Emptied, Stopping, Woken, Locked, Space, Loop, Return, Redirecting,
       Replaying
  <2>8. CASE Unmap
    BY <2>8 DEF Unmap, TypeOK, Places, OneTransmitter, Redirection, Emptied,
       Stopping, Woken, Locked, Space, Loop, Return, Redirecting, Replaying
  <2>9. CASE WakeQueue("worker", "unmap_wake", "command")
    BY <2>9 DEF WakeQueue, TypeOK, Places, OneTransmitter, Redirection,
       Emptied, Stopping, Woken, Locked, Space, Loop, Return, Redirecting,
       Replaying
  <2>10. CASE Command
    BY <2>10 DEF Command, TypeOK, Places, OneTransmitter, Redirection, Emptied,
       Stopping, Woken, Locked, Space, Loop, Return, Redirecting, Replaying
  <2>11. CASE ClearFull("worker")
    BY <2>11 DEF ClearFull, TypeOK, Places, OneTransmitter, Redirection,
       Emptied, Stopping, Woken, Locked, Space, Loop, Return, Redirecting,
       Replaying
  <2>12. CASE EnableQueue
    BY <2>12 DEF EnableQueue, TypeOK, Places, OneTransmitter, Redirection,
       Emptied, Stopping, Woken, Locked, Space, Loop, Return, Redirecting,
       Replaying
  <2>13. CASE EndRedirect
    BY <2>13 DEF EndRedirect, TypeOK, Places, OneTransmitter, Redirection,
       Emptied, Stopping, Woken, Locked, Space, Loop, Return, Redirecting,
       Replaying
  <2>14. CASE AllocQueue
    BY <2>14 DEF AllocQueue, TypeOK, Places, OneTransmitter, Redirection,
       Emptied, Stopping, Woken, Locked, Space, Loop, Return, Redirecting,
       Replaying
  <2>15. CASE Unlist
    BY <2>15 DEF Unlist, TypeOK, Places, OneTransmitter, Redirection, Emptied,
       Stopping, Woken, Locked, Space, Loop, Return, Redirecting, Replaying
  <2>16. CASE AllocFails
    BY <2>16 DEF AllocFails, TypeOK, Places, OneTransmitter, Redirection,
       Emptied, Stopping, Woken, Locked, Space, Loop, Return, Redirecting,
       Replaying
  <2>17. CASE EndWork
    BY <2>17 DEF EndWork, TypeOK, Places, OneTransmitter, Redirection, Emptied,
       Stopping, Woken, Locked, Space, Loop, Return, Redirecting, Replaying
  <2> QED
    BY <1>4, <2>1, <2>2, <2>3, <2>4, <2>5, <2>6, <2>7, <2>8, <2>9, <2>10,
       <2>11, <2>12, <2>13, <2>14, <2>15, <2>16, <2>17
       DEF Worker
<1>5. CASE OtherStreams
  BY <1>5 DEF OtherStreams, TypeOK, Places, OneTransmitter, Redirection,
     Emptied, Stopping, Woken, Locked, Space, Loop, Return, Redirecting,
     Replaying
<1>6. CASE UNCHANGED vars
  BY <1>6 DEF TypeOK, Places, OneTransmitter, Redirection, Emptied, Stopping,
     Woken, Locked, Space, Loop, Return, Redirecting, Replaying
<1> QED
  BY <1>1, <1>2, <1>3, <1>4, <1>5, <1>6 DEF Next, Caller

(* A step sets STOP_FULL only on a stopped queue, and wakes the queue only *)
(* on the way to clearing the bit (queue/tx.h 29-36, mvm/ops.c 1803-1811). *)
LEMMA KeepsUndone ==
  ASSUME IInv, [Next]_vars
  PROVE  StopIsUndone'
<1> USE DEF IInv
<1>1. ASSUME NEW t \in Callers, Enqueue(t) \/ WakeTxQueue(t) \/ AddStream(t)
      PROVE  StopIsUndone'
  <2>1. CASE Enqueue(t)
    BY <2>1 DEF Enqueue, TypeOK, Places, Stopping, StopIsUndone, Locked, Loop,
       Return
  <2>2. CASE WakeTxQueue(t)
    BY <2>2 DEF WakeTxQueue, TypeOK, Places, Stopping, StopIsUndone, Locked,
       Loop, Return
  <2>3. CASE AddStream(t)
    BY <2>3 DEF AddStream, TypeOK, Places, Stopping, StopIsUndone, Locked,
       Loop, Return
  <2> QED
    BY <1>1, <2>1, <2>2, <2>3
<1>2. ASSUME NEW t \in Threads, Xmit(t)
      PROVE  StopIsUndone'
  <2>1. CASE TakeRequest(t)
    BY <2>1 DEF TakeRequest, TypeOK, Places, Stopping, StopIsUndone, Locked,
       Loop, Return
  <2>2. CASE TestState(t)
    BY <2>2 DEF TestState, TypeOK, Places, Stopping, StopIsUndone, Locked,
       Loop, Return
  <2>3. CASE Dequeue(t)
    BY <2>3 DEF Dequeue, TypeOK, Places, Stopping, StopIsUndone, Locked, Loop,
       Return
  <2>4. CASE NextMpdu(t)
    BY <2>4 DEF NextMpdu, TypeOK, Places, Stopping, StopIsUndone, Locked, Loop,
       Return
  <2>5. CASE StopQueue(t)
    BY <2>5 DEF StopQueue, TypeOK, Places, Stopping, StopIsUndone, Locked,
       Loop, Return, PutFrame, MustStop, Space
  <2>6. CASE PutAfterStop(t)
    BY <2>6 DEF PutAfterStop, TypeOK, Places, Stopping, StopIsUndone, Locked,
       Loop, Return, PutFrame, MustStop, Space
  <2>7. CASE Put(t)
    BY <2>7 DEF Put, TypeOK, Places, Stopping, StopIsUndone, Locked, Loop,
       Return, PutFrame, MustStop, Space
  <2>8. CASE DecRequest(t)
    BY <2>8 DEF DecRequest, TypeOK, Places, Stopping, StopIsUndone, Locked,
       Loop, Return
  <2> QED
    BY <1>2, <2>1, <2>2, <2>3, <2>4, <2>5, <2>6, <2>7, <2>8 DEF Xmit
<1>3. CASE Reclaimer /\ ~Xmit("reclaim")
  <2>1. CASE Reclaim
    BY <2>1 DEF Reclaim, TypeOK, Places, Stopping, StopIsUndone, Locked, Loop,
       Return
  <2>2. CASE NextReplay
    BY <2>2 DEF NextReplay, TypeOK, Places, Stopping, StopIsUndone, Locked,
       Loop, Return, PutFrame, MustStop, Space
  <2>3. CASE ReplayPut
    BY <2>3 DEF ReplayPut, TypeOK, Places, Stopping, StopIsUndone, Locked,
       Loop, Return, PutFrame, MustStop, Space
  <2>4. CASE WakeQueue("reclaim", "wake_queue", "finish")
    BY <2>4 DEF WakeQueue, TypeOK, Places, Stopping, StopIsUndone, Locked,
       Loop, Return
  <2>5. CASE ClearFull("reclaim")
    BY <2>5 DEF ClearFull, TypeOK, Places, Stopping, StopIsUndone, Locked,
       Loop, Return
  <2>6. CASE FinishReclaim
    BY <2>6 DEF FinishReclaim, TypeOK, Places, Stopping, StopIsUndone, Locked,
       Loop, Return
  <2> QED
    BY <1>3, <2>1, <2>2, <2>3, <2>4, <2>5, <2>6 DEF Reclaimer
<1>4. CASE Worker /\ ~Xmit("worker")
  <2>1. CASE StartWork
    BY <2>1 DEF StartWork, TypeOK, Places, Stopping, StopIsUndone, Locked,
       Loop, Return
  <2>2. CASE NothingToUnshare
    BY <2>2 DEF NothingToUnshare, TypeOK, Places, Stopping, StopIsUndone,
       Locked, Loop, Return
  <2>3. CASE BeginRedirect
    BY <2>3 DEF BeginRedirect, TypeOK, Places, Stopping, StopIsUndone, Locked,
       Loop, Return
  <2>4. CASE DrainOverflow
    BY <2>4 DEF DrainOverflow, TypeOK, Places, Stopping, StopIsUndone, Locked,
       Loop, Return
  <2>5. CASE DrainRing
    BY <2>5 DEF DrainRing, TypeOK, Places, Stopping, StopIsUndone, Locked,
       Loop, Return
  <2>6. CASE DrainTimeout
    BY <2>6 DEF DrainTimeout, TypeOK, Places, Stopping, StopIsUndone, Locked,
       Loop, Return
  <2>7. CASE DisableQueue
    BY <2>7 DEF DisableQueue, TypeOK, Places, Stopping, StopIsUndone, Locked,
       Loop, Return
  <2>8. CASE Unmap
    BY <2>8 DEF Unmap, TypeOK, Places, Stopping, StopIsUndone, Locked, Loop,
       Return
  <2>9. CASE WakeQueue("worker", "unmap_wake", "command")
    BY <2>9 DEF WakeQueue, TypeOK, Places, Stopping, StopIsUndone, Locked,
       Loop, Return
  <2>10. CASE Command
    BY <2>10 DEF Command, TypeOK, Places, Stopping, StopIsUndone, Locked, Loop,
       Return
  <2>11. CASE ClearFull("worker")
    BY <2>11 DEF ClearFull, TypeOK, Places, Stopping, StopIsUndone, Locked,
       Loop, Return
  <2>12. CASE EnableQueue
    BY <2>12 DEF EnableQueue, TypeOK, Places, Stopping, StopIsUndone, Locked,
       Loop, Return
  <2>13. CASE EndRedirect
    BY <2>13 DEF EndRedirect, TypeOK, Places, Stopping, StopIsUndone, Locked,
       Loop, Return
  <2>14. CASE AllocQueue
    BY <2>14 DEF AllocQueue, TypeOK, Places, Stopping, StopIsUndone, Locked,
       Loop, Return
  <2>15. CASE Unlist
    BY <2>15 DEF Unlist, TypeOK, Places, Stopping, StopIsUndone, Locked, Loop,
       Return
  <2>16. CASE AllocFails
    BY <2>16 DEF AllocFails, TypeOK, Places, Stopping, StopIsUndone, Locked,
       Loop, Return
  <2>17. CASE EndWork
    BY <2>17 DEF EndWork, TypeOK, Places, Stopping, StopIsUndone, Locked, Loop,
       Return
  <2> QED
    BY <1>4, <2>1, <2>2, <2>3, <2>4, <2>5, <2>6, <2>7, <2>8, <2>9, <2>10,
       <2>11, <2>12, <2>13, <2>14, <2>15, <2>16, <2>17
       DEF Worker
<1>5. CASE OtherStreams
  BY <1>5 DEF OtherStreams, TypeOK, Places, Stopping, StopIsUndone, Locked,
     Loop, Return
<1>6. CASE UNCHANGED vars
  BY <1>6 DEF TypeOK, Places, Stopping, StopIsUndone, Locked, Loop, Return,
     Space
<1> QED
  BY <1>1, <1>2, <1>3, <1>4, <1>5, <1>6 DEF Next, Caller

(* A step that leaves the queue with frames in it leaves somebody who will *)
(* look at it (mvm/mac80211.c 884-949, mvm/sta.c 1533-1584).               *)
LEMMA KeepsLooking ==
  ASSUME IInv, [Next]_vars
  PROVE  ListServed' /\ NoneForgotten'
<1> USE DEF IInv
<1>1. ASSUME NEW t \in Callers, Enqueue(t) \/ WakeTxQueue(t) \/ AddStream(t)
      PROVE  ListServed' /\ NoneForgotten'
  <2>1. CASE Enqueue(t)
    BY <2>1 DEF Enqueue, TypeOK, Places, Redirection, StopIsUndone, ListServed,
       NoneForgotten, LookedAfter, Loop, Return, Redirecting
  <2>2. CASE WakeTxQueue(t)
    BY <2>2 DEF WakeTxQueue, TypeOK, Places, Redirection, StopIsUndone,
       ListServed, NoneForgotten, LookedAfter, Loop, Return, Redirecting
  <2>3. CASE AddStream(t)
    BY <2>3 DEF AddStream, TypeOK, Places, Redirection, StopIsUndone,
       ListServed, NoneForgotten, LookedAfter, Loop, Return, Redirecting
  <2> QED
    BY <1>1, <2>1, <2>2, <2>3
<1>2. ASSUME NEW t \in Threads, Xmit(t)
      PROVE  ListServed' /\ NoneForgotten'
  <2>1. CASE TakeRequest(t)
    BY <2>1 DEF TakeRequest, TypeOK, Places, Redirection, StopIsUndone,
       ListServed, NoneForgotten, LookedAfter, Loop, Return, Redirecting
  <2>2. CASE TestState(t)
    BY <2>2 DEF TestState, TypeOK, Places, Redirection, StopIsUndone,
       ListServed, NoneForgotten, LookedAfter, Loop, Return, Redirecting
  <2>3. CASE Dequeue(t)
    BY <2>3 DEF Dequeue, TypeOK, Places, Redirection, StopIsUndone, ListServed,
       NoneForgotten, LookedAfter, Loop, Return, Redirecting
  <2>4. CASE NextMpdu(t)
    BY <2>4 DEF NextMpdu, TypeOK, Places, Redirection, StopIsUndone,
       ListServed, NoneForgotten, LookedAfter, Loop, Return, Redirecting
  <2>5. CASE StopQueue(t)
    BY <2>5 DEF StopQueue, TypeOK, Places, Redirection, StopIsUndone,
       ListServed, NoneForgotten, LookedAfter, Loop, Return, Redirecting,
       PutFrame, MustStop, Space
  <2>6. CASE PutAfterStop(t)
    BY <2>6 DEF PutAfterStop, TypeOK, Places, Redirection, StopIsUndone,
       ListServed, NoneForgotten, LookedAfter, Loop, Return, Redirecting,
       PutFrame, MustStop, Space
  <2>7. CASE Put(t)
    BY <2>7 DEF Put, TypeOK, Places, Redirection, StopIsUndone, ListServed,
       NoneForgotten, LookedAfter, Loop, Return, Redirecting, PutFrame,
       MustStop, Space
  <2>8. CASE DecRequest(t)
    BY <2>8 DEF DecRequest, TypeOK, Places, Redirection, StopIsUndone,
       ListServed, NoneForgotten, LookedAfter, Loop, Return, Redirecting
  <2> QED
    BY <1>2, <2>1, <2>2, <2>3, <2>4, <2>5, <2>6, <2>7, <2>8 DEF Xmit
<1>3. CASE Reclaimer /\ ~Xmit("reclaim")
  <2>1. CASE Reclaim
    BY <2>1 DEF Reclaim, TypeOK, Places, Redirection, StopIsUndone, ListServed,
       NoneForgotten, LookedAfter, Loop, Return, Redirecting
  <2>2. CASE NextReplay
    BY <2>2 DEF NextReplay, TypeOK, Places, Redirection, StopIsUndone,
       ListServed, NoneForgotten, LookedAfter, Loop, Return, Redirecting,
       PutFrame, MustStop, Space
  <2>3. CASE ReplayPut
    BY <2>3 DEF ReplayPut, TypeOK, Places, Redirection, StopIsUndone,
       ListServed, NoneForgotten, LookedAfter, Loop, Return, Redirecting,
       PutFrame, MustStop, Space
  <2>4. CASE WakeQueue("reclaim", "wake_queue", "finish")
    BY <2>4 DEF WakeQueue, TypeOK, Places, Redirection, StopIsUndone,
       ListServed, NoneForgotten, LookedAfter, Loop, Return, Redirecting
  <2>5. CASE ClearFull("reclaim")
    BY <2>5 DEF ClearFull, TypeOK, Places, Redirection, StopIsUndone,
       ListServed, NoneForgotten, LookedAfter, Loop, Return, Redirecting
  <2>6. CASE FinishReclaim
    BY <2>6 DEF FinishReclaim, TypeOK, Places, Redirection, StopIsUndone,
       ListServed, NoneForgotten, LookedAfter, Loop, Return, Redirecting
  <2> QED
    BY <1>3, <2>1, <2>2, <2>3, <2>4, <2>5, <2>6 DEF Reclaimer
<1>4. CASE Worker /\ ~Xmit("worker")
  <2>1. CASE StartWork
    BY <2>1 DEF StartWork, TypeOK, Places, Redirection, StopIsUndone,
       ListServed, NoneForgotten, LookedAfter, Loop, Return, Redirecting
  <2>2. CASE NothingToUnshare
    BY <2>2 DEF NothingToUnshare, TypeOK, Places, Redirection, StopIsUndone,
       ListServed, NoneForgotten, LookedAfter, Loop, Return, Redirecting
  <2>3. CASE BeginRedirect
    BY <2>3 DEF BeginRedirect, TypeOK, Places, Redirection, StopIsUndone,
       ListServed, NoneForgotten, LookedAfter, Loop, Return, Redirecting
  <2>4. CASE DrainOverflow
    BY <2>4 DEF DrainOverflow, TypeOK, Places, Redirection, StopIsUndone,
       ListServed, NoneForgotten, LookedAfter, Loop, Return, Redirecting
  <2>5. CASE DrainRing
    BY <2>5 DEF DrainRing, TypeOK, Places, Redirection, StopIsUndone,
       ListServed, NoneForgotten, LookedAfter, Loop, Return, Redirecting
  <2>6. CASE DrainTimeout
    BY <2>6 DEF DrainTimeout, TypeOK, Places, Redirection, StopIsUndone,
       ListServed, NoneForgotten, LookedAfter, Loop, Return, Redirecting
  <2>7. CASE DisableQueue
    BY <2>7 DEF DisableQueue, TypeOK, Places, Redirection, StopIsUndone,
       ListServed, NoneForgotten, LookedAfter, Loop, Return, Redirecting
  <2>8. CASE Unmap
    BY <2>8 DEF Unmap, TypeOK, Places, Redirection, StopIsUndone, ListServed,
       NoneForgotten, LookedAfter, Loop, Return, Redirecting
  <2>9. CASE WakeQueue("worker", "unmap_wake", "command")
    BY <2>9 DEF WakeQueue, TypeOK, Places, Redirection, StopIsUndone,
       ListServed, NoneForgotten, LookedAfter, Loop, Return, Redirecting
  <2>10. CASE Command
    BY <2>10 DEF Command, TypeOK, Places, Redirection, StopIsUndone,
       ListServed, NoneForgotten, LookedAfter, Loop, Return, Redirecting
  <2>11. CASE ClearFull("worker")
    BY <2>11 DEF ClearFull, TypeOK, Places, Redirection, StopIsUndone,
       ListServed, NoneForgotten, LookedAfter, Loop, Return, Redirecting
  <2>12. CASE EnableQueue
    BY <2>12 DEF EnableQueue, TypeOK, Places, Redirection, StopIsUndone,
       ListServed, NoneForgotten, LookedAfter, Loop, Return, Redirecting
  <2>13. CASE EndRedirect
    BY <2>13 DEF EndRedirect, TypeOK, Places, Redirection, StopIsUndone,
       ListServed, NoneForgotten, LookedAfter, Loop, Return, Redirecting
  <2>14. CASE AllocQueue
    BY <2>14 DEF AllocQueue, TypeOK, Places, Redirection, StopIsUndone,
       ListServed, NoneForgotten, LookedAfter, Loop, Return, Redirecting
  <2>15. CASE Unlist
    BY <2>15 DEF Unlist, TypeOK, Places, Redirection, StopIsUndone, ListServed,
       NoneForgotten, LookedAfter, Loop, Return, Redirecting
  <2>16. CASE AllocFails
    BY <2>16 DEF AllocFails, TypeOK, Places, Redirection, StopIsUndone,
       ListServed, NoneForgotten, LookedAfter, Loop, Return, Redirecting
  <2>17. CASE EndWork
    BY <2>17 DEF EndWork, TypeOK, Places, Redirection, StopIsUndone,
       ListServed, NoneForgotten, LookedAfter, Loop, Return, Redirecting
  <2> QED
    BY <1>4, <2>1, <2>2, <2>3, <2>4, <2>5, <2>6, <2>7, <2>8, <2>9, <2>10,
       <2>11, <2>12, <2>13, <2>14, <2>15, <2>16, <2>17
       DEF Worker
<1>5. CASE OtherStreams
  BY <1>5 DEF OtherStreams, TypeOK, Places, Redirection, StopIsUndone,
     ListServed, NoneForgotten, LookedAfter, Loop, Return, Redirecting
<1>6. CASE UNCHANGED vars
  BY <1>6 DEF TypeOK, Places, Redirection, StopIsUndone, ListServed,
     NoneForgotten, LookedAfter, Loop, Return, Redirecting, Space
<1> QED
  BY <1>1, <1>2, <1>3, <1>4, <1>5, <1>6 DEF Next, Caller

(* The driver starts with an empty queue and every context idle.           *)
LEMMA Start == Init => IInv
<1> SUFFICES ASSUME Init PROVE IInv
  OBVIOUS
<1>1. TypeOK
  <2>1. /\ waiting \in 0..MaxWaiting /\ tx_request \in 0..2
        /\ ring \in 0..Window /\ overflow_q \in 0..MaxOverflow
        /\ replay \in 0..MaxOverflow
    BY DEF Init
  <2>2. mpdus \in [Threads -> 0..Segments] /\ pc \in [Threads -> Points]
    BY DEF Init
  <2> QED
    BY <2>1, <2>2 DEF Init, TypeOK
<1>2. \A t \in Threads : pc[t] = "idle"
  BY DEF Init
<1>3. Places /\ OneTransmitter /\ Counted /\ Redirection
  BY <1>2 DEF Init, Places, OneTransmitter, Counted, Redirection, Loop, Redirecting,
     Replaying
<1>4. Emptied /\ Stopping
  BY <1>2 DEF Init, Emptied, Woken, Stopping, Locked, Replaying
<1>5. StopIsUndone /\ ListServed /\ NoneForgotten
  BY <1>2 DEF Init, StopIsUndone, ListServed, NoneForgotten
<1> QED
  BY <1>1, <1>3, <1>4, <1>5 DEF IInv

-----------------------------------------------------------------------------
(* The conjunction is kept by every step of every context.                 *)
THEOREM Invariant == Spec => []IInv
<1>1. IInv /\ [Next]_vars => IInv'
  BY KeepsTypes, KeepsPlaces, KeepsOne, KeepsRedirection, KeepsStops, KeepsUndone,
     KeepsLooking DEF IInv
<1> QED
  BY Start, <1>1, PTL DEF Spec

(* The counters stay in their ranges: in particular tx_request never goes  *)
(* below 0 or above 2 (iwl_mvm_mac_itxq_xmit, mvm/mac80211.c 897 and 920). *)
THEOREM Typed == Spec => []TypeOK
<1>1. IInv => TypeOK
  BY DEF IInv
<1> QED
  BY Invariant, <1>1, PTL

(* However many contexts call iwl_mvm_mac_itxq_xmit, one at a time is in   *)
(* its loop (tx_request, mvm/mac80211.c 897-898).                          *)
THEOREM OneAtATime == Spec => []OneTransmitter
<1>1. IInv => OneTransmitter
  BY DEF IInv
<1> QED
  BY Invariant, <1>1, PTL

(* STOP_FULL is set only while the wake that clears it is to come: the     *)
(* queue is marked stopped, or its wake is at work (queue/tx.h 29-36,      *)
(* 61-70; mvm/ops.c 1752-1818).                                            *)
THEOREM StopComesUndone == Spec => []StopIsUndone
<1>1. IInv => StopIsUndone
  BY DEF IInv
<1> QED
  BY Invariant, <1>1, PTL

(* While frames wait in mac80211's queue a context is going to look at it, *)
(* unless a redirect or a failed allocation left them for the next caller  *)
(* (mvm/mac80211.c 884-920 and 923-949, mvm/sta.c 1533-1584).              *)
THEOREM NoFrameForgotten == Spec => []NoneForgotten
<1>1. IInv => NoneForgotten
  BY DEF IInv
<1> QED
  BY Invariant, <1>1, PTL

LEMMA IInvReplays == IInv => ReplayNeedsNoStop
<1> SUFFICES ASSUME IInv, pc["reclaim"] = "retx" PROVE ~MustStop
  BY DEF ReplayNeedsNoStop
<1>1. queue_stopped \/ Woken
  BY DEF IInv, Stopping, Replaying
<1>2. CASE Woken
  <2>1. ring <= 1 /\ ring \in Nat
    BY <1>2 DEF IInv, Emptied, TypeOK
  <2> QED
    BY <2>1 DEF MustStop, Space
<1> QED
  BY <1>1, <1>2 DEF MustStop

(* The replay of the overflow queue never needs to stop the queue itself:  *)
(* it is still marked stopped or, once a redirect has woken it, its ring   *)
(* holds at most one frame (queue/tx.c 1670-1697, pcie/tx.c 1488-1505).    *)
THEOREM ReplaySendsFreely == Spec => []ReplayNeedsNoStop
<1> QED
  BY Invariant, IInvReplays, PTL


-----------------------------------------------------------------------------
(* The stops: they agree as long as what is left of an skb when its queue  *)
(* is stopped fits between the two marks.                                  *)
SkbFits == Segments + HighMark <= LowMark + 3

(* A step never leaves a wake that would undo a later stop.                *)
LEMMA KeepsWaking ==
  ASSUME SkbFits, IInv, Waking, [Next]_vars
  PROVE  Waking'
<1> USE DEF IInv
<1>1. ASSUME NEW t \in Callers, Enqueue(t) \/ WakeTxQueue(t) \/ AddStream(t)
      PROVE  Waking'
  <2>1. CASE Enqueue(t)
    BY <2>1 DEF Enqueue, TypeOK, Places, OneTransmitter, Redirection,
       Emptied, Stopping, Woken, Locked, Space, Loop, Return, Redirecting,
       Replaying, Waking, Room, StopHolds
  <2>2. CASE WakeTxQueue(t)
    BY <2>2 DEF WakeTxQueue, TypeOK, Places, OneTransmitter, Redirection,
       Emptied, Stopping, Woken, Locked, Space, Loop, Return, Redirecting,
       Replaying, Waking, Room, StopHolds
  <2>3. CASE AddStream(t)
    BY <2>3 DEF AddStream, TypeOK, Places, OneTransmitter, Redirection,
       Emptied, Stopping, Woken, Locked, Space, Loop, Return, Redirecting,
       Replaying, Waking, Room, StopHolds
  <2> QED
    BY <1>1, <2>1, <2>2, <2>3
<1>2. ASSUME NEW t \in Threads, Xmit(t)
      PROVE  Waking'
  <2>1. CASE TakeRequest(t)
    BY <2>1 DEF TakeRequest, TypeOK, Places, OneTransmitter, Redirection,
       Emptied, Stopping, Woken, Locked, Space, Loop, Return, Redirecting,
       Replaying, Waking, Room, StopHolds
  <2>2. CASE TestState(t)
    BY <2>2 DEF TestState, TypeOK, Places, OneTransmitter, Redirection,
       Emptied, Stopping, Woken, Locked, Space, Loop, Return, Redirecting,
       Replaying, Waking, Room, StopHolds
  <2>3. CASE Dequeue(t)
    BY <2>3 DEF Dequeue, TypeOK, Places, OneTransmitter, Redirection,
       Emptied, Stopping, Woken, Locked, Space, Loop, Return, Redirecting,
       Replaying, Waking, Room, StopHolds
  <2>4. CASE NextMpdu(t)
    BY <2>4 DEF NextMpdu, TypeOK, Places, OneTransmitter, Redirection,
       Emptied, Stopping, Woken, Locked, Space, Loop, Return, Redirecting,
       Replaying, Waking, Room, StopHolds
  <2>5. CASE StopQueue(t)
    BY <2>5 DEF StopQueue, TypeOK, Places, OneTransmitter, Redirection,
       Emptied, Stopping, Woken, Locked, Space, Loop, Return, Redirecting,
       Replaying, Waking, Room, StopHolds, PutFrame, MustStop
  <2>6. CASE PutAfterStop(t)
    BY <2>6 DEF PutAfterStop, TypeOK, Places, OneTransmitter, Redirection,
       Emptied, Stopping, Woken, Locked, Space, Loop, Return, Redirecting,
       Replaying, Waking, Room, StopHolds, PutFrame, MustStop
  <2>7. CASE Put(t)
    BY <2>7 DEF Put, TypeOK, Places, OneTransmitter, Redirection, Emptied,
       Stopping, Woken, Locked, Space, Loop, Return, Redirecting, Replaying,
       Waking, Room, StopHolds, PutFrame, MustStop
  <2>8. CASE DecRequest(t)
    BY <2>8 DEF DecRequest, TypeOK, Places, OneTransmitter, Redirection,
       Emptied, Stopping, Woken, Locked, Space, Loop, Return, Redirecting,
       Replaying, Waking, Room, StopHolds
  <2> QED
    BY <1>2, <2>1, <2>2, <2>3, <2>4, <2>5, <2>6, <2>7, <2>8 DEF Xmit
<1>3. CASE Reclaimer /\ ~Xmit("reclaim")
  <2>1. CASE Reclaim
    BY <2>1 DEF Reclaim, TypeOK, Places, OneTransmitter, Redirection,
       Emptied, Stopping, Woken, Locked, Space, Loop, Return, Redirecting,
       Replaying, Waking, Room, StopHolds
  <2>2. CASE NextReplay
    BY <2>2 DEF NextReplay, TypeOK, Places, OneTransmitter, Redirection,
       Emptied, Stopping, Woken, Locked, Space, Loop, Return, Redirecting,
       Replaying, Waking, Room, StopHolds, SkbFits
  <2>3. CASE ReplayPut
    BY <2>3 DEF ReplayPut, TypeOK, Places, OneTransmitter, Redirection,
       Emptied, Stopping, Woken, Locked, Space, Loop, Return, Redirecting,
       Replaying, Waking, Room, StopHolds, PutFrame, MustStop
  <2>4. CASE WakeQueue("reclaim", "wake_queue", "finish")
    BY <2>4 DEF WakeQueue, TypeOK, Places, OneTransmitter, Redirection,
       Emptied, Stopping, Woken, Locked, Space, Loop, Return, Redirecting,
       Replaying, Waking, Room, StopHolds
  <2>5. CASE ClearFull("reclaim")
    BY <2>5 DEF ClearFull, TypeOK, Places, OneTransmitter, Redirection,
       Emptied, Stopping, Woken, Locked, Space, Loop, Return, Redirecting,
       Replaying, Waking, Room, StopHolds
  <2>6. CASE FinishReclaim
    BY <2>6 DEF FinishReclaim, TypeOK, Places, OneTransmitter, Redirection,
       Emptied, Stopping, Woken, Locked, Space, Loop, Return, Redirecting,
       Replaying, Waking, Room, StopHolds
  <2> QED
    BY <1>3, <2>1, <2>2, <2>3, <2>4, <2>5, <2>6 DEF Reclaimer
<1>4. CASE Worker /\ ~Xmit("worker")
  <2>1. CASE StartWork
    BY <2>1 DEF StartWork, TypeOK, Places, OneTransmitter, Redirection,
       Emptied, Stopping, Woken, Locked, Space, Loop, Return, Redirecting,
       Replaying, Waking, Room, StopHolds
  <2>2. CASE NothingToUnshare
    BY <2>2 DEF NothingToUnshare, TypeOK, Places, OneTransmitter,
       Redirection, Emptied, Stopping, Woken, Locked, Space, Loop, Return,
       Redirecting, Replaying, Waking, Room, StopHolds
  <2>3. CASE BeginRedirect
    BY <2>3 DEF BeginRedirect, TypeOK, Places, OneTransmitter, Redirection,
       Emptied, Stopping, Woken, Locked, Space, Loop, Return, Redirecting,
       Replaying, Waking, Room, StopHolds
  <2>4. CASE DrainOverflow
    BY <2>4 DEF DrainOverflow, TypeOK, Places, OneTransmitter, Redirection,
       Emptied, Stopping, Woken, Locked, Space, Loop, Return, Redirecting,
       Replaying, Waking, Room, StopHolds
  <2>5. CASE DrainRing
    BY <2>5 DEF DrainRing, TypeOK, Places, OneTransmitter, Redirection,
       Emptied, Stopping, Woken, Locked, Space, Loop, Return, Redirecting,
       Replaying, Waking, Room, StopHolds
  <2>6. CASE DrainTimeout
    BY <2>6 DEF DrainTimeout, TypeOK, Places, OneTransmitter, Redirection,
       Emptied, Stopping, Woken, Locked, Space, Loop, Return, Redirecting,
       Replaying, Waking, Room, StopHolds
  <2>7. CASE DisableQueue
    BY <2>7 DEF DisableQueue, TypeOK, Places, OneTransmitter, Redirection,
       Emptied, Stopping, Woken, Locked, Space, Loop, Return, Redirecting,
       Replaying, Waking, Room, StopHolds
  <2>8. CASE Unmap
    BY <2>8 DEF Unmap, TypeOK, Places, OneTransmitter, Redirection, Emptied,
       Stopping, Woken, Locked, Space, Loop, Return, Redirecting, Replaying,
       Waking, Room, StopHolds
  <2>9. CASE WakeQueue("worker", "unmap_wake", "command")
    BY <2>9 DEF WakeQueue, TypeOK, Places, OneTransmitter, Redirection,
       Emptied, Stopping, Woken, Locked, Space, Loop, Return, Redirecting,
       Replaying, Waking, Room, StopHolds
  <2>10. CASE Command
    BY <2>10 DEF Command, TypeOK, Places, OneTransmitter, Redirection,
       Emptied, Stopping, Woken, Locked, Space, Loop, Return, Redirecting,
       Replaying, Waking, Room, StopHolds
  <2>11. CASE ClearFull("worker")
    BY <2>11 DEF ClearFull, TypeOK, Places, OneTransmitter, Redirection,
       Emptied, Stopping, Woken, Locked, Space, Loop, Return, Redirecting,
       Replaying, Waking, Room, StopHolds
  <2>12. CASE EnableQueue
    BY <2>12 DEF EnableQueue, TypeOK, Places, OneTransmitter, Redirection,
       Emptied, Stopping, Woken, Locked, Space, Loop, Return, Redirecting,
       Replaying, Waking, Room, StopHolds
  <2>13. CASE EndRedirect
    BY <2>13 DEF EndRedirect, TypeOK, Places, OneTransmitter, Redirection,
       Emptied, Stopping, Woken, Locked, Space, Loop, Return, Redirecting,
       Replaying, Waking, Room, StopHolds
  <2>14. CASE AllocQueue
    BY <2>14 DEF AllocQueue, TypeOK, Places, OneTransmitter, Redirection,
       Emptied, Stopping, Woken, Locked, Space, Loop, Return, Redirecting,
       Replaying, Waking, Room, StopHolds
  <2>15. CASE Unlist
    BY <2>15 DEF Unlist, TypeOK, Places, OneTransmitter, Redirection,
       Emptied, Stopping, Woken, Locked, Space, Loop, Return, Redirecting,
       Replaying, Waking, Room, StopHolds
  <2>16. CASE AllocFails
    BY <2>16 DEF AllocFails, TypeOK, Places, OneTransmitter, Redirection,
       Emptied, Stopping, Woken, Locked, Space, Loop, Return, Redirecting,
       Replaying, Waking, Room, StopHolds
  <2>17. CASE EndWork
    BY <2>17 DEF EndWork, TypeOK, Places, OneTransmitter, Redirection,
       Emptied, Stopping, Woken, Locked, Space, Loop, Return, Redirecting,
       Replaying, Waking, Room, StopHolds
  <2> QED
    BY <1>4, <2>1, <2>2, <2>3, <2>4, <2>5, <2>6, <2>7, <2>8, <2>9, <2>10,
       <2>11, <2>12, <2>13, <2>14, <2>15, <2>16, <2>17 DEF Worker
<1>5. CASE OtherStreams
  BY <1>5 DEF OtherStreams, TypeOK, Places, OneTransmitter, Redirection,
       Emptied, Stopping, Woken, Locked, Space, Loop, Return, Redirecting,
       Replaying, Waking, Room, StopHolds
<1>6. CASE UNCHANGED vars
  BY <1>6 DEF TypeOK, Places, OneTransmitter, Redirection, Emptied, Stopping,
       Woken, Locked, Space, Loop, Return, Redirecting, Replaying, Waking,
       Room, StopHolds
<1> QED
  BY <1>1, <1>2, <1>3, <1>4, <1>5, <1>6 DEF Next, Caller

(* A step stops a queue, or leaves it stopped, only for want of space.     *)
LEMMA KeepsCause ==
  ASSUME IInv, Waking, Caused, [Next]_vars
  PROVE  Caused'
<1> USE DEF IInv
<1>1. ASSUME NEW t \in Callers, Enqueue(t) \/ WakeTxQueue(t) \/ AddStream(t)
      PROVE  Caused'
  <2>1. CASE Enqueue(t)
    BY <2>1 DEF Enqueue, TypeOK, Places, OneTransmitter, Redirection,
       Emptied, Stopping, Woken, Locked, Space, Loop, Return, Redirecting,
       Replaying, Caused, Waking
  <2>2. CASE WakeTxQueue(t)
    BY <2>2 DEF WakeTxQueue, TypeOK, Places, OneTransmitter, Redirection,
       Emptied, Stopping, Woken, Locked, Space, Loop, Return, Redirecting,
       Replaying, Caused, Waking
  <2>3. CASE AddStream(t)
    BY <2>3 DEF AddStream, TypeOK, Places, OneTransmitter, Redirection,
       Emptied, Stopping, Woken, Locked, Space, Loop, Return, Redirecting,
       Replaying, Caused, Waking
  <2> QED
    BY <1>1, <2>1, <2>2, <2>3
<1>2. ASSUME NEW t \in Threads, Xmit(t)
      PROVE  Caused'
  <2>1. CASE TakeRequest(t)
    BY <2>1 DEF TakeRequest, TypeOK, Places, OneTransmitter, Redirection,
       Emptied, Stopping, Woken, Locked, Space, Loop, Return, Redirecting,
       Replaying, Caused, Waking
  <2>2. CASE TestState(t)
    BY <2>2 DEF TestState, TypeOK, Places, OneTransmitter, Redirection,
       Emptied, Stopping, Woken, Locked, Space, Loop, Return, Redirecting,
       Replaying, Caused, Waking
  <2>3. CASE Dequeue(t)
    BY <2>3 DEF Dequeue, TypeOK, Places, OneTransmitter, Redirection,
       Emptied, Stopping, Woken, Locked, Space, Loop, Return, Redirecting,
       Replaying, Caused, Waking
  <2>4. CASE NextMpdu(t)
    BY <2>4 DEF NextMpdu, TypeOK, Places, OneTransmitter, Redirection,
       Emptied, Stopping, Woken, Locked, Space, Loop, Return, Redirecting,
       Replaying, Caused, Waking
  <2>5. CASE StopQueue(t)
    BY <2>5 DEF StopQueue, TypeOK, Places, OneTransmitter, Redirection,
       Emptied, Stopping, Woken, Locked, Space, Loop, Return, Redirecting,
       Replaying, Caused, Waking, PutFrame, MustStop
  <2>6. CASE PutAfterStop(t)
    BY <2>6 DEF PutAfterStop, TypeOK, Places, OneTransmitter, Redirection,
       Emptied, Stopping, Woken, Locked, Space, Loop, Return, Redirecting,
       Replaying, Caused, Waking, PutFrame, MustStop
  <2>7. CASE Put(t)
    BY <2>7 DEF Put, TypeOK, Places, OneTransmitter, Redirection, Emptied,
       Stopping, Woken, Locked, Space, Loop, Return, Redirecting, Replaying,
       Caused, Waking, PutFrame, MustStop
  <2>8. CASE DecRequest(t)
    BY <2>8 DEF DecRequest, TypeOK, Places, OneTransmitter, Redirection,
       Emptied, Stopping, Woken, Locked, Space, Loop, Return, Redirecting,
       Replaying, Caused, Waking
  <2> QED
    BY <1>2, <2>1, <2>2, <2>3, <2>4, <2>5, <2>6, <2>7, <2>8 DEF Xmit
<1>3. CASE Reclaimer /\ ~Xmit("reclaim")
  <2>1. CASE Reclaim
    BY <2>1 DEF Reclaim, TypeOK, Places, OneTransmitter, Redirection,
       Emptied, Stopping, Woken, Locked, Space, Loop, Return, Redirecting,
       Replaying, Caused, Waking
  <2>2. CASE NextReplay
    BY <2>2 DEF NextReplay, TypeOK, Places, OneTransmitter, Redirection,
       Emptied, Stopping, Woken, Locked, Space, Loop, Return, Redirecting,
       Replaying, Caused, Waking, PutFrame, MustStop
  <2>3. CASE ReplayPut
    BY <2>3 DEF ReplayPut, TypeOK, Places, OneTransmitter, Redirection,
       Emptied, Stopping, Woken, Locked, Space, Loop, Return, Redirecting,
       Replaying, Caused, Waking, PutFrame, MustStop
  <2>4. CASE WakeQueue("reclaim", "wake_queue", "finish")
    BY <2>4 DEF WakeQueue, TypeOK, Places, OneTransmitter, Redirection,
       Emptied, Stopping, Woken, Locked, Space, Loop, Return, Redirecting,
       Replaying, Caused, Waking
  <2>5. CASE ClearFull("reclaim")
    BY <2>5 DEF ClearFull, TypeOK, Places, OneTransmitter, Redirection,
       Emptied, Stopping, Woken, Locked, Space, Loop, Return, Redirecting,
       Replaying, Caused, Waking
  <2>6. CASE FinishReclaim
    BY <2>6 DEF FinishReclaim, TypeOK, Places, OneTransmitter, Redirection,
       Emptied, Stopping, Woken, Locked, Space, Loop, Return, Redirecting,
       Replaying, Caused, Waking
  <2> QED
    BY <1>3, <2>1, <2>2, <2>3, <2>4, <2>5, <2>6 DEF Reclaimer
<1>4. CASE Worker /\ ~Xmit("worker")
  <2>1. CASE StartWork
    BY <2>1 DEF StartWork, TypeOK, Places, OneTransmitter, Redirection,
       Emptied, Stopping, Woken, Locked, Space, Loop, Return, Redirecting,
       Replaying, Caused, Waking
  <2>2. CASE NothingToUnshare
    BY <2>2 DEF NothingToUnshare, TypeOK, Places, OneTransmitter,
       Redirection, Emptied, Stopping, Woken, Locked, Space, Loop, Return,
       Redirecting, Replaying, Caused, Waking
  <2>3. CASE BeginRedirect
    BY <2>3 DEF BeginRedirect, TypeOK, Places, OneTransmitter, Redirection,
       Emptied, Stopping, Woken, Locked, Space, Loop, Return, Redirecting,
       Replaying, Caused, Waking
  <2>4. CASE DrainOverflow
    BY <2>4 DEF DrainOverflow, TypeOK, Places, OneTransmitter, Redirection,
       Emptied, Stopping, Woken, Locked, Space, Loop, Return, Redirecting,
       Replaying, Caused, Waking
  <2>5. CASE DrainRing
    BY <2>5 DEF DrainRing, TypeOK, Places, OneTransmitter, Redirection,
       Emptied, Stopping, Woken, Locked, Space, Loop, Return, Redirecting,
       Replaying, Caused, Waking
  <2>6. CASE DrainTimeout
    BY <2>6 DEF DrainTimeout, TypeOK, Places, OneTransmitter, Redirection,
       Emptied, Stopping, Woken, Locked, Space, Loop, Return, Redirecting,
       Replaying, Caused, Waking
  <2>7. CASE DisableQueue
    BY <2>7 DEF DisableQueue, TypeOK, Places, OneTransmitter, Redirection,
       Emptied, Stopping, Woken, Locked, Space, Loop, Return, Redirecting,
       Replaying, Caused, Waking
  <2>8. CASE Unmap
    BY <2>8 DEF Unmap, TypeOK, Places, OneTransmitter, Redirection, Emptied,
       Stopping, Woken, Locked, Space, Loop, Return, Redirecting, Replaying,
       Caused, Waking
  <2>9. CASE WakeQueue("worker", "unmap_wake", "command")
    BY <2>9 DEF WakeQueue, TypeOK, Places, OneTransmitter, Redirection,
       Emptied, Stopping, Woken, Locked, Space, Loop, Return, Redirecting,
       Replaying, Caused, Waking
  <2>10. CASE Command
    BY <2>10 DEF Command, TypeOK, Places, OneTransmitter, Redirection,
       Emptied, Stopping, Woken, Locked, Space, Loop, Return, Redirecting,
       Replaying, Caused, Waking
  <2>11. CASE ClearFull("worker")
    BY <2>11 DEF ClearFull, TypeOK, Places, OneTransmitter, Redirection,
       Emptied, Stopping, Woken, Locked, Space, Loop, Return, Redirecting,
       Replaying, Caused, Waking
  <2>12. CASE EnableQueue
    BY <2>12 DEF EnableQueue, TypeOK, Places, OneTransmitter, Redirection,
       Emptied, Stopping, Woken, Locked, Space, Loop, Return, Redirecting,
       Replaying, Caused, Waking
  <2>13. CASE EndRedirect
    BY <2>13 DEF EndRedirect, TypeOK, Places, OneTransmitter, Redirection,
       Emptied, Stopping, Woken, Locked, Space, Loop, Return, Redirecting,
       Replaying, Caused, Waking
  <2>14. CASE AllocQueue
    BY <2>14 DEF AllocQueue, TypeOK, Places, OneTransmitter, Redirection,
       Emptied, Stopping, Woken, Locked, Space, Loop, Return, Redirecting,
       Replaying, Caused, Waking
  <2>15. CASE Unlist
    BY <2>15 DEF Unlist, TypeOK, Places, OneTransmitter, Redirection,
       Emptied, Stopping, Woken, Locked, Space, Loop, Return, Redirecting,
       Replaying, Caused, Waking
  <2>16. CASE AllocFails
    BY <2>16 DEF AllocFails, TypeOK, Places, OneTransmitter, Redirection,
       Emptied, Stopping, Woken, Locked, Space, Loop, Return, Redirecting,
       Replaying, Caused, Waking
  <2>17. CASE EndWork
    BY <2>17 DEF EndWork, TypeOK, Places, OneTransmitter, Redirection,
       Emptied, Stopping, Woken, Locked, Space, Loop, Return, Redirecting,
       Replaying, Caused, Waking
  <2> QED
    BY <1>4, <2>1, <2>2, <2>3, <2>4, <2>5, <2>6, <2>7, <2>8, <2>9, <2>10,
       <2>11, <2>12, <2>13, <2>14, <2>15, <2>16, <2>17 DEF Worker
<1>5. CASE OtherStreams
  BY <1>5 DEF OtherStreams, TypeOK, Places, OneTransmitter, Redirection,
       Emptied, Stopping, Woken, Locked, Space, Loop, Return, Redirecting,
       Replaying, Caused, Waking
<1>6. CASE UNCHANGED vars
  BY <1>6 DEF TypeOK, Places, OneTransmitter, Redirection, Emptied, Stopping,
       Woken, Locked, Space, Loop, Return, Redirecting, Replaying, Caused,
       Waking
<1> QED
  BY <1>1, <1>2, <1>3, <1>4, <1>5, <1>6 DEF Next, Caller

(* A queue that is stopped keeps its TID from transmitting, and stays      *)
(* stopped only until enough of its ring is free, if an skb is not cut     *)
(* into more MPDUs than the two marks are apart (queue/tx.c 925-931, 1652, *)
(* 1693; mvm/ops.c 1752-1818).                                             *)
THEOREM StopsMatch == ASSUME SkbFits PROVE Spec => []StopsAgree
<1>1. Init => Waking /\ Caused
  BY DEF Init, Waking, Caused, Woken, Locked, StopHolds, SkbFits
<1>2. IInv /\ Waking /\ Caused /\ [Next]_vars => (Waking /\ Caused)'
  BY KeepsWaking, KeepsCause
<1>3. IInv /\ Waking /\ Caused => StopsAgree
  <2> SUFFICES ASSUME IInv, Waking, Caused PROVE StopsAgree
    OBVIOUS
  <2>1. StopIsUndone /\ StopHolds
    BY DEF IInv, Waking
  <2>2. ReplayNeedsNoStop
    BY IInvReplays
  <2>3. StopHasCause
    BY DEF IInv, Redirection, Redirecting, Caused, StopHasCause, Replaying
  <2> QED
    BY <2>1, <2>2, <2>3 DEF StopsAgree
<1> QED
  BY Invariant, <1>1, <1>2, <1>3, PTL DEF Spec
=============================================================================
