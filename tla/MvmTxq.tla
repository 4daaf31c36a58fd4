------------------------------- MODULE MvmTxq -------------------------------
(***************************************************************************)
(* One transmit queue of the iwlwifi MVM driver: the mac80211 queue of one *)
(* TID of one station, the TFD ring it is sent through, and the contexts   *)
(* that move frames from one to the other (mvm/mac80211.c, mvm/sta.c,      *)
(* mvm/ops.c, queue/tx.c, pcie/tx.c).  Frames are counted, not named.      *)
(***************************************************************************)
EXTENDS Integers

CONSTANTS
  Callers,        \* contexts in which mac80211 hands frames to the driver
  MaxWaiting,     \* bound on the frames waiting in mac80211's queue
  MaxOverflow,    \* bound on the overflow queue
  Segments,       \* the most MPDUs one skb is cut into
  Window,         \* slots of the ring (n_window)
  HighMark,       \* txq->high_mark: stop below this much space
  LowMark,        \* txq->low_mark: wake above this much space
  Reserve,        \* slots kept free: the overflow queue is used below (3)
  Events          \* subset of {"alloc_fail", "redirect"}

Threads == Callers \cup {"worker", "reclaim"}

ASSUME CallersAssumption == Callers \cap {"worker", "reclaim"} = {}
ASSUME SizesAssumption ==
  /\ MaxWaiting \in Nat /\ MaxOverflow \in Nat /\ Segments \in Nat \ {0}
  /\ Window \in Nat /\ HighMark \in Nat /\ LowMark \in Nat /\ Reserve \in Nat
  /\ HighMark <= LowMark /\ LowMark < Window /\ HighMark < Window
  /\ HighMark > 0 /\ Reserve > 0

VARIABLES
  waiting,        \* skbs in mac80211's queue of the TID
  tx_request,     \* mvmtxq->tx_request
  ready,          \* IWL_MVM_TXQ_STATE_READY
  full,           \* IWL_MVM_TXQ_STATE_STOP_FULL
  redirect,       \* IWL_MVM_TXQ_STATE_STOP_REDIRECT
  listed,         \* on mvm->add_stream_txqs
  add_stream_wk,  \* the work is pending
  queue_used, queue_stopped,  \* the queue's bits in trans->txqs
  ring,           \* TFDs between read_ptr and write_ptr
  overflow_q,     \* frames in txq->overflow_q
  overflow_tx,    \* txq->overflow_tx
  replay,         \* frames in the reclaimer's overflow_skbs
  mpdus,          \* MPDUs of the skb each thread is sending
  pc,             \* where each thread is
  parked          \* history: the last redirect or failure left frames alone

bits   == <<ready, full, redirect>>
stream == <<listed, add_stream_wk>>
tfds   == <<queue_used, queue_stopped, ring, overflow_q>>
over   == <<overflow_tx, replay>>
vars   == <<waiting, tx_request, bits, stream, tfds, over, mpdus, pc, parked>>

Points ==
  {"idle", "wake", "list", "xmit", "test", "dequeue", "mpdu", "tx", "stop", "dec",
   "inactivity", "drain", "drained", "disable", "unmap", "unmap_wake",
   "clear", "command", "enable", "reconfig", "redirected", "streams", "unlist",
   "replay", "retx", "wake_queue", "finish"}

TypeOK ==
  /\ waiting \in 0..MaxWaiting /\ tx_request \in 0..2
  /\ ready \in BOOLEAN /\ full \in BOOLEAN /\ redirect \in BOOLEAN
  /\ listed \in BOOLEAN /\ add_stream_wk \in BOOLEAN /\ parked \in BOOLEAN
  /\ queue_used \in BOOLEAN /\ queue_stopped \in BOOLEAN /\ overflow_tx \in BOOLEAN
  /\ ring \in 0..Window /\ overflow_q \in 0..MaxOverflow /\ replay \in 0..MaxOverflow
  /\ mpdus \in [Threads -> 0..Segments]
  /\ pc \in [Threads -> Points]

Init ==
  /\ waiting = 0 /\ tx_request = 0
  /\ ready = FALSE /\ full = FALSE /\ redirect = FALSE
  /\ listed = FALSE /\ add_stream_wk = FALSE
  /\ queue_used = FALSE /\ queue_stopped = FALSE /\ ring = 0 /\ overflow_q = 0
  /\ overflow_tx = FALSE /\ replay = 0
  /\ mpdus = [t \in Threads |-> 0]
  /\ pc = [t \in Threads |-> "idle"]
  /\ parked = FALSE

-----------------------------------------------------------------------------
At(t, p) == pc[t] = p
Goto(t, p) == pc' = [pc EXCEPT ![t] = p]

Locked == \E t \in Threads : pc[t] = "stop"   \* txq->lock is held
Space == Window - ring                         \* iwl_txq_space

\* Threads in the loop of iwl_mvm_mac_itxq_xmit, and where they return to.
Loop == {"test", "dequeue", "mpdu", "tx", "stop", "dec"}
Return(t) == CASE t \in Callers -> "idle"
               [] t = "reclaim" -> "finish"
               [] t = "worker" -> IF redirect THEN "command" ELSE "streams"

(***************************************************************************)
(* Somebody is going to look at the queue: a caller or a transmitter that  *)
(* has not yet found it empty, a transmitter asked for another round, the  *)
(* worker of a listed queue, or whoever wakes a stopped one.               *)
(***************************************************************************)
LookedAfter ==
  \/ tx_request = 2
  \/ \E t \in Threads : pc[t] \in {"wake", "xmit"} \cup (Loop \ {"dec"})
  \/ ~ready /\ \E t \in Threads : pc[t] = "list"
  \/ listed /\ (add_stream_wk \/ pc["worker"] # "idle")
  \/ queue_stopped
  \/ \E t \in Threads : pc[t] = "clear"

-----------------------------------------------------------------------------
(***************************************************************************)
(* mac80211 queues a frame and calls wake_tx_queue.                        *)
(***************************************************************************)
Enqueue(t) ==
  /\ At(t, "idle") /\ waiting < MaxWaiting
  /\ waiting' = waiting + 1
  /\ Goto(t, "wake")
  /\ parked' = FALSE
  /\ UNCHANGED <<tx_request, bits, stream, tfds, over, mpdus>>

WakeTxQueue(t) ==
  /\ At(t, "wake")
  /\ Goto(t, IF ready THEN "xmit" ELSE "list")
  /\ UNCHANGED <<waiting, tx_request, bits, stream, tfds, over, mpdus, parked>>

\* The second half of iwl_mvm_mac_wake_tx_queue, under add_stream_lock.
AddStream(t) ==
  /\ At(t, "list")
  /\ Goto(t, "idle")
  /\ IF ~listed /\ ~ready
     THEN listed' = TRUE /\ add_stream_wk' = TRUE
     ELSE UNCHANGED stream
  /\ UNCHANGED <<waiting, tx_request, bits, tfds, over, mpdus, parked>>

-----------------------------------------------------------------------------
\* Mutant: a caller goes in although another is in, unless two are.
MutTakeRequest(t) ==
  /\ At(t, "xmit")
  /\ tx_request' = IF tx_request = 2 THEN 2 ELSE tx_request + 1
  /\ Goto(t, IF tx_request < 2 THEN "test" ELSE Return(t))
  /\ UNCHANGED <<waiting, bits, stream, tfds, over, mpdus, parked>>

(***************************************************************************)
(* iwl_mvm_mac_itxq_xmit                                                   *)
(***************************************************************************)
TakeRequest(t) ==
  /\ At(t, "xmit")
  /\ tx_request' = IF tx_request = 2 THEN 2 ELSE tx_request + 1
  /\ Goto(t, IF tx_request = 0 THEN "test" ELSE Return(t))
  /\ UNCHANGED <<waiting, bits, stream, tfds, over, mpdus, parked>>

TestState(t) ==
  /\ At(t, "test")
  /\ Goto(t, IF full \/ redirect THEN "dec" ELSE "dequeue")
  /\ UNCHANGED <<waiting, tx_request, bits, stream, tfds, over, mpdus, parked>>

Dequeue(t) ==
  /\ At(t, "dequeue")
  /\ IF waiting = 0
     THEN Goto(t, "dec") /\ UNCHANGED <<waiting, mpdus>>
     ELSE /\ waiting' = waiting - 1
          /\ \E n \in 1..Segments : mpdus' = [mpdus EXCEPT ![t] = n]
          /\ Goto(t, "mpdu")
  /\ UNCHANGED <<tx_request, bits, stream, tfds, over, parked>>

\* iwl_mvm_tx_skb_sta: the next MPDU; after an error the rest is purged.
NextMpdu(t) ==
  /\ At(t, "mpdu")
  /\ IF mpdus[t] > 0 /\ queue_used
     THEN Goto(t, "tx") /\ UNCHANGED mpdus
     ELSE Goto(t, "test") /\ mpdus' = [mpdus EXCEPT ![t] = 0]
  /\ UNCHANGED <<waiting, tx_request, bits, stream, tfds, over, parked>>

(***************************************************************************)
(* iwl_trans_pcie_tx under txq->lock: stop a queue that runs out of space, *)
(* and put the frame on the ring or, with no room left, in the overflow    *)
(* queue.                                                                  *)
(***************************************************************************)
MustStop == Space < HighMark /\ ~queue_stopped

\* Mutant: the overflow queue is not used.
MutPutFrame == ring' = ring + 1 /\ overflow_q' = overflow_q

PutFrame ==
  IF Space < HighMark /\ Space < Reserve
  THEN overflow_q < MaxOverflow /\ overflow_q' = overflow_q + 1 /\ ring' = ring
  ELSE ring' = ring + 1 /\ overflow_q' = overflow_q

StopQueue(t) ==
  /\ At(t, "tx") /\ ~Locked /\ MustStop
  /\ queue_stopped' = TRUE
  /\ Goto(t, "stop")
  /\ UNCHANGED <<waiting, tx_request, bits, stream, queue_used, ring, overflow_q,
                 over, mpdus, parked>>

\* Mutant: the op mode does not stop the TID.
MutPutAfterStop(t) ==
  /\ At(t, "stop")
  /\ PutFrame
  /\ mpdus' = [mpdus EXCEPT ![t] = @ - 1]
  /\ Goto(t, "mpdu")
  /\ UNCHANGED <<waiting, tx_request, bits, stream, queue_used, queue_stopped,
                 over, parked>>

\* iwl_mvm_queue_state_change(stop), then the rest of iwl_trans_pcie_tx
PutAfterStop(t) ==
  /\ At(t, "stop")
  /\ full' = TRUE
  /\ PutFrame
  /\ mpdus' = [mpdus EXCEPT ![t] = @ - 1]
  /\ Goto(t, "mpdu")
  /\ UNCHANGED <<waiting, tx_request, ready, redirect, stream, queue_used,
                 queue_stopped, over, parked>>

Put(t) ==
  /\ At(t, "tx") /\ ~Locked /\ ~MustStop
  /\ PutFrame
  /\ mpdus' = [mpdus EXCEPT ![t] = @ - 1]
  /\ Goto(t, "mpdu")
  /\ UNCHANGED <<waiting, tx_request, bits, stream, queue_used, queue_stopped,
                 over, parked>>

\* Mutant: the transmitter resets the counter and leaves.
MutDecRequest(t) ==
  /\ At(t, "dec")
  /\ tx_request' = 0
  /\ Goto(t, Return(t))
  /\ UNCHANGED <<waiting, bits, stream, tfds, over, mpdus, parked>>

DecRequest(t) ==
  /\ At(t, "dec")
  /\ tx_request' = tx_request - 1
  /\ Goto(t, IF tx_request = 1 THEN Return(t) ELSE "test")
  /\ UNCHANGED <<waiting, bits, stream, tfds, over, mpdus, parked>>

Xmit(t) ==
  \/ TakeRequest(t) \/ TestState(t) \/ Dequeue(t) \/ NextMpdu(t)
  \/ StopQueue(t) \/ PutAfterStop(t) \/ Put(t) \/ DecRequest(t)

-----------------------------------------------------------------------------
(***************************************************************************)
(* iwl_txq_reclaim, called for responses of the firmware                   *)
(***************************************************************************)
Reclaim ==
  /\ At("reclaim", "idle") /\ ~Locked /\ queue_used
  /\ \E n \in 1..ring :
       /\ ring' = ring - n
       /\ IF Window - (ring - n) > LowMark /\ queue_stopped
          THEN /\ replay' = overflow_q /\ overflow_q' = 0
               /\ overflow_tx' = TRUE
               /\ Goto("reclaim", "replay")
          ELSE UNCHANGED <<overflow_q, over, pc>>
  /\ UNCHANGED <<waiting, tx_request, bits, stream, queue_used, queue_stopped,
                 mpdus, parked>>

\* The loop over overflow_skbs; iwl_trans_tx refuses an unused queue.
NextReplay ==
  /\ At("reclaim", "replay")
  /\ \/ replay > 0 /\ queue_used /\ Goto("reclaim", "retx") /\ UNCHANGED replay
     \/ replay > 0 /\ ~queue_used /\ replay' = replay - 1 /\ UNCHANGED pc
     \/ /\ replay = 0 /\ UNCHANGED replay
        /\ Goto("reclaim", IF Space > LowMark THEN "wake_queue" ELSE "finish")
  /\ UNCHANGED <<waiting, tx_request, bits, stream, tfds, overflow_tx, mpdus, parked>>

\* iwl_trans_pcie_tx again.  That it need not stop the queue is the property
\* ReplayNeedsNoStop.
ReplayPut ==
  /\ At("reclaim", "retx") /\ ~Locked
  /\ PutFrame
  /\ replay' = replay - 1
  /\ Goto("reclaim", "replay")
  /\ UNCHANGED <<waiting, tx_request, bits, stream, queue_used, queue_stopped,
                 overflow_tx, mpdus, parked>>

\* iwl_wake_queue: the bit, then iwl_mvm_queue_state_change(start).
WakeQueue(t, from, none) ==
  /\ At(t, from)
  /\ queue_stopped' = FALSE
  /\ Goto(t, IF queue_stopped THEN "clear" ELSE none)
  /\ UNCHANGED <<waiting, tx_request, bits, stream, queue_used, ring, overflow_q,
                 over, mpdus, parked>>

\* Mutants: the TID is not told, or is told and its queue not looked at.
MutClearFull(t) ==
  /\ At(t, "clear")
  /\ Goto(t, "xmit")
  /\ UNCHANGED <<waiting, tx_request, bits, stream, tfds, over, mpdus, parked>>

MutNoXmit(t) ==
  /\ At(t, "clear")
  /\ full' = FALSE
  /\ Goto(t, Return(t))
  /\ UNCHANGED <<waiting, tx_request, ready, redirect, stream, tfds, over, mpdus, parked>>

ClearFull(t) ==
  /\ At(t, "clear")
  /\ full' = FALSE
  /\ Goto(t, "xmit")
  /\ UNCHANGED <<waiting, tx_request, ready, redirect, stream, tfds, over, mpdus, parked>>

FinishReclaim ==
  /\ At("reclaim", "finish") /\ ~Locked
  /\ overflow_tx' = FALSE
  /\ Goto("reclaim", "idle")
  /\ UNCHANGED <<waiting, tx_request, bits, stream, tfds, replay, mpdus, parked>>

Reclaimer ==
  \/ Reclaim \/ NextReplay \/ ReplayPut
  \/ WakeQueue("reclaim", "wake_queue", "finish") \/ ClearFull("reclaim")
  \/ Xmit("reclaim") \/ FinishReclaim

-----------------------------------------------------------------------------
(***************************************************************************)
(* iwl_mvm_add_new_dqa_stream_wk, holding mvm->mutex.  Other TIDs and      *)
(* stations schedule it too.                                               *)
(***************************************************************************)
OtherStreams ==
  /\ "redirect" \in Events /\ ~add_stream_wk
  /\ add_stream_wk' = TRUE
  /\ UNCHANGED <<waiting, tx_request, bits, listed, tfds, over, mpdus, pc, parked>>

StartWork ==
  /\ At("worker", "idle") /\ add_stream_wk
  /\ add_stream_wk' = FALSE
  /\ Goto("worker", "inactivity")
  /\ UNCHANGED <<waiting, tx_request, bits, listed, tfds, over, mpdus, parked>>

\* iwl_mvm_inactivity_check: our TID is not, or is, the last one left on a
\* shared queue.
NothingToUnshare ==
  /\ At("worker", "inactivity")
  /\ Goto("worker", "streams")
  /\ UNCHANGED <<waiting, tx_request, bits, stream, tfds, over, mpdus, parked>>

\* iwl_mvm_redirect_queue
BeginRedirect ==
  /\ "redirect" \in Events
  /\ At("worker", "inactivity") /\ ready
  /\ redirect' = TRUE
  /\ Goto("worker", "drain")
  /\ UNCHANGED <<waiting, tx_request, ready, full, stream, tfds, over, mpdus, parked>>

\* iwl_trans_pcie_wait_txq_empty reads overflow_tx and overflow_q, and later
\* the two pointers.  It gives up when the ring still grows, or after a while,
\* and then goes by the pointers alone.
DrainOverflow ==
  /\ At("worker", "drain") /\ ~Locked
  /\ ~overflow_tx /\ overflow_q = 0
  /\ Goto("worker", "drained")
  /\ UNCHANGED <<waiting, tx_request, bits, stream, tfds, over, mpdus, parked>>

DrainRing ==
  /\ At("worker", "drained")
  /\ Goto("worker", IF ring = 0 THEN "disable" ELSE "drain")
  /\ UNCHANGED <<waiting, tx_request, bits, stream, tfds, over, mpdus, parked>>

DrainTimeout ==
  /\ At("worker", "drain")
  /\ Goto("worker", IF ring = 0 THEN "disable" ELSE "redirected")
  /\ UNCHANGED <<waiting, tx_request, bits, stream, tfds, over, mpdus, parked>>

DisableQueue ==
  /\ At("worker", "disable")
  /\ queue_used' = FALSE
  /\ Goto("worker", "unmap")
  /\ UNCHANGED <<waiting, tx_request, bits, stream, queue_stopped, ring, overflow_q,
                 over, mpdus, parked>>

Unmap ==
  /\ At("worker", "unmap") /\ ~Locked
  /\ ring' = 0 /\ overflow_q' = 0
  /\ Goto("worker", "unmap_wake")
  /\ UNCHANGED <<waiting, tx_request, bits, stream, queue_used, queue_stopped,
                 over, mpdus, parked>>

\* A synchronous command to the firmware returns when the context that also
\* calls iwl_txq_reclaim has handled its response.
Command ==
  /\ pc["reclaim"] = "idle"
  /\ \/ At("worker", "command") /\ Goto("worker", "enable")
     \/ At("worker", "reconfig") /\ Goto("worker", "redirected")
  /\ UNCHANGED <<waiting, tx_request, bits, stream, tfds, over, mpdus, parked>>

\* iwl_trans_pcie_txq_enable sets both pointers to the sequence number.
EnableQueue ==
  /\ At("worker", "enable")
  /\ queue_used' = TRUE /\ ring' = 0
  /\ Goto("worker", "reconfig")
  /\ UNCHANGED <<waiting, tx_request, bits, stream, queue_stopped, overflow_q,
                 over, mpdus, parked>>

EndRedirect ==
  /\ At("worker", "redirected")
  /\ redirect' = FALSE
  /\ parked' = (waiting > 0 /\ ~LookedAfter)
  /\ Goto("worker", "streams")
  /\ UNCHANGED <<waiting, tx_request, ready, full, stream, tfds, over, mpdus>>

\* iwl_mvm_sta_alloc_queue for the listed queue: it works, or it does not.
\* Which hardware queue it chooses makes no difference to this TID, nor does
\* the redirect of a shared one, as a TID that is not READY does not transmit.
AllocQueue ==
  /\ At("worker", "streams") /\ listed
  /\ ready' = TRUE /\ queue_used' = TRUE
  /\ Goto("worker", "unlist")
  /\ UNCHANGED <<waiting, tx_request, full, redirect, stream, queue_stopped, ring,
                 overflow_q, over, mpdus, parked>>

Unlist ==
  /\ At("worker", "unlist")
  /\ listed' = FALSE
  /\ Goto("worker", "xmit")
  /\ UNCHANGED <<waiting, tx_request, bits, add_stream_wk, tfds, over, mpdus, parked>>

AllocFails ==
  /\ "alloc_fail" \in Events
  /\ At("worker", "streams") /\ listed
  /\ listed' = FALSE
  /\ UNCHANGED <<waiting, tx_request, bits, add_stream_wk, tfds, over, mpdus, pc>>
  /\ parked' = (waiting > 0 /\ ~LookedAfter')

EndWork ==
  /\ At("worker", "streams") /\ ~listed
  /\ Goto("worker", "idle")
  /\ UNCHANGED <<waiting, tx_request, bits, stream, tfds, over, mpdus, parked>>

Worker ==
  \/ StartWork \/ NothingToUnshare \/ BeginRedirect
  \/ DrainOverflow \/ DrainRing \/ DrainTimeout \/ DisableQueue \/ Unmap
  \/ WakeQueue("worker", "unmap_wake", "command") \/ Command \/ ClearFull("worker")
  \/ EnableQueue \/ EndRedirect
  \/ AllocQueue \/ Unlist \/ AllocFails \/ EndWork
  \/ Xmit("worker")

-----------------------------------------------------------------------------
Caller(t) == WakeTxQueue(t) \/ AddStream(t) \/ Xmit(t)

Next ==
  \/ \E t \in Callers : Enqueue(t) \/ Caller(t)
  \/ Reclaimer
  \/ OtherStreams \/ Worker

Spec == Init /\ [][Next]_vars

(***************************************************************************)
(* Every context that has begun goes on, the lock is handed over fairly,   *)
(* the firmware answers for what is on the ring, and the worker is run.    *)
(***************************************************************************)
Fairness ==
  /\ \A t \in Callers : SF_vars(Caller(t))
  /\ SF_vars(Reclaimer)
  /\ SF_vars(Worker)

FairSpec == Spec /\ Fairness

-----------------------------------------------------------------------------
(***************************************************************************)
(* Of the contexts that call iwl_mvm_mac_itxq_xmit, one at a time takes    *)
(* frames: tx_request lets the first in and counts the others.             *)
(***************************************************************************)
OneTransmitter ==
  \A t, u \in Threads : pc[t] \in Loop /\ pc[u] \in Loop => t = u

(***************************************************************************)
(* "in order to not leave any TX hanging in the queue": while frames wait  *)
(* somebody is going to look at the queue.  This is the promise of the     *)
(* comment at mvm/mac80211.c 884-891, for every context there is.          *)
(***************************************************************************)
NoneHanging == waiting > 0 => LookedAfter \/ redirect

(***************************************************************************)
(* The same, with the two exceptions of the code: frames that waited when  *)
(* a queue was redirected or could not be allocated stay until the next.   *)
(***************************************************************************)
NoneForgotten == waiting > 0 => LookedAfter \/ redirect \/ parked

(***************************************************************************)
(* A TID whose STOP_FULL is set has a stopped hardware queue, whose wake   *)
(* will clear the bit, or the wake is just doing so, although the stop     *)
(* holds txq->lock and the wake does not.                                  *)
(***************************************************************************)
StopIsUndone == full => queue_stopped \/ \E t \in Threads : pc[t] = "clear"

(***************************************************************************)
(* A stopped hardware queue keeps its TID from transmitting: the wake of   *)
(* the reclaim does not undo a stop that comes after it.                   *)
(***************************************************************************)
StopHolds == queue_stopped => full \/ Locked

(***************************************************************************)
(* The frames of the overflow queue are sent while the queue is stopped:   *)
(* iwl_txq_stop has nothing to do for them, so that no second stop runs    *)
(* beside the wake that ends the replay.                                   *)
(***************************************************************************)
ReplayNeedsNoStop == pc["reclaim"] = "retx" => ~MustStop

(***************************************************************************)
(* A queue stays stopped only while its ring is filled enough for another  *)
(* response of the firmware to wake it (queue/tx.c 1652 and 1693).         *)
(***************************************************************************)
StopHasCause ==
  queue_stopped /\ ~Locked /\ pc["reclaim"] = "idle" /\ ~redirect => Space <= LowMark

(***************************************************************************)
(* The queue's bit and the TID's bit, which are not changed together, end  *)
(* up telling the same: who waits is woken, and only who must waits.       *)
(***************************************************************************)
StopsAgree == StopIsUndone /\ StopHolds /\ ReplayNeedsNoStop /\ StopHasCause

(***************************************************************************)
(* A frame that waits is followed by one handed to the transport, unless   *)
(* frames are left to the next caller.                                     *)
(***************************************************************************)
Served == waiting > 0 ~> parked \/ \E t \in Threads : pc[t] = "mpdu"
=============================================================================
