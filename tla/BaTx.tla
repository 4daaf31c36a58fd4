-------------------------------- MODULE BaTx --------------------------------
(***************************************************************************)
(* The originator side of a Block-Ack session of mac80211: how one station *)
(* entry and one TID get from plain transmission to aggregation and back   *)
(* (agg-tx.c, the worker and the teardown in ht.c, the TXQ side in tx.c,   *)
(* the destruction of the station in sta_info.c).                          *)
(*                                                                         *)
(* Four parties interleave:                                                *)
(*  - the holder of the wiphy mutex: the worker ieee80211_ba_session_work, *)
(*    the handling of the peer's ADDBA response and DELBA, the teardowns   *)
(*    for a rekey, a suspend or the removal of the station.  One of them   *)
(*    runs at a time; pc says how far it has come.  Where it takes         *)
(*    sta->lock, calls the driver or waits in synchronize_net() is a step  *)
(*    of its own, because the other parties run in between;                *)
(*  - softirq callers of ieee80211_start/stop_tx_ba_session() and timers;  *)
(*  - the driver, that reports back through the *_cb_irqsafe() functions;  *)
(*  - the transmitter that takes frames from the TID's TXQ.                *)
(*                                                                         *)
(* A struct tid_ampdu_tx is named by the serial number of its allocation,  *)
(* 0 being NULL; its dialog token is that number modulo TokenMod.          *)
(***************************************************************************)
EXTENDS Naturals

CONSTANTS
  MaxStarts,          \* bound: sessions allocated
  TokenMod,           \* range of the u8 dialog_token (256 in the code)
  SeqMod,             \* range of the sequence numbers (4096 in the code)
  HT_AGG_MAX_RETRIES, \* unanswered requests before start is refused (15)
  Events              \* which of AllEvents the environment may cause

AllEvents == {"fragment", "stop", "timeout", "delba", "block", "destroy"}

ASSUME BaTxAssumption ==
  /\ MaxStarts \in Nat /\ TokenMod \in Nat \ {0} /\ SeqMod \in Nat \ {0}
  /\ HT_AGG_MAX_RETRIES \in Nat
  /\ Events \subseteq AllEvents

Sessions == 1 .. MaxStarts
NULL     == 0

(* The bits of tid_ampdu_tx.state, HT_AGG_STATE_*. *)
StateBits == {"DRV_READY", "RESPONSE_RECEIVED", "OPERATIONAL", "STOPPING",
              "WANT_START", "WANT_STOP", "START_CB", "STOP_CB", "SENT_ADDBA"}

(* enum ieee80211_agg_stop_reason *)
StopReasons == {"DECLINED", "LOCAL_REQUEST", "PEER_REQUEST", "DESTROY_STA"}

(* Where the holder of the wiphy mutex is. *)
WiphyPoints ==
  {"idle", "requeue", "handle_start", "ask_driver", "drv_start", "splice_fail",
   "send_addba", "start_cb", "drv_oper", "mark_oper", "resp_done",
   "txq_on", "txq_off", "txq_go", "want_stop", "stop", "stop_wait", "drv_stop",
   "drv_flush", "stop_cb_bit", "stop_cb", "send_delba",
   "cancel", "unlink", "destroy_sync", "free"}

VARIABLES
  (* sta->ampdu_mlme *)
  tid_start_tx,   \* the session waiting for the worker
  tid_tx,         \* the live session
  allocator,      \* sessions allocated so far (dialog_token_allocator)
  addba_req_num,  \* requests sent since the last positive response
  work,           \* is the worker queued?
  (* *tid_tx *)
  state, ssn, stop_reason, addba_resp_timer, session_timer,
  (* the station *)
  block_ba,       \* WLAN_STA_BLOCK_BA
  sta,            \* "inserted", "unlinked" from the hash, or "freed"
  (* the TXQ of the TID, sta->tid_seq[tid] and its transmitter *)
  txq_stop, txq_ampdu, frags, tid_seq, tx,
  (* control *)
  pc, back, reason, send_delba,  \* the wiphy mutex holder: point and locals
  req,            \* the softirq caller of start/stop_tx_ba_session()
  gp,             \* the readers synchronize_net() is waiting for
  (* outside *)
  drv,            \* the driver's state for this TID
  answer          \* what has become of each session's ADDBA at the peer

mlme  == <<tid_start_tx, tid_tx, allocator, addba_req_num>>
sess  == <<state, ssn, stop_reason, addba_resp_timer, session_timer>>
stn   == <<block_ba, sta>>
txq   == <<txq_stop, txq_ampdu, frags, tid_seq, tx>>
ctl   == <<pc, back, reason>>
air   == <<send_delba, answer>>
vars  == <<mlme, work, sess, stn, txq, ctl, req, gp, drv, air>>

MlmeType ==
  /\ tid_start_tx \in 0 .. MaxStarts /\ tid_tx \in 0 .. MaxStarts
  /\ allocator \in 0 .. MaxStarts /\ addba_req_num \in Nat

SessionType ==
  /\ state \subseteq StateBits /\ ssn \in 0 .. SeqMod - 1
  /\ stop_reason \in StopReasons
  /\ addba_resp_timer \in BOOLEAN /\ session_timer \in BOOLEAN

TxqType ==
  /\ block_ba \in BOOLEAN /\ sta \in {"inserted", "unlinked", "freed"}
  /\ txq_stop \in BOOLEAN /\ txq_ampdu \in BOOLEAN /\ frags \in {0, 1}
  /\ tid_seq \in 0 .. SeqMod - 1
  /\ tx \in {"idle", "taken", "plain", "ampdu", "frag"}

ControlType ==
  /\ work \in BOOLEAN
  /\ pc \in WiphyPoints /\ back \in WiphyPoints /\ reason \in StopReasons
  /\ send_delba \in BOOLEAN
  /\ req \in {"idle", "held", "checked"} /\ gp \subseteq {"tx", "req"}
  /\ drv \in {"idle", "starting", "ready", "operational", "stopping", "flushed"}
  /\ answer \in [Sessions -> {"none", "asked", "accepted", "declined"}]

TypeOK == MlmeType /\ SessionType /\ TxqType /\ ControlType

(* An inserted station that has never aggregated on the TID. *)
Init ==
  /\ tid_start_tx = NULL /\ tid_tx = NULL /\ allocator = 0 /\ addba_req_num = 0
  /\ work = FALSE
  /\ state = {} /\ ssn = 0 /\ stop_reason = "LOCAL_REQUEST"
  /\ addba_resp_timer = FALSE /\ session_timer = FALSE
  /\ block_ba = FALSE /\ sta = "inserted"
  /\ txq_stop = FALSE /\ txq_ampdu = FALSE /\ frags = 0 /\ tid_seq = 0 /\ tx = "idle"
  /\ pc = "idle" /\ back = "idle" /\ reason = "LOCAL_REQUEST"
  /\ send_delba = FALSE
  /\ req = "idle" /\ gp = {}
  /\ drv = "idle"
  /\ answer = [s \in Sessions |-> "none"]

-----------------------------------------------------------------------------
(* Shorthands. *)

(* A mutant of the code: the token of a response is not looked at. *)
MutToken(s) == 0

(* The dialog token of session s. *)
Token(s) == s % TokenMod

Is(bit)  == bit \in state
Stopped  == Is("STOPPING") \/ Is("WANT_STOP")

(* A mutant: synchronize_net() left out. *)
MutOpenReaders == {}

(* The read-side sections synchronize_net() finds open when it is called. *)
OpenReaders ==
  (IF tx = "idle" THEN {} ELSE {"tx"}) \cup (IF req = "idle" THEN {} ELSE {"req"})

Goto(p) == pc' = p /\ UNCHANGED <<back, reason>>
Return  == Goto(back)

(* A call of __ieee80211_stop_tx_ba_session(), and where it returns to. *)
CallStop(r, ret) == pc' = "stop" /\ reason' = r /\ back' = ret

(* A mutant: the work is forgotten. *)
MutQueueWork == UNCHANGED work

(* wiphy_work_queue() of sta->ampdu_mlme.work. *)
QueueWork == work' = TRUE

(* The session is freed (kfree_rcu) and no longer to be found. *)
Forget == tid_tx' = NULL /\ state' = {}

(* What every request to stop does under sta->lock (agg-tx.c 883-904). *)
WantStop ==
  IF tid_tx = NULL \/ Is("STOPPING") THEN UNCHANGED <<state, work>>
  ELSE state' = state \cup {"WANT_STOP"} /\ QueueWork

-----------------------------------------------------------------------------
(* Softirq callers.  A caller found the station under rcu_read_lock();     *)
(* synchronize_net() in the station's removal waits for it.                *)

FindStation ==
  /\ req = "idle" /\ sta = "inserted"
  /\ req' = "held"
  /\ UNCHANGED <<mlme, work, sess, stn, txq, ctl, gp, drv, air>>

LeaveReader == req' = "idle" /\ gp' = gp \ {"req"}

(* ieee80211_start_tx_ba_session() up to its test of WLAN_STA_BLOCK_BA,    *)
(* which is made without sta->lock.                                        *)
StartTxBaSessionCheck ==
  /\ req = "held"
  /\ IF block_ba THEN LeaveReader ELSE req' = "checked" /\ UNCHANGED gp
  /\ UNCHANGED <<mlme, work, sess, stn, txq, ctl, drv, air>>

(* The TID is not in the aggregation flow already. *)
SessionIdle == tid_tx = NULL /\ tid_start_tx = NULL

(* The receiver does not want A-MPDU. *)
TooManyRequests == addba_req_num > HT_AGG_MAX_RETRIES

(* The rest of it, under sta->lock.  (That it may also refuse when more    *)
(* than HT_AGG_BURST_RETRIES requests were too close together is the same  *)
(* as not being called.)                                                   *)
StartTxBaSession ==
  /\ req = "checked" /\ LeaveReader
  /\ \/ /\ TooManyRequests \/ ~SessionIdle
        /\ UNCHANGED <<allocator, tid_start_tx, work>>
     \/ /\ ~TooManyRequests /\ SessionIdle
        /\ allocator < MaxStarts
        /\ allocator' = allocator + 1
        /\ tid_start_tx' = allocator + 1
        /\ QueueWork
  /\ UNCHANGED <<tid_tx, addba_req_num, sess, stn, txq, ctl, drv, air>>

(* ieee80211_stop_tx_ba_session() from rate control or debugfs. *)
StopTxBaSession ==
  /\ req = "held" /\ "stop" \in Events
  /\ LeaveReader /\ WantStop
  /\ UNCHANGED <<mlme, ssn, stop_reason, addba_resp_timer, session_timer,
                 stn, txq, ctl, drv, air>>

(* sta_addba_resp_timer_expired() *)
AddbaRespTimerExpired ==
  /\ addba_resp_timer /\ addba_resp_timer' = FALSE
  /\ IF Is("RESPONSE_RECEIVED") THEN UNCHANGED <<state, work>> ELSE WantStop
  /\ UNCHANGED <<mlme, ssn, stop_reason, session_timer, stn, txq, ctl, req, gp, drv, air>>

(* sta_tx_agg_session_timer_expired(), no frame having been sent for the   *)
(* timeout (else it only re-arms itself).                                  *)
SessionTimerExpired ==
  /\ session_timer /\ session_timer' = FALSE /\ "timeout" \in Events
  /\ WantStop
  /\ UNCHANGED <<mlme, ssn, stop_reason, addba_resp_timer, stn, txq, ctl, req, gp, drv, air>>

-----------------------------------------------------------------------------
(* The driver's callbacks.                                                 *)

(* A mutant: the bit is set but nobody is woken to see it. *)
MutCallback(bit) ==
  /\ UNCHANGED work
  /\ state' = IF sta = "inserted" /\ tid_tx # NULL THEN state \cup {bit} ELSE state

(* They look the station up in the hash and ignore a TID without session. *)
Callback(bit) ==
  IF sta = "inserted" /\ tid_tx # NULL
  THEN state' = state \cup {bit} /\ QueueWork
  ELSE UNCHANGED <<state, work>>

(* ieee80211_start_tx_ba_cb_irqsafe() *)
StartTxBaCbIrqsafe ==
  /\ drv = "starting" /\ drv' = "ready"
  /\ Callback("START_CB")
  /\ UNCHANGED <<mlme, ssn, stop_reason, addba_resp_timer, session_timer,
                 stn, txq, ctl, req, gp, air>>

(* ieee80211_stop_tx_ba_cb_irqsafe() *)
StopTxBaCbIrqsafe ==
  /\ drv \in {"stopping", "flushed"} /\ drv' = "idle"
  /\ Callback("STOP_CB")
  /\ UNCHANGED <<mlme, ssn, stop_reason, addba_resp_timer, session_timer,
                 stn, txq, ctl, req, gp, air>>

-----------------------------------------------------------------------------
(* The transmitter: ieee80211_tx_dequeue() and the driver's taking of the  *)
(* frame, in one read-side section.                                        *)

(* Under fq->lock: a left-over fragment goes first and needs nothing more; *)
(* a new frame is taken only when the TXQ is not stopped.                  *)
TxDequeue ==
  /\ tx = "idle" /\ sta = "inserted"
  /\ \/ frags > 0 /\ frags' = frags - 1 /\ tx' = "frag"
     \/ frags = 0 /\ ~txq_stop /\ tx' = "taken" /\ UNCHANGED frags
  /\ UNCHANGED <<mlme, work, sess, stn, txq_stop, txq_ampdu, tid_seq, ctl, req, gp, drv, air>>

(* A mutant: the mask forgotten. *)
MutNextSeq == tid_seq + 1

(* ieee80211_tx_next_seq() *)
NextSeq == (tid_seq + 1) % SeqMod

(* The lock is gone: the AMPDU flag is read, the sequence number assigned, *)
(* and a frame that will not be aggregated may leave fragments behind.     *)
TxHandlers ==
  /\ tx = "taken"
  /\ tid_seq' = NextSeq
  /\ \/ txq_ampdu /\ tx' = "ampdu" /\ UNCHANGED frags
     \/ ~txq_ampdu /\ tx' = "plain" /\ UNCHANGED frags
     \/ ~txq_ampdu /\ tx' = "plain" /\ "fragment" \in Events /\ frags' = 1
  /\ UNCHANGED <<mlme, work, sess, stn, txq_stop, txq_ampdu, ctl, req, gp, drv, air>>

(* The driver is handed the frame. *)
HandToDriver ==
  /\ tx \in {"plain", "ampdu", "frag"}
  /\ tx' = "idle" /\ gp' = gp \ {"tx"}
  /\ UNCHANGED <<mlme, work, sess, stn, txq_stop, txq_ampdu, frags, tid_seq,
                 ctl, req, drv, air>>

-----------------------------------------------------------------------------
(* The worker ieee80211_ba_session_work().  BLOCK_BA is only written under *)
(* the wiphy mutex, so the worker's early test of it stays good.           *)

(* A start is pending: the TXQ is stopped; if it holds fragments the       *)
(* worker lets go of the mutex to come back later.                         *)
BaSessionWorkStart ==
  /\ pc = "idle" /\ work /\ sta = "inserted"
  /\ tid_start_tx # NULL /\ ~block_ba
  /\ work' = FALSE
  /\ txq_stop' = TRUE
  /\ back' = "idle" /\ UNCHANGED reason
  /\ \/ /\ frags > 0
        /\ gp' = OpenReaders /\ pc' = "requeue"
        /\ UNCHANGED <<tid_start_tx, tid_tx, state>>
     \/ /\ frags = 0
        /\ tid_start_tx' = NULL
        /\ IF tid_tx = NULL THEN tid_tx' = tid_start_tx /\ state' = {"WANT_START"}
                            ELSE UNCHANGED <<tid_tx, state>>
        /\ pc' = "handle_start" /\ UNCHANGED gp
  /\ UNCHANGED <<allocator, addba_req_num, ssn, stop_reason, addba_resp_timer,
                 session_timer, stn, txq_ampdu, frags, tid_seq, tx, req, drv, air>>

(* ... after synchronize_net(). *)
BaSessionWorkRequeue ==
  /\ pc = "requeue" /\ gp = {}
  /\ QueueWork /\ Goto("idle")
  /\ UNCHANGED <<mlme, sess, stn, txq, req, gp, drv, air>>

(* No start pending, or blocked: the bits of the live session are looked   *)
(* at, START_CB first.                                                     *)
BaSessionWork ==
  /\ pc = "idle" /\ work /\ sta = "inserted"
  /\ tid_start_tx = NULL \/ block_ba
  /\ work' = FALSE
  /\ Goto(IF tid_tx = NULL THEN "idle" ELSE "start_cb")
  /\ UNCHANGED <<mlme, sess, stn, txq, req, gp, drv, air>>

(* What follows once the driver is ready: the request, if the driver had   *)
(* it delayed; the session, if the peer has accepted.                      *)
AfterStartCb ==
  IF Is("DRV_READY") \/ Stopped THEN "want_stop"
  ELSE IF ~Is("SENT_ADDBA") THEN "send_addba"
  ELSE IF Is("RESPONSE_RECEIVED") THEN "drv_oper"
  ELSE "want_stop"

(* ieee80211_start_tx_ba_cb() *)
StartTxBaCb ==
  /\ pc = "start_cb"
  /\ IF Is("START_CB") /\ ~block_ba
     THEN /\ state' = (state \ {"START_CB"}) \cup {"DRV_READY"}
          /\ pc' = AfterStartCb
          /\ back' = "want_stop" /\ UNCHANGED reason
     ELSE Goto("want_stop") /\ UNCHANGED state
  /\ UNCHANGED <<mlme, work, ssn, stop_reason, addba_resp_timer, session_timer,
                 stn, txq, req, gp, drv, air>>

(* WANT_STOP is turned into a stop for a local request. *)
WorkWantStop ==
  /\ pc = "want_stop"
  /\ IF Is("WANT_STOP")
     THEN state' = state \ {"WANT_STOP"} /\ CallStop("LOCAL_REQUEST", "stop_cb_bit")
     ELSE Goto("stop_cb_bit") /\ UNCHANGED state
  /\ UNCHANGED <<mlme, work, ssn, stop_reason, addba_resp_timer, session_timer,
                 stn, txq, req, gp, drv, air>>

(* STOP_CB is taken up last. *)
WorkStopCb ==
  /\ pc = "stop_cb_bit"
  /\ IF Is("STOP_CB")
     THEN state' = state \ {"STOP_CB"} /\ pc' = "stop_cb" /\ back' = "idle" /\ UNCHANGED reason
     ELSE Goto("idle") /\ UNCHANGED state
  /\ UNCHANGED <<mlme, work, ssn, stop_reason, addba_resp_timer, session_timer,
                 stn, txq, req, gp, drv, air>>

-----------------------------------------------------------------------------
(* ieee80211_tx_ba_session_handle_start() *)

HandleStart ==
  /\ pc = "handle_start"
  /\ state' = state \ {"WANT_START"}
  /\ gp' = OpenReaders /\ Goto("ask_driver")
  /\ UNCHANGED <<mlme, work, ssn, stop_reason, addba_resp_timer, session_timer,
                 stn, txq, req, drv, air>>

(* synchronize_net() is over: the starting sequence number is fixed and    *)
(* the driver is called with IEEE80211_AMPDU_TX_START.                     *)
AskDriver ==
  /\ pc = "ask_driver" /\ gp = {}
  /\ ssn' = tid_seq
  /\ Goto("drv_start")
  /\ UNCHANGED <<mlme, work, state, stop_reason, addba_resp_timer, session_timer,
                 stn, txq, req, gp, drv, air>>

(* Its answers: it will call back (0), or call back and only then wants    *)
(* the request sent (DELAY_ADDBA), or it is ready at once (IMMEDIATE), or  *)
(* it refuses.                                                             *)
DriverStarts ==
  /\ pc = "drv_start"
  /\ \/ drv' = "starting" /\ UNCHANGED state /\ Goto("send_addba")
     \/ drv' = "starting" /\ UNCHANGED state /\ Goto("idle")
     \/ drv' = "ready" /\ state' = state \cup {"DRV_READY"} /\ Goto("send_addba")
     \/ UNCHANGED <<drv, state>> /\ Goto("splice_fail")
  /\ UNCHANGED <<mlme, work, ssn, stop_reason, addba_resp_timer, session_timer,
                 stn, txq, req, gp, air>>

(* A mutant: the TXQ is not started again. *)
MutDriverRefused ==
  /\ pc = "splice_fail"
  /\ Forget /\ Goto("idle")
  /\ UNCHANGED <<tid_start_tx, allocator, addba_req_num, work, ssn, stop_reason,
                 addba_resp_timer, session_timer, stn, txq, req, gp, drv, air>>

(* The driver refused: the session is dropped and plain transmission       *)
(* resumes.                                                                *)
DriverRefused ==
  /\ pc = "splice_fail"
  /\ Forget /\ Goto("txq_off")
  /\ UNCHANGED <<tid_start_tx, allocator, addba_req_num, work, ssn, stop_reason,
                 addba_resp_timer, session_timer, stn, txq, req, gp, drv, air>>

(* ieee80211_send_addba_with_timeout(); the request is not sent, with a    *)
(* warning, when a stop came first.                                        *)
SendAddbaWithTimeout ==
  /\ pc = "send_addba" /\ Return
  /\ IF Stopped THEN UNCHANGED <<addba_resp_timer, addba_req_num, answer, state>>
     ELSE /\ addba_resp_timer' = TRUE
          /\ addba_req_num' = addba_req_num + 1
          /\ answer' = [answer EXCEPT ![tid_tx] = "asked"]
          /\ state' = state \cup {"SENT_ADDBA"}
  /\ UNCHANGED <<tid_start_tx, tid_tx, allocator, work, ssn, stop_reason, session_timer,
                 stn, txq, req, gp, drv, send_delba>>

-----------------------------------------------------------------------------
(* ieee80211_agg_tx_operational() *)

DriverOperational ==
  /\ pc = "drv_oper"
  /\ drv' = "operational" /\ Goto("mark_oper")
  /\ UNCHANGED <<mlme, work, sess, stn, txq, req, gp, air>>

MarkOperational ==
  /\ pc = "mark_oper"
  /\ state' = state \cup {"OPERATIONAL"} /\ Goto("txq_on")
  /\ UNCHANGED <<mlme, work, ssn, stop_reason, addba_resp_timer, session_timer,
                 stn, txq, req, gp, drv, air>>

(* The parameter "enable" of ieee80211_agg_start_txq(). *)
AmpduFlag == pc = "txq_on"

(* ieee80211_agg_start_txq(): the AMPDU flag is set or cleared first, then *)
(* the TXQ is let go.                                                      *)
AggStartTxqFlag ==
  /\ pc \in {"txq_on", "txq_off"}
  /\ txq_ampdu' = AmpduFlag
  /\ Goto("txq_go")
  /\ UNCHANGED <<mlme, work, sess, stn, txq_stop, frags, tid_seq, tx, req, gp, drv, air>>

(* When this ends ieee80211_stop_tx_ba_cb(), the DELBA follows. *)
AggStartTxqGo ==
  /\ pc = "txq_go"
  /\ txq_stop' = FALSE
  /\ Goto(IF send_delba THEN "send_delba" ELSE back)
  /\ UNCHANGED <<mlme, work, sess, stn, txq_ampdu, frags, tid_seq, tx, req, gp, drv, air>>

-----------------------------------------------------------------------------
(* __ieee80211_stop_tx_ba_session(), called with reason, returns to back.  *)

(* The part under sta->lock: a pending start is dropped; nothing more to   *)
(* do without a live session, or with one already stopping unless the      *)
(* station goes; otherwise the session is marked and its TXQ stopped.      *)
StopTxBaSessionLocked ==
  /\ pc = "stop"
  /\ tid_start_tx' = NULL
  /\ \/ /\ tid_tx = NULL
        /\ Return /\ UNCHANGED <<tid_tx, state, txq_stop>>
     \/ /\ tid_tx # NULL /\ Is("STOPPING")
        /\ Goto(IF reason = "DESTROY_STA" THEN "drv_flush" ELSE back)
        /\ UNCHANGED <<tid_tx, state, txq_stop>>
     \/ /\ tid_tx # NULL /\ ~Is("STOPPING") /\ Is("WANT_START")
        /\ Forget /\ Return /\ UNCHANGED txq_stop
     \/ /\ tid_tx # NULL /\ ~Is("STOPPING") /\ ~Is("WANT_START")
        /\ state' = state \cup {"STOPPING"} /\ txq_stop' = TRUE
        /\ Goto("stop_wait") /\ UNCHANGED tid_tx
  /\ UNCHANGED <<allocator, addba_req_num, work, ssn, stop_reason, addba_resp_timer,
                 session_timer, stn, txq_ampdu, frags, tid_seq, tx, req, gp, drv, air>>

(* Both timers are off, and their handlers are not running. *)
DelTimers == addba_resp_timer' = FALSE /\ session_timer' = FALSE

(* del_timer_sync() twice, OPERATIONAL cleared, synchronize_net(). *)
StopTxBaSessionQuiesce ==
  /\ pc = "stop_wait"
  /\ DelTimers
  /\ state' = state \ {"OPERATIONAL"}
  /\ gp' = OpenReaders /\ Goto("drv_stop")
  /\ UNCHANGED <<mlme, work, ssn, stop_reason, stn, txq, req, drv, air>>

(* Only then is the driver told; a flush obliges it to nothing. *)
StopTxBaSessionDriver ==
  /\ pc = "drv_stop" /\ gp = {}
  /\ stop_reason' = reason
  /\ drv' = IF reason = "DESTROY_STA" THEN "flushed" ELSE "stopping"
  /\ Return
  /\ UNCHANGED <<mlme, work, state, ssn, addba_resp_timer, session_timer,
                 stn, txq, req, gp, air>>

(* IEEE80211_AMPDU_TX_STOP_FLUSH_CONT for a session already stopping. *)
StopTxBaSessionFlush ==
  /\ pc = "drv_flush"
  /\ drv' = IF drv = "stopping" THEN "flushed" ELSE drv
  /\ Return
  /\ UNCHANGED <<mlme, work, sess, stn, txq, req, gp, air>>

(* A mutant: only an operational session is announced to be over. *)
MutDelbaDue == stop_reason = "LOCAL_REQUEST" /\ Is("OPERATIONAL")

(* tid_tx->stop_initiator and tid_tx->tx_stop, as StopTxBaSessionDriver    *)
(* left them.                                                              *)
DelbaDue == stop_reason = "LOCAL_REQUEST"

(* ieee80211_stop_tx_ba_cb() up to the release of sta->lock. *)
StopTxBaCb ==
  /\ pc = "stop_cb"
  /\ IF Is("STOPPING")
     THEN /\ send_delba' = DelbaDue
          /\ Forget /\ Goto("txq_off")
     ELSE Return /\ UNCHANGED <<send_delba, tid_tx, state>>
  /\ UNCHANGED <<tid_start_tx, allocator, addba_req_num, work, ssn, stop_reason,
                 addba_resp_timer, session_timer, stn, txq, req, gp, drv, answer>>

(* ieee80211_send_delba() at its end. *)
SendDelba ==
  /\ pc = "send_delba"
  /\ send_delba' = FALSE /\ Return
  /\ UNCHANGED <<mlme, work, sess, stn, txq, req, gp, drv, answer>>

-----------------------------------------------------------------------------
(* The peer, and the frames it sends.                                      *)

(* The peer decides on a request it has been sent. *)
PeerAnswers ==
  \E s \in Sessions, a \in {"accepted", "declined"} :
    /\ answer[s] = "asked"
    /\ answer' = [answer EXCEPT ![s] = a]
    /\ UNCHANGED <<mlme, work, sess, stn, txq, ctl, req, gp, drv, send_delba>>

(* A mutant: the driver is not waited for. *)
MutAfterResponse == "drv_oper"

(* What follows the first positive response. *)
AfterResponse == IF Is("DRV_READY") THEN "drv_oper" ELSE "resp_done"

(* ieee80211_process_addba_resp() for the response to session s: it may be *)
(* late, or have been received before.                                     *)
ProcessAddbaResp ==
  \E s \in Sessions :
    /\ pc = "idle" /\ sta = "inserted"
    /\ answer[s] \in {"accepted", "declined"}
    /\ tid_tx # NULL /\ Token(s) = Token(tid_tx)
    /\ addba_resp_timer' = FALSE
    /\ \/ /\ Stopped
          /\ UNCHANGED <<state, ctl>>
       \/ /\ ~Stopped /\ answer[s] = "accepted" /\ Is("RESPONSE_RECEIVED")
          /\ UNCHANGED <<state, ctl>>
       \/ /\ ~Stopped /\ answer[s] = "accepted" /\ ~Is("RESPONSE_RECEIVED")
          /\ state' = state \cup {"RESPONSE_RECEIVED"}
          /\ pc' = AfterResponse
          /\ back' = "resp_done" /\ UNCHANGED reason
       \/ /\ ~Stopped /\ answer[s] = "declined"
          /\ CallStop("DECLINED", "idle") /\ UNCHANGED state
    /\ UNCHANGED <<mlme, work, ssn, stop_reason, session_timer, stn, txq, req, gp, drv, air>>

(* The end of it, after a positive response: the retries start anew, and   *)
(* the session timer is armed if the peer asked for a timeout.             *)
AddbaRespDone ==
  /\ pc = "resp_done"
  /\ addba_req_num' = 0
  /\ session_timer' \in (IF "timeout" \in Events THEN BOOLEAN ELSE {FALSE})
  /\ Goto("idle")
  /\ UNCHANGED <<tid_start_tx, tid_tx, allocator, work, state, ssn, stop_reason,
                 addba_resp_timer, stn, txq, req, gp, drv, air>>

(* ieee80211_process_delba() from the recipient. *)
ProcessDelba ==
  /\ pc = "idle" /\ sta = "inserted" /\ "delba" \in Events
  /\ CallStop("PEER_REQUEST", "idle")
  /\ UNCHANGED <<mlme, work, sess, stn, txq, req, gp, drv, air>>

-----------------------------------------------------------------------------
(* Blocking, unblocking and removal.                                       *)

(* A rekey, a suspend or the reservation of a TID: WLAN_STA_BLOCK_BA is    *)
(* set and the session torn down, in one section of the wiphy mutex.       *)
BlockBa ==
  /\ pc = "idle" /\ sta = "inserted" /\ "block" \in Events
  /\ block_ba' = TRUE
  /\ CallStop("LOCAL_REQUEST", "idle")
  /\ UNCHANGED <<mlme, work, sess, sta, txq, req, gp, drv, air>>

(* The new key is in place, the suspend over: the flag is cleared. *)
UnblockBa ==
  /\ pc = "idle" /\ sta = "inserted" /\ block_ba
  /\ block_ba' = FALSE
  /\ UNCHANGED <<mlme, work, sess, sta, txq, ctl, req, gp, drv, air>>

(* __sta_info_destroy_part1(); the mutex is held until the station is      *)
(* freed.                                                                  *)
DestroyBegin ==
  /\ pc = "idle" /\ sta = "inserted" /\ "destroy" \in Events
  /\ block_ba' = TRUE
  /\ CallStop("DESTROY_STA", "cancel")
  /\ UNCHANGED <<mlme, work, sess, sta, txq, req, gp, drv, air>>

(* The end of ieee80211_sta_tear_down_BA_sessions(): the work is cancelled *)
(* and what it would have done about STOP_CB is done here.                 *)
TearDownCancel ==
  LET next == IF sta = "inserted" THEN "unlink" ELSE "free" IN
  /\ pc = "cancel"
  /\ work' = FALSE
  /\ back' = next /\ UNCHANGED reason
  /\ IF tid_tx # NULL /\ Is("STOP_CB")
     THEN state' = state \ {"STOP_CB"} /\ pc' = "stop_cb"
     ELSE UNCHANGED state /\ pc' = next
  /\ UNCHANGED <<mlme, ssn, stop_reason, addba_resp_timer, session_timer,
                 stn, txq, req, gp, drv, air>>

(* The station leaves the hash; synchronize_net() follows. *)
DestroyUnlink ==
  /\ pc = "unlink"
  /\ sta' = "unlinked"
  /\ gp' = OpenReaders /\ Goto("destroy_sync")
  /\ UNCHANGED <<mlme, work, sess, block_ba, txq, req, drv, air>>

(* A mutant: no second round. *)
MutDestroyAgain ==
  /\ pc = "destroy_sync" /\ gp = {}
  /\ Goto("free")
  /\ UNCHANGED <<mlme, work, sess, stn, txq, req, gp, drv, air>>

(* __sta_info_destroy_part2(): "another round of destruction". *)
DestroyAgain ==
  /\ pc = "destroy_sync" /\ gp = {}
  /\ CallStop("DESTROY_STA", "cancel")
  /\ UNCHANGED <<mlme, work, sess, stn, txq, req, gp, drv, air>>

(* cleanup_single_sta() frees what is left. *)
DestroyFree ==
  /\ pc = "free"
  /\ sta' = "freed" /\ Goto("idle")
  /\ tid_start_tx' = NULL /\ Forget
  /\ UNCHANGED <<allocator, addba_req_num, work, ssn, stop_reason, addba_resp_timer,
                 session_timer, block_ba, txq, req, gp, drv, air>>

-----------------------------------------------------------------------------
Softirq ==
  FindStation \/ StartTxBaSessionCheck \/ StartTxBaSession \/ StopTxBaSession

Timer  == AddbaRespTimerExpired \/ SessionTimerExpired
Driver == StartTxBaCbIrqsafe \/ StopTxBaCbIrqsafe

(* A section of the wiphy mutex is begun. *)
Work    == BaSessionWorkStart \/ BaSessionWork
Section == ProcessAddbaResp \/ ProcessDelba \/ BlockBa \/ UnblockBa \/ DestroyBegin

(* A section of the wiphy mutex goes on. *)
Worker   == BaSessionWorkRequeue \/ StartTxBaCb \/ WorkWantStop \/ WorkStopCb
Starting == HandleStart \/ AskDriver \/ DriverStarts \/ DriverRefused
TurningOn == DriverOperational \/ MarkOperational \/ AggStartTxqFlag \/ AggStartTxqGo
Stopping ==
  \/ StopTxBaSessionLocked \/ StopTxBaSessionQuiesce \/ StopTxBaSessionDriver
  \/ StopTxBaSessionFlush \/ StopTxBaCb \/ SendDelba
Removing == TearDownCancel \/ DestroyUnlink \/ DestroyAgain \/ DestroyFree
Continue ==
  \/ Worker \/ Starting \/ SendAddbaWithTimeout \/ AddbaRespDone
  \/ TurningOn \/ Stopping \/ Removing

Transmitter == TxDequeue \/ TxHandlers \/ HandToDriver

Next ==
  \/ Softirq \/ Timer \/ Driver \/ Work \/ Section \/ Continue
  \/ Transmitter \/ PeerAnswers

Spec == Init /\ [][Next]_vars

(* What the kernel and a conforming driver guarantee.  The wiphy mutex is  *)
(* handed over in order, so queued work is not starved by other sections   *)
(* (SF); a section, a read-side section and a driver that owes a callback  *)
(* get on (WF); an armed timer fires.  Nobody has to start or stop a       *)
(* session, to answer, to block or to remove the station.                  *)
Fairness ==
  /\ WF_vars(Continue) /\ SF_vars(Work)
  /\ WF_vars(Driver) /\ WF_vars(AddbaRespTimerExpired)
  /\ WF_vars(TxHandlers \/ HandToDriver) /\ WF_vars(frags > 0 /\ TxDequeue)
  /\ WF_vars(StartTxBaSessionCheck \/ StopTxBaSession) /\ WF_vars(StartTxBaSession)

FairSpec == Spec /\ Fairness

-----------------------------------------------------------------------------
(* Safety.                                                                 *)

(* "could there be a race?" asks ht.c:429 where the worker puts the        *)
(* pending session in place: no, a start is never pending beside a live    *)
(* session, so nothing is overwritten and the kfree() there is dead code.  *)
NoStartBesideSession == tid_start_tx = NULL \/ tid_tx = NULL

(* Not yet handed to the TX path: negotiating, or letting the TXQ go.      *)
Opening ==
  /\ tid_tx # NULL /\ ~Is("STOPPING")
  /\ ~Is("OPERATIONAL") \/ pc \in {"txq_on", "txq_go"}

(* The sequence number announced in the ADDBA request is the one the first *)
(* aggregated frame will carry: none is used up from the request until the *)
(* TXQ is let go (agg-tx.c:204 "protect against further seqno updates on   *)
(* dequeue", 520-528).                                                     *)
SsnAnnounced == Opening /\ Is("SENT_ADDBA") => txq_stop /\ ssn = tid_seq

(* A frame with IEEE80211_TX_CTL_AMPDU is in the transmitter only while    *)
(* the driver has an operational session: none overtakes OPERATIONAL and   *)
(* none is left when the driver is told to stop (agg-tx.c:386-398).        *)
AmpduOnlyInSession == tx = "ampdu" => drv = "operational"

(* "no packets for this TID will go into the driver during the             *)
(* ampdu_action call" (agg-tx.c:520-524).                                  *)
NoFrameDuringStart == pc = "drv_start" => tx = "idle"

(* A session counts as answered only when the peer accepted this very      *)
(* request, however late or often the answers to earlier requests arrive   *)
(* (agg-tx.c:994-1030).                                                    *)
OwnResponse == Is("RESPONSE_RECEIVED") => answer[tid_tx] = "accepted"

(* No timer outlives its session: both live inside the struct that is      *)
(* freed (agg-tx.c:374-375, 1000).                                         *)
TimersOwned ==
  (addba_resp_timer \/ session_timer) =>
    tid_tx # NULL /\ pc \notin {"drv_stop", "stop_cb", "free"}

(* Once the station is freed nothing that refers to it is left: neither    *)
(* queued work nor a reader nor a timer (sta_info.c:1421-1433).            *)
QuietAfterFree ==
  sta = "freed" =>
    ~work /\ req = "idle" /\ tx = "idle" /\ ~addba_resp_timer /\ ~session_timer

(* Nothing that was begun for a session or a station comes after its end.  *)
QuietAfterEnd == TimersOwned /\ QuietAfterFree

(* The warnings of agg-tx.c 493 and 802 and ht.c's use of the session it   *)
(* has put in place cannot trigger: one ADDBA per session, one start       *)
(* callback per session, and the struct is there.                          *)
NoWarning ==
  /\ pc = "send_addba" => ~Is("SENT_ADDBA")
  /\ Is("START_CB") => ~Is("DRV_READY")
  /\ pc \in {"handle_start", "ask_driver", "drv_start", "send_addba", "start_cb",
             "drv_oper", "mark_oper", "resp_done", "stop_wait", "drv_stop", "stop_cb"}
     => tid_tx # NULL

(* A TXQ is stopped only for a session that is live or about to be; with   *)
(* neither there is nobody left to start it again.                         *)
NoStalledTxq ==
  pc = "idle" /\ sta = "inserted" /\ txq_stop => tid_tx # NULL \/ tid_start_tx # NULL

-----------------------------------------------------------------------------
(* Action properties.                                                      *)

(* When a session the peer has been asked for ends, the peer gets a DELBA, *)
(* unless it ended the session itself, declined it, or the station is      *)
(* being removed (agg-tx.c:928-942): no half-open agreement is left.       *)
NoHalfOpen ==
  [][ tid_tx # NULL /\ tid_tx' = NULL /\ sta' = "inserted"
        /\ answer[tid_tx] \in {"asked", "accepted"}
      => send_delba' \/ stop_reason \in {"PEER_REQUEST", "DESTROY_STA"} ]_vars

-----------------------------------------------------------------------------
(* Refinement.                                                             *)

(* The calls the driver sees and the aggregated frames it is handed follow *)
(* the protocol its ampdu_action() relies on (agg-tx.c:13-57).             *)
Contract == INSTANCE AmpduContract WITH phase <- drv, inflight <- tx = "ampdu"
DriverContract == Contract!ContractSpec

-----------------------------------------------------------------------------
(* Liveness.                                                               *)

(* A session that went live becomes operational or is gone again, whatever *)
(* is lost on the air.                                                     *)
SessionResolved == tid_tx # NULL ~> (tid_tx = NULL \/ Is("OPERATIONAL"))

(* "the work item will collect it and move it to the normal array"         *)
(* (agg-tx.c:736-738).                                                     *)
StartCollected == tid_start_tx # NULL ~> tid_start_tx = NULL

(* A stopped TXQ is started again, unless the station goes.                *)
TxqReleased == txq_stop ~> (~txq_stop \/ sta = "freed")
=============================================================================
