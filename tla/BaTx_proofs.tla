----------------------------- MODULE BaTx_proofs -----------------------------
(***************************************************************************)
(* What TLAPS proves of BaTx, for any number of sessions, any range of the *)
(* dialog tokens and of the sequence numbers, any retry limit and every    *)
(* choice of environment events.                                           *)
(*                                                                         *)
(* Everything follows from one inductive invariant.  Its core says what    *)
(* the holder of the wiphy mutex may rely on at each point of its program  *)
(* although sta->lock, fq->lock and the wiphy mutex are all released or    *)
(* never held by the others in between (Points), how the state bits and    *)
(* the driver's state go together (Handshake), and that the TXQ is silent  *)
(* from the synchronize_net() of the start to the end of the negotiation   *)
(* and from that of the stop to the removal of the session (Silence).      *)
(* Around it are the life of the struct tid_ampdu_tx (Lifetime), where a   *)
(* shared subroutine returns to (Returns), what the peer has been asked    *)
(* (Requests), which timers may be armed (Timers), and how the two rounds  *)
(* of the station's destruction get rid of all readers, timers and queued  *)
(* work (Removal, SecondRound).                                            *)
(***************************************************************************)
EXTENDS BaTx, TLAPS

(* The shorthands of BaTx are seen through everywhere. *)
USE DEF vars, mlme, sess, stn, txq, ctl, air, Sessions, NULL, Is, Stopped, Goto,
        Return, CallStop, QueueWork, WantStop, Forget, Callback, LeaveReader,
        OpenReaders

(* The worker has put a session in place and is starting it. *)
Early == {"handle_start", "ask_driver", "drv_start", "splice_fail"}

(* Without a session there are no bits; WANT_START is the worker's own; a  *)
(* freed station has neither a session nor anybody at work on it.          *)
Lifetime ==
  /\ NoStartBesideSession
  /\ sta = "freed" => tid_tx = NULL /\ pc = "idle"
  /\ tid_tx = NULL => state = {}
  /\ Is("WANT_START") => pc = "handle_start"
  /\ send_delba => tid_tx = NULL /\ pc \in {"txq_off", "txq_go", "send_delba"}

(* What holds where the holder of the wiphy mutex is. *)
Points ==
  /\ pc \in Early =>
       tid_tx # NULL /\ state \subseteq {"WANT_START", "WANT_STOP"} /\ drv = "idle"
  /\ pc = "send_addba" => tid_tx # NULL /\ ~Is("SENT_ADDBA")
  /\ pc \in {"start_cb", "resp_done"} => tid_tx # NULL
  /\ pc \in {"drv_oper", "mark_oper"} =>
       /\ tid_tx # NULL /\ ~Is("STOPPING") /\ ~Is("OPERATIONAL")
       /\ Is("DRV_READY") /\ Is("RESPONSE_RECEIVED")
  /\ pc = "drv_oper" => drv = "ready"
  /\ pc = "mark_oper" => drv = "operational"
  /\ pc = "txq_on" =>
       tid_tx # NULL /\ ~Is("STOPPING") /\ Is("OPERATIONAL") /\ drv = "operational"
  /\ pc = "txq_off" => tid_tx = NULL
  /\ pc = "txq_go" =>
       IF tid_tx = NULL THEN ~txq_ampdu
       ELSE ~Is("STOPPING") /\ Is("OPERATIONAL") /\ drv = "operational"
  /\ pc \in {"stop_wait", "drv_stop"} =>
       tid_tx # NULL /\ Is("STOPPING") /\ drv \in {"starting", "ready", "operational"}
  /\ pc = "stop_cb" => tid_tx # NULL /\ Is("STOPPING") /\ drv = "idle"

(* Where a subroutine returns to: never to a point with an obligation,     *)
(* but to the end of process_addba_resp() with the session in place.       *)
Returns ==
  /\ back \in {"idle", "want_stop", "stop_cb_bit", "resp_done", "cancel", "unlink", "free"}
  /\ pc \in Early \cup {"send_addba", "txq_off", "stop", "stop_wait", "drv_stop",
                        "drv_flush", "stop_cb", "send_delba"}
       => back # "resp_done"
  /\ pc = "txq_go" /\ tid_tx = NULL => back # "resp_done"

(* The state bits and the driver. *)
Handshake ==
  /\ tid_tx = NULL /\ sta # "freed" => drv = "idle"
  /\ Is("START_CB") => ~Is("DRV_READY")
  /\ Is("START_CB") /\ ~Is("STOPPING") => drv = "ready"
  /\ Is("START_CB") \/ Is("DRV_READY") => drv # "starting"
  /\ Is("DRV_READY") /\ ~Is("STOPPING") => drv \in {"ready", "operational"}
  /\ Is("OPERATIONAL") =>
       IF Is("STOPPING") THEN pc = "stop_wait" ELSE drv = "operational"
  /\ drv = "operational" /\ sta # "freed" =>
       /\ Is("DRV_READY") /\ Is("RESPONSE_RECEIVED")
       /\ Is("STOPPING") => pc \in {"stop_wait", "drv_stop"}
  /\ Is("STOP_CB") =>
       Is("STOPPING") /\ drv = "idle" /\ pc \notin {"stop_wait", "drv_stop"}
  /\ drv \in {"stopping", "flushed"} /\ sta # "freed" =>
       Is("STOPPING") /\ pc \notin {"stop_wait", "drv_stop"}
  /\ drv = "idle" /\ tid_tx # NULL /\ ~Is("STOPPING") => pc \in Early

(* The TXQ and its transmitter. *)
Silence ==
  /\ tid_tx # NULL /\ ~txq_stop =>
       Is("OPERATIONAL") /\ ~Is("STOPPING") /\ pc \notin {"txq_on", "txq_go"}
  /\ pc \in {"ask_driver", "drv_stop"} /\ tx \in {"taken", "ampdu"} => "tx" \in gp
  /\ Opening /\ pc \notin {"handle_start", "ask_driver"} =>
       txq_stop /\ tx # "taken" /\ (pc # "drv_start" => ssn = tid_seq)
  /\ pc = "drv_start" => ssn = tid_seq
  /\ tx = "taken" /\ txq_ampdu => drv = "operational"
  /\ ~txq_stop /\ txq_ampdu => drv = "operational"
  /\ AmpduOnlyInSession

(* What the peer has been asked: nothing before a session's request is     *)
(* out.                                                                    *)
Requests ==
  /\ tid_tx <= allocator /\ tid_start_tx <= allocator
  /\ \A s \in Sessions : s > allocator => answer[s] = "none"
  /\ tid_start_tx # NULL => answer[tid_start_tx] = "none"
  /\ tid_tx # NULL /\ ~Is("SENT_ADDBA") => answer[tid_tx] = "none"

(* An armed timer has a session that is past its start and is not being    *)
(* stopped, or whose timers are just about to be deleted.                  *)
Timers ==
  /\ addba_resp_timer \/ session_timer =>
       /\ tid_tx # NULL /\ pc \notin Early
       /\ Is("STOPPING") => pc = "stop_wait"
  /\ pc = "resp_done" => ~Is("STOPPING")

(* The removal of the station.  When it is unlinked no session is live;    *)
(* when synchronize_net() has returned no reader holds it; when the work   *)
(* is cancelled for the second time nobody is left to queue it.            *)
Removal ==
  /\ pc \in Early \cup {"send_addba", "drv_oper", "mark_oper", "txq_on"}
       => back \notin {"cancel", "unlink", "free"}
  /\ pc \in {"stop", "stop_wait", "drv_stop", "drv_flush"}
       => back \in {"idle", "stop_cb_bit", "cancel"}
  /\ pc \in {"stop_cb", "txq_off", "txq_go", "send_delba"} /\ back = "free"
       => sta = "unlinked"
  /\ pc \in {"cancel", "unlink", "destroy_sync", "free", "drv_flush"} =>
       tid_tx = NULL \/ Is("STOPPING")
  /\ pc = "send_delba" => tid_tx = NULL
  /\ pc = "txq_go" /\ back \in {"cancel", "unlink", "free"} => tid_tx = NULL
  /\ pc \in {"destroy_sync", "free"} => sta = "unlinked"
  /\ pc = "destroy_sync" =>
       (req # "idle" => "req" \in gp) /\ (tx # "idle" => "tx" \in gp)

(* The second round of the destruction, after the readers are gone. *)
SecondRound ==
  sta = "unlinked" /\ pc # "destroy_sync" =>
    /\ req = "idle" /\ tx = "idle"
    /\ tid_tx = NULL \/ Is("STOPPING")
    /\ \/ pc \in {"stop", "stop_wait", "drv_stop", "drv_flush"} /\ back = "cancel"
       \/ pc = "cancel"
       \/ pc \in {"stop_cb", "txq_off", "txq_go", "send_delba"} /\ back = "free" /\ ~work
       \/ pc = "free" /\ ~work

IInv ==
  /\ TypeOK /\ Lifetime /\ Points /\ Returns /\ Handshake /\ Silence
  /\ Requests /\ Timers /\ Removal /\ SecondRound /\ QuietAfterFree

-----------------------------------------------------------------------------
(* Types. *)

(* The names the code uses, so that the enumerations need not be expanded. *)
LEMMA Names ==
  /\ {"idle", "requeue", "handle_start", "ask_driver", "drv_start",
      "splice_fail", "send_addba", "start_cb", "drv_oper",
      "mark_oper", "resp_done", "txq_on", "txq_off", "txq_go",
      "want_stop", "stop", "stop_wait", "drv_stop", "drv_flush",
      "stop_cb_bit", "stop_cb", "send_delba", "cancel", "unlink",
      "destroy_sync", "free"} \subseteq WiphyPoints
  /\ {"DRV_READY", "RESPONSE_RECEIVED", "OPERATIONAL", "STOPPING",
      "WANT_START", "WANT_STOP", "START_CB", "STOP_CB",
      "SENT_ADDBA"} \subseteq StateBits
  /\ {"DECLINED", "LOCAL_REQUEST", "PEER_REQUEST", "DESTROY_STA"} \subseteq StopReasons
  BY DEF WiphyPoints, StateBits, StopReasons

(* Session numbers stay in range: a start allocates one only below the     *)
(* bound.                                                                  *)
LEMMA MlmeTypeStep == TypeOK /\ [Next]_vars => MlmeType'
<1> SUFFICES ASSUME TypeOK, [Next]_vars PROVE MlmeType'
  OBVIOUS
<1> USE BaTxAssumption DEF TypeOK, MlmeType, SessionType, TxqType, ControlType
<1>1. CASE Softirq
  BY <1>1 DEF Softirq, FindStation, StartTxBaSessionCheck, StartTxBaSession,
     StopTxBaSession, SessionIdle, TooManyRequests
<1>2. CASE Timer
  BY <1>2 DEF Timer, AddbaRespTimerExpired, SessionTimerExpired
<1>3. CASE Driver
  BY <1>3 DEF Driver, StartTxBaCbIrqsafe, StopTxBaCbIrqsafe
<1>4. CASE Work
  BY <1>4 DEF Work, BaSessionWorkStart, BaSessionWork
<1>5. CASE Section
  BY <1>5 DEF Section, ProcessAddbaResp, ProcessDelba, BlockBa, UnblockBa,
     DestroyBegin, AfterResponse
<1>6. CASE Worker
  BY <1>6 DEF Worker, BaSessionWorkRequeue, StartTxBaCb, WorkWantStop,
     WorkStopCb, AfterStartCb
<1>7. CASE Starting
  BY <1>7 DEF Starting, HandleStart, AskDriver, DriverStarts, DriverRefused
<1>8. CASE SendAddbaWithTimeout
  BY <1>8 DEF SendAddbaWithTimeout
<1>9. CASE AddbaRespDone
  BY <1>9 DEF AddbaRespDone
<1>10. CASE TurningOn
  BY <1>10 DEF TurningOn, DriverOperational, MarkOperational,
     AggStartTxqFlag, AggStartTxqGo, AmpduFlag
<1>11. CASE Stopping
  BY <1>11 DEF Stopping, StopTxBaSessionLocked, StopTxBaSessionQuiesce,
     StopTxBaSessionDriver, StopTxBaSessionFlush, StopTxBaCb, SendDelba,
     DelTimers, DelbaDue
<1>12. CASE Removing
  BY <1>12 DEF Removing, TearDownCancel, DestroyUnlink, DestroyAgain,
     DestroyFree
<1>13. CASE Transmitter
  BY <1>13 DEF Transmitter, TxDequeue, TxHandlers, HandToDriver, NextSeq
<1>14. CASE PeerAnswers
  BY <1>14 DEF PeerAnswers
<1>15. CASE UNCHANGED vars
  BY <1>15
<1> QED
  BY <1>1, <1>2, <1>3, <1>4, <1>5, <1>6, <1>7, <1>8,
     <1>9, <1>10, <1>11, <1>12, <1>13, <1>14, <1>15 DEF Next, Continue

(* The bits of a session stay among HT_AGG_STATE_*; the starting sequence  *)
(* number is one.                                                          *)
LEMMA SessionTypeStep == TypeOK /\ [Next]_vars => SessionType'
<1> SUFFICES ASSUME TypeOK, [Next]_vars PROVE SessionType'
  OBVIOUS
<1> USE BaTxAssumption, Names DEF TypeOK, MlmeType, SessionType, TxqType, ControlType
<1>1. CASE Softirq
  BY <1>1 DEF Softirq, FindStation, StartTxBaSessionCheck, StartTxBaSession,
     StopTxBaSession, SessionIdle, TooManyRequests
<1>2. CASE Timer
  BY <1>2 DEF Timer, AddbaRespTimerExpired, SessionTimerExpired
<1>3. CASE Driver
  BY <1>3 DEF Driver, StartTxBaCbIrqsafe, StopTxBaCbIrqsafe
<1>4. CASE Work
  BY <1>4 DEF Work, BaSessionWorkStart, BaSessionWork
<1>5. CASE Section
  BY <1>5 DEF Section, ProcessAddbaResp, ProcessDelba, BlockBa, UnblockBa,
     DestroyBegin, AfterResponse
<1>6. CASE Worker
  BY <1>6 DEF Worker, BaSessionWorkRequeue, StartTxBaCb, WorkWantStop,
     WorkStopCb, AfterStartCb
<1>7. CASE Starting
  BY <1>7 DEF Starting, HandleStart, AskDriver, DriverStarts, DriverRefused
<1>8. CASE SendAddbaWithTimeout
  BY <1>8 DEF SendAddbaWithTimeout
<1>9. CASE AddbaRespDone
  BY <1>9 DEF AddbaRespDone
<1>10. CASE TurningOn
  BY <1>10 DEF TurningOn, DriverOperational, MarkOperational,
     AggStartTxqFlag, AggStartTxqGo, AmpduFlag
<1>11. CASE Stopping
  BY <1>11 DEF Stopping, StopTxBaSessionLocked, StopTxBaSessionQuiesce,
     StopTxBaSessionDriver, StopTxBaSessionFlush, StopTxBaCb, SendDelba,
     DelTimers, DelbaDue
<1>12. CASE Removing
  BY <1>12 DEF Removing, TearDownCancel, DestroyUnlink, DestroyAgain,
     DestroyFree
<1>13. CASE Transmitter
  BY <1>13 DEF Transmitter, TxDequeue, TxHandlers, HandToDriver, NextSeq
<1>14. CASE PeerAnswers
  BY <1>14 DEF PeerAnswers
<1>15. CASE UNCHANGED vars
  BY <1>15
<1> QED
  BY <1>1, <1>2, <1>3, <1>4, <1>5, <1>6, <1>7, <1>8,
     <1>9, <1>10, <1>11, <1>12, <1>13, <1>14, <1>15 DEF Next, Continue

(* The sequence counter wraps at SeqMod (tx.c:807-816). *)
LEMMA TxqTypeStep == TypeOK /\ [Next]_vars => TxqType'
<1> SUFFICES ASSUME TypeOK, [Next]_vars PROVE TxqType'
  OBVIOUS
<1> USE BaTxAssumption, Names DEF TypeOK, MlmeType, SessionType, TxqType, ControlType
<1>1. CASE Softirq
  BY <1>1 DEF Softirq, FindStation, StartTxBaSessionCheck, StartTxBaSession,
     StopTxBaSession, SessionIdle, TooManyRequests
<1>2. CASE Timer
  BY <1>2 DEF Timer, AddbaRespTimerExpired, SessionTimerExpired
<1>3. CASE Driver
  BY <1>3 DEF Driver, StartTxBaCbIrqsafe, StopTxBaCbIrqsafe
<1>4. CASE Work
  BY <1>4 DEF Work, BaSessionWorkStart, BaSessionWork
<1>5. CASE Section
  <2>1. CASE ProcessAddbaResp
    BY <2>1 DEF ProcessAddbaResp, AfterResponse
  <2>2. CASE ProcessDelba
    BY <2>2 DEF ProcessDelba
  <2>3. CASE BlockBa
    BY <2>3 DEF BlockBa
  <2>4. CASE UnblockBa
    BY <2>4 DEF UnblockBa
  <2>5. CASE DestroyBegin
    BY <2>5 DEF DestroyBegin
  <2> QED
    BY <1>5, <2>1, <2>2, <2>3, <2>4, <2>5 DEF Section
<1>6. CASE Worker
  BY <1>6 DEF Worker, BaSessionWorkRequeue, StartTxBaCb, WorkWantStop,
     WorkStopCb, AfterStartCb
<1>7. CASE Starting
  BY <1>7 DEF Starting, HandleStart, AskDriver, DriverStarts, DriverRefused
<1>8. CASE SendAddbaWithTimeout
  BY <1>8 DEF SendAddbaWithTimeout
<1>9. CASE AddbaRespDone
  BY <1>9 DEF AddbaRespDone
<1>10. CASE TurningOn
  <2>1. CASE DriverOperational
    BY <2>1 DEF DriverOperational, AmpduFlag
  <2>2. CASE MarkOperational
    BY <2>2 DEF MarkOperational, AmpduFlag
  <2>3. CASE AggStartTxqFlag
    BY <2>3 DEF AggStartTxqFlag, AmpduFlag
  <2>4. CASE AggStartTxqGo
    BY <2>4 DEF AggStartTxqGo, AmpduFlag
  <2> QED
    BY <1>10, <2>1, <2>2, <2>3, <2>4 DEF TurningOn
<1>11. CASE Stopping
  <2>1. CASE StopTxBaSessionLocked
    BY <2>1 DEF StopTxBaSessionLocked
  <2>2. CASE StopTxBaSessionQuiesce
    BY <2>2 DEF StopTxBaSessionQuiesce, DelTimers
  <2>3. CASE StopTxBaSessionDriver
    BY <2>3 DEF StopTxBaSessionDriver
  <2>4. CASE StopTxBaSessionFlush
    BY <2>4 DEF StopTxBaSessionFlush
  <2>5. CASE StopTxBaCb
    BY <2>5 DEF StopTxBaCb, DelbaDue
  <2>6. CASE SendDelba
    BY <2>6 DEF SendDelba
  <2> QED
    BY <1>11, <2>1, <2>2, <2>3, <2>4, <2>5, <2>6 DEF Stopping
<1>12. CASE Removing
  <2>1. CASE TearDownCancel
    BY <2>1 DEF TearDownCancel
  <2>2. CASE DestroyUnlink
    BY <2>2 DEF DestroyUnlink
  <2>3. CASE DestroyAgain
    BY <2>3 DEF DestroyAgain
  <2>4. CASE DestroyFree
    BY <2>4 DEF DestroyFree
  <2> QED
    BY <1>12, <2>1, <2>2, <2>3, <2>4 DEF Removing
<1>13. CASE Transmitter
  BY <1>13 DEF Transmitter, TxDequeue, TxHandlers, HandToDriver, NextSeq
<1>14. CASE PeerAnswers
  BY <1>14 DEF PeerAnswers
<1>15. CASE UNCHANGED vars
  BY <1>15
<1> QED
  BY <1>1, <1>2, <1>3, <1>4, <1>5, <1>6, <1>7, <1>8,
     <1>9, <1>10, <1>11, <1>12, <1>13, <1>14, <1>15 DEF Next, Continue

(* The holder of the wiphy mutex only goes to points that exist, return    *)
(* points included.                                                        *)
LEMMA ControlTypeStep == TypeOK /\ [Next]_vars => ControlType'
<1> SUFFICES ASSUME TypeOK, [Next]_vars PROVE ControlType'
  OBVIOUS
<1> USE BaTxAssumption, Names DEF TypeOK, MlmeType, SessionType, TxqType, ControlType
<1>1. CASE Softirq
  BY <1>1 DEF Softirq, FindStation, StartTxBaSessionCheck, StartTxBaSession,
     StopTxBaSession, SessionIdle, TooManyRequests
<1>2. CASE Timer
  BY <1>2 DEF Timer, AddbaRespTimerExpired, SessionTimerExpired
<1>3. CASE Driver
  BY <1>3 DEF Driver, StartTxBaCbIrqsafe, StopTxBaCbIrqsafe
<1>4. CASE Work
  BY <1>4 DEF Work, BaSessionWorkStart, BaSessionWork
<1>5. CASE Section
  <2>1. CASE ProcessAddbaResp
    BY <2>1 DEF ProcessAddbaResp, AfterResponse
  <2>2. CASE ProcessDelba
    BY <2>2 DEF ProcessDelba
  <2>3. CASE BlockBa
    BY <2>3 DEF BlockBa
  <2>4. CASE UnblockBa
    BY <2>4 DEF UnblockBa
  <2>5. CASE DestroyBegin
    BY <2>5 DEF DestroyBegin
  <2> QED
    BY <1>5, <2>1, <2>2, <2>3, <2>4, <2>5 DEF Section
<1>6. CASE Worker
  BY <1>6 DEF Worker, BaSessionWorkRequeue, StartTxBaCb, WorkWantStop,
     WorkStopCb, AfterStartCb
<1>7. CASE Starting
  BY <1>7 DEF Starting, HandleStart, AskDriver, DriverStarts, DriverRefused
<1>8. CASE SendAddbaWithTimeout
  BY <1>8 DEF SendAddbaWithTimeout
<1>9. CASE AddbaRespDone
  BY <1>9 DEF AddbaRespDone
<1>10. CASE TurningOn
  <2>1. CASE DriverOperational
    BY <2>1 DEF DriverOperational, AmpduFlag
  <2>2. CASE MarkOperational
    BY <2>2 DEF MarkOperational, AmpduFlag
  <2>3. CASE AggStartTxqFlag
    BY <2>3 DEF AggStartTxqFlag, AmpduFlag
  <2>4. CASE AggStartTxqGo
    BY <2>4 DEF AggStartTxqGo, AmpduFlag
  <2> QED
    BY <1>10, <2>1, <2>2, <2>3, <2>4 DEF TurningOn
<1>11. CASE Stopping
  <2>1. CASE StopTxBaSessionLocked
    BY <2>1 DEF StopTxBaSessionLocked
  <2>2. CASE StopTxBaSessionQuiesce
    BY <2>2 DEF StopTxBaSessionQuiesce, DelTimers
  <2>3. CASE StopTxBaSessionDriver
    BY <2>3 DEF StopTxBaSessionDriver
  <2>4. CASE StopTxBaSessionFlush
    BY <2>4 DEF StopTxBaSessionFlush
  <2>5. CASE StopTxBaCb
    BY <2>5 DEF StopTxBaCb, DelbaDue
  <2>6. CASE SendDelba
    BY <2>6 DEF SendDelba
  <2> QED
    BY <1>11, <2>1, <2>2, <2>3, <2>4, <2>5, <2>6 DEF Stopping
<1>12. CASE Removing
  <2>1. CASE TearDownCancel
    BY <2>1 DEF TearDownCancel
  <2>2. CASE DestroyUnlink
    BY <2>2 DEF DestroyUnlink
  <2>3. CASE DestroyAgain
    BY <2>3 DEF DestroyAgain
  <2>4. CASE DestroyFree
    BY <2>4 DEF DestroyFree
  <2> QED
    BY <1>12, <2>1, <2>2, <2>3, <2>4 DEF Removing
<1>13. CASE Transmitter
  BY <1>13 DEF Transmitter, TxDequeue, TxHandlers, HandToDriver, NextSeq
<1>14. CASE PeerAnswers
  BY <1>14 DEF PeerAnswers
<1>15. CASE UNCHANGED vars
  BY <1>15
<1> QED
  BY <1>1, <1>2, <1>3, <1>4, <1>5, <1>6, <1>7, <1>8,
     <1>9, <1>10, <1>11, <1>12, <1>13, <1>14, <1>15 DEF Next, Continue

(* A fresh station is well typed. *)
LEMMA InitTyped == Init => TypeOK
<1> SUFFICES ASSUME Init PROVE TypeOK
  OBVIOUS
<1>1. 0 \in 0 .. SeqMod - 1 /\ 0 \in 0 .. MaxStarts
  BY BaTxAssumption
<1>2. MlmeType
  BY <1>1 DEF Init, MlmeType
<1>3. SessionType
  BY <1>1, Names DEF Init, SessionType
<1>4. TxqType
  BY <1>1 DEF Init, TxqType
<1>5. ControlType
  BY Names DEF Init, ControlType
<1> QED
  BY <1>2, <1>3, <1>4, <1>5 DEF TypeOK

(* Type correctness of every variable: the session numbers, the state      *)
(* bits, the sequence numbers and the points of the mutex holder.          *)
THEOREM TypeCorrect == Spec => []TypeOK
<1>1. Init => TypeOK
  BY InitTyped
<1>2. TypeOK /\ [Next]_vars => TypeOK'
  BY MlmeTypeStep, SessionTypeStep, TxqTypeStep, ControlTypeStep DEF TypeOK
<1> QED
  BY <1>1, <1>2, PTL DEF Spec

-----------------------------------------------------------------------------
(* The inductive invariant, one part at a time. *)

(* A session is put in place only by the worker, when there is none.       *)
LEMMA LifetimeStep == IInv /\ [Next]_vars => Lifetime'
<1> SUFFICES ASSUME IInv, [Next]_vars PROVE Lifetime'
  OBVIOUS
<1> USE BaTxAssumption, Names DEF IInv, TypeOK, MlmeType, SessionType, TxqType, ControlType,
        NoStartBesideSession, Opening, AmpduOnlyInSession, Early, Lifetime, Points,
        Returns, Handshake, Silence, Requests, Timers, Removal, SecondRound, QuietAfterFree
<1>1. CASE Softirq
  BY <1>1 DEF Softirq, FindStation, StartTxBaSessionCheck, StartTxBaSession,
     StopTxBaSession, SessionIdle, TooManyRequests
<1>2. CASE Timer
  BY <1>2 DEF Timer, AddbaRespTimerExpired, SessionTimerExpired
<1>3. CASE Driver
  BY <1>3 DEF Driver, StartTxBaCbIrqsafe, StopTxBaCbIrqsafe
<1>4. CASE Work
  BY <1>4 DEF Work, BaSessionWorkStart, BaSessionWork
<1>5. CASE Section
  BY <1>5 DEF Section, ProcessAddbaResp, ProcessDelba, BlockBa, UnblockBa,
     DestroyBegin, AfterResponse
<1>6. CASE Worker
  BY <1>6 DEF Worker, BaSessionWorkRequeue, StartTxBaCb, WorkWantStop,
     WorkStopCb, AfterStartCb
<1>7. CASE Starting
  BY <1>7 DEF Starting, HandleStart, AskDriver, DriverStarts, DriverRefused
<1>8. CASE SendAddbaWithTimeout
  BY <1>8 DEF SendAddbaWithTimeout
<1>9. CASE AddbaRespDone
  BY <1>9 DEF AddbaRespDone
<1>10. CASE TurningOn
  BY <1>10 DEF TurningOn, DriverOperational, MarkOperational,
     AggStartTxqFlag, AggStartTxqGo, AmpduFlag
<1>11. CASE Stopping
  BY <1>11 DEF Stopping, StopTxBaSessionLocked, StopTxBaSessionQuiesce,
     StopTxBaSessionDriver, StopTxBaSessionFlush, StopTxBaCb, SendDelba,
     DelTimers, DelbaDue
<1>12. CASE Removing
  BY <1>12 DEF Removing, TearDownCancel, DestroyUnlink, DestroyAgain,
     DestroyFree
<1>13. CASE Transmitter
  BY <1>13 DEF Transmitter, TxDequeue, TxHandlers, HandToDriver, NextSeq
<1>14. CASE PeerAnswers
  BY <1>14 DEF PeerAnswers
<1>15. CASE UNCHANGED vars
  BY <1>15
<1> QED
  BY <1>1, <1>2, <1>3, <1>4, <1>5, <1>6, <1>7, <1>8,
     <1>9, <1>10, <1>11, <1>12, <1>13, <1>14, <1>15 DEF Next, Continue

(* The lock, the driver call or the wait at each point leave what the next *)
(* point relies on.                                                        *)
LEMMA PointsStep == IInv /\ [Next]_vars => Points'
<1> SUFFICES ASSUME IInv, [Next]_vars PROVE Points'
  OBVIOUS
<1> USE BaTxAssumption, Names DEF IInv, TypeOK, MlmeType, SessionType, TxqType, ControlType,
        NoStartBesideSession, Opening, AmpduOnlyInSession, Early, Lifetime, Points,
        Returns, Handshake, Silence, Requests, Timers, Removal, SecondRound, QuietAfterFree
<1>1. CASE Softirq
  BY <1>1 DEF Softirq, FindStation, StartTxBaSessionCheck, StartTxBaSession,
     StopTxBaSession, SessionIdle, TooManyRequests
<1>2. CASE Timer
  BY <1>2 DEF Timer, AddbaRespTimerExpired, SessionTimerExpired
<1>3. CASE Driver
  BY <1>3 DEF Driver, StartTxBaCbIrqsafe, StopTxBaCbIrqsafe
<1>4. CASE Work
  BY <1>4 DEF Work, BaSessionWorkStart, BaSessionWork
<1>5. CASE Section
  BY <1>5 DEF Section, ProcessAddbaResp, ProcessDelba, BlockBa, UnblockBa,
     DestroyBegin, AfterResponse
<1>6. CASE Worker
  BY <1>6 DEF Worker, BaSessionWorkRequeue, StartTxBaCb, WorkWantStop,
     WorkStopCb, AfterStartCb
<1>7. CASE Starting
  BY <1>7 DEF Starting, HandleStart, AskDriver, DriverStarts, DriverRefused
<1>8. CASE SendAddbaWithTimeout
  BY <1>8 DEF SendAddbaWithTimeout
<1>9. CASE AddbaRespDone
  BY <1>9 DEF AddbaRespDone
<1>10. CASE TurningOn
  BY <1>10 DEF TurningOn, DriverOperational, MarkOperational,
     AggStartTxqFlag, AggStartTxqGo, AmpduFlag
<1>11. CASE Stopping
  BY <1>11 DEF Stopping, StopTxBaSessionLocked, StopTxBaSessionQuiesce,
     StopTxBaSessionDriver, StopTxBaSessionFlush, StopTxBaCb, SendDelba,
     DelTimers, DelbaDue
<1>12. CASE Removing
  BY <1>12 DEF Removing, TearDownCancel, DestroyUnlink, DestroyAgain,
     DestroyFree
<1>13. CASE Transmitter
  BY <1>13 DEF Transmitter, TxDequeue, TxHandlers, HandToDriver, NextSeq
<1>14. CASE PeerAnswers
  BY <1>14 DEF PeerAnswers
<1>15. CASE UNCHANGED vars
  BY <1>15
<1> QED
  BY <1>1, <1>2, <1>3, <1>4, <1>5, <1>6, <1>7, <1>8,
     <1>9, <1>10, <1>11, <1>12, <1>13, <1>14, <1>15 DEF Next, Continue

(* A subroutine that may end the session is never called from              *)
(* process_addba_resp().                                                   *)
LEMMA ReturnsStep == IInv /\ [Next]_vars => Returns'
<1> SUFFICES ASSUME IInv, [Next]_vars PROVE Returns'
  OBVIOUS
<1> USE BaTxAssumption, Names DEF IInv, TypeOK, MlmeType, SessionType, TxqType, ControlType,
        NoStartBesideSession, Opening, AmpduOnlyInSession, Early, Lifetime, Points,
        Returns, Handshake, Silence, Requests, Timers, Removal, SecondRound, QuietAfterFree
<1>1. CASE Softirq
  BY <1>1 DEF Softirq, FindStation, StartTxBaSessionCheck, StartTxBaSession,
     StopTxBaSession, SessionIdle, TooManyRequests
<1>2. CASE Timer
  BY <1>2 DEF Timer, AddbaRespTimerExpired, SessionTimerExpired
<1>3. CASE Driver
  BY <1>3 DEF Driver, StartTxBaCbIrqsafe, StopTxBaCbIrqsafe
<1>4. CASE Work
  BY <1>4 DEF Work, BaSessionWorkStart, BaSessionWork
<1>5. CASE Section
  BY <1>5 DEF Section, ProcessAddbaResp, ProcessDelba, BlockBa, UnblockBa,
     DestroyBegin, AfterResponse
<1>6. CASE Worker
  BY <1>6 DEF Worker, BaSessionWorkRequeue, StartTxBaCb, WorkWantStop,
     WorkStopCb, AfterStartCb
<1>7. CASE Starting
  BY <1>7 DEF Starting, HandleStart, AskDriver, DriverStarts, DriverRefused
<1>8. CASE SendAddbaWithTimeout
  BY <1>8 DEF SendAddbaWithTimeout
<1>9. CASE AddbaRespDone
  BY <1>9 DEF AddbaRespDone
<1>10. CASE TurningOn
  BY <1>10 DEF TurningOn, DriverOperational, MarkOperational,
     AggStartTxqFlag, AggStartTxqGo, AmpduFlag
<1>11. CASE Stopping
  BY <1>11 DEF Stopping, StopTxBaSessionLocked, StopTxBaSessionQuiesce,
     StopTxBaSessionDriver, StopTxBaSessionFlush, StopTxBaCb, SendDelba,
     DelTimers, DelbaDue
<1>12. CASE Removing
  BY <1>12 DEF Removing, TearDownCancel, DestroyUnlink, DestroyAgain,
     DestroyFree
<1>13. CASE Transmitter
  BY <1>13 DEF Transmitter, TxDequeue, TxHandlers, HandToDriver, NextSeq
<1>14. CASE PeerAnswers
  BY <1>14 DEF PeerAnswers
<1>15. CASE UNCHANGED vars
  BY <1>15
<1> QED
  BY <1>1, <1>2, <1>3, <1>4, <1>5, <1>6, <1>7, <1>8,
     <1>9, <1>10, <1>11, <1>12, <1>13, <1>14, <1>15 DEF Next, Continue

(* Each callback finds the session in the state the driver was called in.  *)
LEMMA HandshakeStep == IInv /\ [Next]_vars => Handshake'
<1> SUFFICES ASSUME IInv, [Next]_vars PROVE Handshake'
  OBVIOUS
<1> USE BaTxAssumption, Names DEF IInv, TypeOK, MlmeType, SessionType, TxqType, ControlType,
        NoStartBesideSession, Opening, AmpduOnlyInSession, Early, Lifetime, Points,
        Returns, Handshake, Silence, Requests, Timers, Removal, SecondRound, QuietAfterFree
<1>1. CASE Softirq
  BY <1>1 DEF Softirq, FindStation, StartTxBaSessionCheck, StartTxBaSession,
     StopTxBaSession, SessionIdle, TooManyRequests
<1>2. CASE Timer
  BY <1>2 DEF Timer, AddbaRespTimerExpired, SessionTimerExpired
<1>3. CASE Driver
  BY <1>3 DEF Driver, StartTxBaCbIrqsafe, StopTxBaCbIrqsafe
<1>4. CASE Work
  BY <1>4 DEF Work, BaSessionWorkStart, BaSessionWork
<1>5. CASE Section
  BY <1>5 DEF Section, ProcessAddbaResp, ProcessDelba, BlockBa, UnblockBa,
     DestroyBegin, AfterResponse
<1>6. CASE Worker
  BY <1>6 DEF Worker, BaSessionWorkRequeue, StartTxBaCb, WorkWantStop,
     WorkStopCb, AfterStartCb
<1>7. CASE Starting
  BY <1>7 DEF Starting, HandleStart, AskDriver, DriverStarts, DriverRefused
<1>8. CASE SendAddbaWithTimeout
  BY <1>8 DEF SendAddbaWithTimeout
<1>9. CASE AddbaRespDone
  BY <1>9 DEF AddbaRespDone
<1>10. CASE TurningOn
  BY <1>10 DEF TurningOn, DriverOperational, MarkOperational,
     AggStartTxqFlag, AggStartTxqGo, AmpduFlag
<1>11. CASE Stopping
  BY <1>11 DEF Stopping, StopTxBaSessionLocked, StopTxBaSessionQuiesce,
     StopTxBaSessionDriver, StopTxBaSessionFlush, StopTxBaCb, SendDelba,
     DelTimers, DelbaDue
<1>12. CASE Removing
  BY <1>12 DEF Removing, TearDownCancel, DestroyUnlink, DestroyAgain,
     DestroyFree
<1>13. CASE Transmitter
  BY <1>13 DEF Transmitter, TxDequeue, TxHandlers, HandToDriver, NextSeq
<1>14. CASE PeerAnswers
  BY <1>14 DEF PeerAnswers
<1>15. CASE UNCHANGED vars
  BY <1>15
<1> QED
  BY <1>1, <1>2, <1>3, <1>4, <1>5, <1>6, <1>7, <1>8,
     <1>9, <1>10, <1>11, <1>12, <1>13, <1>14, <1>15 DEF Next, Continue

(* synchronize_net() and IEEE80211_TXQ_STOP keep frames out while the      *)
(* session changes.                                                        *)
LEMMA SilenceStep == IInv /\ [Next]_vars => Silence'
<1> SUFFICES ASSUME IInv, [Next]_vars PROVE Silence'
  OBVIOUS
<1> USE BaTxAssumption, Names DEF IInv, TypeOK, MlmeType, SessionType, TxqType, ControlType,
        NoStartBesideSession, Opening, AmpduOnlyInSession, Early, Lifetime, Points,
        Returns, Handshake, Silence, Requests, Timers, Removal, SecondRound, QuietAfterFree
<1>1. CASE Softirq
  BY <1>1 DEF Softirq, FindStation, StartTxBaSessionCheck, StartTxBaSession,
     StopTxBaSession, SessionIdle, TooManyRequests
<1>2. CASE Timer
  BY <1>2 DEF Timer, AddbaRespTimerExpired, SessionTimerExpired
<1>3. CASE Driver
  BY <1>3 DEF Driver, StartTxBaCbIrqsafe, StopTxBaCbIrqsafe
<1>4. CASE Work
  BY <1>4 DEF Work, BaSessionWorkStart, BaSessionWork
<1>5. CASE Section
  BY <1>5 DEF Section, ProcessAddbaResp, ProcessDelba, BlockBa, UnblockBa,
     DestroyBegin, AfterResponse
<1>6. CASE Worker
  BY <1>6 DEF Worker, BaSessionWorkRequeue, StartTxBaCb, WorkWantStop,
     WorkStopCb, AfterStartCb
<1>7. CASE Starting
  BY <1>7 DEF Starting, HandleStart, AskDriver, DriverStarts, DriverRefused
<1>8. CASE SendAddbaWithTimeout
  BY <1>8 DEF SendAddbaWithTimeout
<1>9. CASE AddbaRespDone
  BY <1>9 DEF AddbaRespDone
<1>10. CASE TurningOn
  BY <1>10 DEF TurningOn, DriverOperational, MarkOperational,
     AggStartTxqFlag, AggStartTxqGo, AmpduFlag
<1>11. CASE Stopping
  BY <1>11 DEF Stopping, StopTxBaSessionLocked, StopTxBaSessionQuiesce,
     StopTxBaSessionDriver, StopTxBaSessionFlush, StopTxBaCb, SendDelba,
     DelTimers, DelbaDue
<1>12. CASE Removing
  BY <1>12 DEF Removing, TearDownCancel, DestroyUnlink, DestroyAgain,
     DestroyFree
<1>13. CASE Transmitter
  BY <1>13 DEF Transmitter, TxDequeue, TxHandlers, HandToDriver, NextSeq
<1>14. CASE PeerAnswers
  BY <1>14 DEF PeerAnswers
<1>15. CASE UNCHANGED vars
  BY <1>15
<1> QED
  BY <1>1, <1>2, <1>3, <1>4, <1>5, <1>6, <1>7, <1>8,
     <1>9, <1>10, <1>11, <1>12, <1>13, <1>14, <1>15 DEF Next, Continue

(* Each session's request is new to the peer.                              *)
LEMMA RequestsStep == IInv /\ [Next]_vars => Requests'
<1> SUFFICES ASSUME IInv, [Next]_vars PROVE Requests'
  OBVIOUS
<1> USE BaTxAssumption, Names DEF IInv, TypeOK, MlmeType, SessionType, TxqType, ControlType,
        NoStartBesideSession, Opening, AmpduOnlyInSession, Early, Lifetime, Points,
        Returns, Handshake, Silence, Requests, Timers, Removal, SecondRound, QuietAfterFree
<1>1. CASE Softirq
  BY <1>1 DEF Softirq, FindStation, StartTxBaSessionCheck, StartTxBaSession,
     StopTxBaSession, SessionIdle, TooManyRequests
<1>2. CASE Timer
  BY <1>2 DEF Timer, AddbaRespTimerExpired, SessionTimerExpired
<1>3. CASE Driver
  BY <1>3 DEF Driver, StartTxBaCbIrqsafe, StopTxBaCbIrqsafe
<1>4. CASE Work
  BY <1>4 DEF Work, BaSessionWorkStart, BaSessionWork
<1>5. CASE Section
  BY <1>5 DEF Section, ProcessAddbaResp, ProcessDelba, BlockBa, UnblockBa,
     DestroyBegin, AfterResponse
<1>6. CASE Worker
  BY <1>6 DEF Worker, BaSessionWorkRequeue, StartTxBaCb, WorkWantStop,
     WorkStopCb, AfterStartCb
<1>7. CASE Starting
  BY <1>7 DEF Starting, HandleStart, AskDriver, DriverStarts, DriverRefused
<1>8. CASE SendAddbaWithTimeout
  BY <1>8 DEF SendAddbaWithTimeout
<1>9. CASE AddbaRespDone
  BY <1>9 DEF AddbaRespDone
<1>10. CASE TurningOn
  BY <1>10 DEF TurningOn, DriverOperational, MarkOperational,
     AggStartTxqFlag, AggStartTxqGo, AmpduFlag
<1>11. CASE Stopping
  BY <1>11 DEF Stopping, StopTxBaSessionLocked, StopTxBaSessionQuiesce,
     StopTxBaSessionDriver, StopTxBaSessionFlush, StopTxBaCb, SendDelba,
     DelTimers, DelbaDue
<1>12. CASE Removing
  BY <1>12 DEF Removing, TearDownCancel, DestroyUnlink, DestroyAgain,
     DestroyFree
<1>13. CASE Transmitter
  BY <1>13 DEF Transmitter, TxDequeue, TxHandlers, HandToDriver, NextSeq
<1>14. CASE PeerAnswers
  BY <1>14 DEF PeerAnswers
<1>15. CASE UNCHANGED vars
  BY <1>15
<1> QED
  BY <1>1, <1>2, <1>3, <1>4, <1>5, <1>6, <1>7, <1>8,
     <1>9, <1>10, <1>11, <1>12, <1>13, <1>14, <1>15 DEF Next, Continue

(* The timers are armed by a session that lives and deleted before it ends.*)
LEMMA TimersStep == IInv /\ [Next]_vars => Timers'
<1> SUFFICES ASSUME IInv, [Next]_vars PROVE Timers'
  OBVIOUS
<1> USE BaTxAssumption, Names DEF IInv, TypeOK, MlmeType, SessionType, TxqType, ControlType,
        NoStartBesideSession, Opening, AmpduOnlyInSession, Early, Lifetime, Points,
        Returns, Handshake, Silence, Requests, Timers, Removal, SecondRound, QuietAfterFree
<1>1. CASE Softirq
  BY <1>1 DEF Softirq, FindStation, StartTxBaSessionCheck, StartTxBaSession,
     StopTxBaSession, SessionIdle, TooManyRequests
<1>2. CASE Timer
  BY <1>2 DEF Timer, AddbaRespTimerExpired, SessionTimerExpired
<1>3. CASE Driver
  BY <1>3 DEF Driver, StartTxBaCbIrqsafe, StopTxBaCbIrqsafe
<1>4. CASE Work
  BY <1>4 DEF Work, BaSessionWorkStart, BaSessionWork
<1>5. CASE Section
  BY <1>5 DEF Section, ProcessAddbaResp, ProcessDelba, BlockBa, UnblockBa,
     DestroyBegin, AfterResponse
<1>6. CASE Worker
  BY <1>6 DEF Worker, BaSessionWorkRequeue, StartTxBaCb, WorkWantStop,
     WorkStopCb, AfterStartCb
<1>7. CASE Starting
  BY <1>7 DEF Starting, HandleStart, AskDriver, DriverStarts, DriverRefused
<1>8. CASE SendAddbaWithTimeout
  BY <1>8 DEF SendAddbaWithTimeout
<1>9. CASE AddbaRespDone
  BY <1>9 DEF AddbaRespDone
<1>10. CASE TurningOn
  BY <1>10 DEF TurningOn, DriverOperational, MarkOperational,
     AggStartTxqFlag, AggStartTxqGo, AmpduFlag
<1>11. CASE Stopping
  BY <1>11 DEF Stopping, StopTxBaSessionLocked, StopTxBaSessionQuiesce,
     StopTxBaSessionDriver, StopTxBaSessionFlush, StopTxBaCb, SendDelba,
     DelTimers, DelbaDue
<1>12. CASE Removing
  BY <1>12 DEF Removing, TearDownCancel, DestroyUnlink, DestroyAgain,
     DestroyFree
<1>13. CASE Transmitter
  BY <1>13 DEF Transmitter, TxDequeue, TxHandlers, HandToDriver, NextSeq
<1>14. CASE PeerAnswers
  BY <1>14 DEF PeerAnswers
<1>15. CASE UNCHANGED vars
  BY <1>15
<1> QED
  BY <1>1, <1>2, <1>3, <1>4, <1>5, <1>6, <1>7, <1>8,
     <1>9, <1>10, <1>11, <1>12, <1>13, <1>14, <1>15 DEF Next, Continue

(* The removal is on its way: no session lives, the readers are known.     *)
LEMMA RemovalStep == IInv /\ [Next]_vars => Removal'
<1> SUFFICES ASSUME IInv, [Next]_vars PROVE Removal'
  OBVIOUS
<1> USE BaTxAssumption, Names DEF IInv, TypeOK, MlmeType, SessionType, TxqType, ControlType,
        NoStartBesideSession, Opening, AmpduOnlyInSession, Early, Lifetime, Points,
        Returns, Handshake, Silence, Requests, Timers, Removal, SecondRound, QuietAfterFree
<1>1. CASE Softirq
  BY <1>1 DEF Softirq, FindStation, StartTxBaSessionCheck, StartTxBaSession,
     StopTxBaSession, SessionIdle, TooManyRequests
<1>2. CASE Timer
  BY <1>2 DEF Timer, AddbaRespTimerExpired, SessionTimerExpired
<1>3. CASE Driver
  BY <1>3 DEF Driver, StartTxBaCbIrqsafe, StopTxBaCbIrqsafe
<1>4. CASE Work
  BY <1>4 DEF Work, BaSessionWorkStart, BaSessionWork
<1>5. CASE Section
  BY <1>5 DEF Section, ProcessAddbaResp, ProcessDelba, BlockBa, UnblockBa,
     DestroyBegin, AfterResponse
<1>6. CASE Worker
  BY <1>6 DEF Worker, BaSessionWorkRequeue, StartTxBaCb, WorkWantStop,
     WorkStopCb, AfterStartCb
<1>7. CASE Starting
  BY <1>7 DEF Starting, HandleStart, AskDriver, DriverStarts, DriverRefused
<1>8. CASE SendAddbaWithTimeout
  BY <1>8 DEF SendAddbaWithTimeout
<1>9. CASE AddbaRespDone
  BY <1>9 DEF AddbaRespDone
<1>10. CASE TurningOn
  BY <1>10 DEF TurningOn, DriverOperational, MarkOperational,
     AggStartTxqFlag, AggStartTxqGo, AmpduFlag
<1>11. CASE Stopping
  BY <1>11 DEF Stopping, StopTxBaSessionLocked, StopTxBaSessionQuiesce,
     StopTxBaSessionDriver, StopTxBaSessionFlush, StopTxBaCb, SendDelba,
     DelTimers, DelbaDue
<1>12. CASE Removing
  BY <1>12 DEF Removing, TearDownCancel, DestroyUnlink, DestroyAgain,
     DestroyFree
<1>13. CASE Transmitter
  BY <1>13 DEF Transmitter, TxDequeue, TxHandlers, HandToDriver, NextSeq
<1>14. CASE PeerAnswers
  BY <1>14 DEF PeerAnswers
<1>15. CASE UNCHANGED vars
  BY <1>15
<1> QED
  BY <1>1, <1>2, <1>3, <1>4, <1>5, <1>6, <1>7, <1>8,
     <1>9, <1>10, <1>11, <1>12, <1>13, <1>14, <1>15 DEF Next, Continue

(* After the readers are gone nobody is left to queue work.                *)
LEMMA SecondRoundStep == IInv /\ [Next]_vars => SecondRound'
<1> SUFFICES ASSUME IInv, [Next]_vars PROVE SecondRound'
  OBVIOUS
<1> USE BaTxAssumption, Names DEF IInv, TypeOK, MlmeType, SessionType, TxqType, ControlType,
        NoStartBesideSession, Opening, AmpduOnlyInSession, Early, Lifetime, Points,
        Returns, Handshake, Silence, Requests, Timers, Removal, SecondRound, QuietAfterFree
<1>1. CASE Softirq
  BY <1>1 DEF Softirq, FindStation, StartTxBaSessionCheck, StartTxBaSession,
     StopTxBaSession, SessionIdle, TooManyRequests
<1>2. CASE Timer
  BY <1>2 DEF Timer, AddbaRespTimerExpired, SessionTimerExpired
<1>3. CASE Driver
  BY <1>3 DEF Driver, StartTxBaCbIrqsafe, StopTxBaCbIrqsafe
<1>4. CASE Work
  BY <1>4 DEF Work, BaSessionWorkStart, BaSessionWork
<1>5. CASE Section
  BY <1>5 DEF Section, ProcessAddbaResp, ProcessDelba, BlockBa, UnblockBa,
     DestroyBegin, AfterResponse
<1>6. CASE Worker
  BY <1>6 DEF Worker, BaSessionWorkRequeue, StartTxBaCb, WorkWantStop,
     WorkStopCb, AfterStartCb
<1>7. CASE Starting
  BY <1>7 DEF Starting, HandleStart, AskDriver, DriverStarts, DriverRefused
<1>8. CASE SendAddbaWithTimeout
  BY <1>8 DEF SendAddbaWithTimeout
<1>9. CASE AddbaRespDone
  BY <1>9 DEF AddbaRespDone
<1>10. CASE TurningOn
  BY <1>10 DEF TurningOn, DriverOperational, MarkOperational,
     AggStartTxqFlag, AggStartTxqGo, AmpduFlag
<1>11. CASE Stopping
  BY <1>11 DEF Stopping, StopTxBaSessionLocked, StopTxBaSessionQuiesce,
     StopTxBaSessionDriver, StopTxBaSessionFlush, StopTxBaCb, SendDelba,
     DelTimers, DelbaDue
<1>12. CASE Removing
  BY <1>12 DEF Removing, TearDownCancel, DestroyUnlink, DestroyAgain,
     DestroyFree
<1>13. CASE Transmitter
  BY <1>13 DEF Transmitter, TxDequeue, TxHandlers, HandToDriver, NextSeq
<1>14. CASE PeerAnswers
  BY <1>14 DEF PeerAnswers
<1>15. CASE UNCHANGED vars
  BY <1>15
<1> QED
  BY <1>1, <1>2, <1>3, <1>4, <1>5, <1>6, <1>7, <1>8,
     <1>9, <1>10, <1>11, <1>12, <1>13, <1>14, <1>15 DEF Next, Continue

(* A freed station stays alone.                                            *)
LEMMA QuietAfterFreeStep == IInv /\ [Next]_vars => QuietAfterFree'
<1> SUFFICES ASSUME IInv, [Next]_vars PROVE QuietAfterFree'
  OBVIOUS
<1> USE BaTxAssumption, Names DEF IInv, TypeOK, MlmeType, SessionType, TxqType, ControlType,
        NoStartBesideSession, Opening, AmpduOnlyInSession, Early, Lifetime, Points,
        Returns, Handshake, Silence, Requests, Timers, Removal, SecondRound, QuietAfterFree
<1>1. CASE Softirq
  BY <1>1 DEF Softirq, FindStation, StartTxBaSessionCheck, StartTxBaSession,
     StopTxBaSession, SessionIdle, TooManyRequests
<1>2. CASE Timer
  BY <1>2 DEF Timer, AddbaRespTimerExpired, SessionTimerExpired
<1>3. CASE Driver
  BY <1>3 DEF Driver, StartTxBaCbIrqsafe, StopTxBaCbIrqsafe
<1>4. CASE Work
  BY <1>4 DEF Work, BaSessionWorkStart, BaSessionWork
<1>5. CASE Section
  BY <1>5 DEF Section, ProcessAddbaResp, ProcessDelba, BlockBa, UnblockBa,
     DestroyBegin, AfterResponse
<1>6. CASE Worker
  BY <1>6 DEF Worker, BaSessionWorkRequeue, StartTxBaCb, WorkWantStop,
     WorkStopCb, AfterStartCb
<1>7. CASE Starting
  BY <1>7 DEF Starting, HandleStart, AskDriver, DriverStarts, DriverRefused
<1>8. CASE SendAddbaWithTimeout
  BY <1>8 DEF SendAddbaWithTimeout
<1>9. CASE AddbaRespDone
  BY <1>9 DEF AddbaRespDone
<1>10. CASE TurningOn
  BY <1>10 DEF TurningOn, DriverOperational, MarkOperational,
     AggStartTxqFlag, AggStartTxqGo, AmpduFlag
<1>11. CASE Stopping
  BY <1>11 DEF Stopping, StopTxBaSessionLocked, StopTxBaSessionQuiesce,
     StopTxBaSessionDriver, StopTxBaSessionFlush, StopTxBaCb, SendDelba,
     DelTimers, DelbaDue
<1>12. CASE Removing
  BY <1>12 DEF Removing, TearDownCancel, DestroyUnlink, DestroyAgain,
     DestroyFree
<1>13. CASE Transmitter
  BY <1>13 DEF Transmitter, TxDequeue, TxHandlers, HandToDriver, NextSeq
<1>14. CASE PeerAnswers
  BY <1>14 DEF PeerAnswers
<1>15. CASE UNCHANGED vars
  BY <1>15
<1> QED
  BY <1>1, <1>2, <1>3, <1>4, <1>5, <1>6, <1>7, <1>8,
     <1>9, <1>10, <1>11, <1>12, <1>13, <1>14, <1>15 DEF Next, Continue

(* The inductive invariant holds of the freshly inserted station and is    *)
(* kept by every step.                                                     *)
THEOREM Invariant == Spec => []IInv
<1>1. Init => IInv
  <2> SUFFICES ASSUME Init PROVE IInv
    OBVIOUS
  <2>1. TypeOK
    BY InitTyped
  <2>2. Lifetime /\ Points /\ Returns /\ Timers /\ Removal /\ SecondRound /\ QuietAfterFree
    BY DEF Init, Lifetime, NoStartBesideSession, Points, Early, Returns, Timers, Removal,
           SecondRound, QuietAfterFree
  <2>3. Handshake /\ Silence /\ Requests
    BY BaTxAssumption DEF Init, Handshake, Silence, Opening, AmpduOnlyInSession, Requests
  <2> QED
    BY <2>1, <2>2, <2>3 DEF IInv
<1>2. IInv /\ [Next]_vars => IInv'
  <2> SUFFICES ASSUME IInv, [Next]_vars PROVE IInv'
    OBVIOUS
  <2>1. TypeOK'
    BY MlmeTypeStep, SessionTypeStep, TxqTypeStep, ControlTypeStep DEF IInv, TypeOK
  <2>2. Lifetime' /\ Points' /\ Returns' /\ Handshake' /\ Silence'
    BY LifetimeStep, PointsStep, ReturnsStep, HandshakeStep, SilenceStep
  <2>3. Requests' /\ Timers' /\ Removal' /\ SecondRound' /\ QuietAfterFree'
    BY RequestsStep, TimersStep, RemovalStep, SecondRoundStep, QuietAfterFreeStep
  <2> QED
    BY <2>1, <2>2, <2>3 DEF IInv
<1> QED
  BY <1>1, <1>2, PTL DEF Spec

-----------------------------------------------------------------------------
(* What follows from it. *)

(* ht.c:429 "could there be a race?": a start is never pending beside a    *)
(* live session, so the worker overwrites nothing.                         *)
THEOREM NoRace == Spec => []NoStartBesideSession
<1>1. IInv => NoStartBesideSession
  BY DEF IInv, Lifetime
<1> QED
  BY <1>1, Invariant, PTL

(* No sequence number is used up between the ADDBA request that announces  *)
(* it and the first aggregated frame (agg-tx.c:204, 520-528).              *)
THEOREM SsnKept == Spec => []SsnAnnounced
<1>1. IInv => SsnAnnounced
  BY DEF IInv, Points, Early, Silence, Opening, SsnAnnounced
<1> QED
  BY <1>1, Invariant, PTL

(* Aggregated frames are in the transmitter only while the driver has an   *)
(* operational session (agg-tx.c:386-398).                                 *)
THEOREM AmpduInSession == Spec => []AmpduOnlyInSession
<1>1. IInv => AmpduOnlyInSession
  BY DEF IInv, Silence
<1> QED
  BY <1>1, Invariant, PTL

(* The timers embedded in a session are deleted before it is freed         *)
(* (agg-tx.c:374-375).                                                     *)
THEOREM TimersDeleted == Spec => []TimersOwned
<1>1. IInv => TimersOwned
  BY DEF IInv, Points, Timers, Removal, TimersOwned, Early
<1> QED
  BY <1>1, Invariant, PTL

(* Nothing refers to a station that has been freed: the two rounds of the  *)
(* destruction with synchronize_net() in between see to it                 *)
(* (sta_info.c:1421-1433).                                                 *)
THEOREM FreedIsQuiet == Spec => []QuietAfterFree
<1>1. IInv => QuietAfterFree
  BY DEF IInv
<1> QED
  BY <1>1, Invariant, PTL

(* Neither a timer, nor work, nor a reader comes after the end of what it  *)
(* belongs to.                                                             *)
THEOREM EndIsQuiet == Spec => []QuietAfterEnd
<1>1. TimersOwned /\ QuietAfterFree => QuietAfterEnd
  BY DEF QuietAfterEnd
<1> QED
  BY <1>1, TimersDeleted, FreedIsQuiet, PTL

(* The warnings of agg-tx.c 493 and 802 do not trigger, and every step of  *)
(* the worker that uses the session finds it in place.                     *)
THEOREM WarningsSilent == Spec => []NoWarning
<1>1. IInv => NoWarning
  BY DEF IInv, Points, Early, Handshake, NoWarning, TypeOK, SessionType
<1> QED
  BY <1>1, Invariant, PTL

-----------------------------------------------------------------------------
(* The contract of the driver: what the driver sees of one TID is a        *)
(* correct sequence of sessions.                                           *)

(* The fresh station starts with an idle driver. *)
LEMMA InitRefines == Init => Contract!ContractInit
  BY DEF Init, Contract!ContractInit

(* Every step of BaTx is a step of the contract or leaves the driver's     *)
(* state and the frame on its way to it alone.                             *)
LEMMA StepRefines == IInv /\ IInv' /\ [Next]_vars => [Contract!ContractNext]_(Contract!contractVars)
<1> SUFFICES ASSUME IInv, IInv', [Next]_vars PROVE [Contract!ContractNext]_(Contract!contractVars)
  OBVIOUS
<1> USE DEF Contract!ContractNext, Contract!contractVars
<1>1. CASE Softirq
  BY <1>1 DEF Softirq, FindStation, StartTxBaSessionCheck, StartTxBaSession, StopTxBaSession
<1>2. CASE Timer
  BY <1>2 DEF Timer, AddbaRespTimerExpired, SessionTimerExpired
<1>3. CASE Driver
  BY <1>3 DEF Driver, StartTxBaCbIrqsafe, StopTxBaCbIrqsafe, Contract!Ready, Contract!Finished
<1>4. CASE Work
  BY <1>4 DEF Work, BaSessionWorkStart, BaSessionWork
<1>5. CASE Section
  BY <1>5 DEF Section, ProcessAddbaResp, ProcessDelba, BlockBa, UnblockBa,
     DestroyBegin, AfterResponse
<1>6. CASE Worker
  BY <1>6 DEF Worker, BaSessionWorkRequeue, StartTxBaCb, WorkWantStop,
     WorkStopCb, AfterStartCb
<1>7. CASE Starting
  BY <1>7 DEF Starting, HandleStart, AskDriver, DriverStarts, DriverRefused,
     IInv, Points, Early, Contract!Start
<1>8. CASE SendAddbaWithTimeout
  BY <1>8 DEF SendAddbaWithTimeout
<1>9. CASE AddbaRespDone
  BY <1>9 DEF AddbaRespDone
<1>10. CASE TurningOn
  BY <1>10 DEF TurningOn, DriverOperational, MarkOperational, AggStartTxqFlag, AggStartTxqGo,
     IInv, Points, Contract!Operational
<1>11. CASE Stopping
  BY <1>11 DEF Stopping, StopTxBaSessionLocked, StopTxBaSessionQuiesce, StopTxBaSessionDriver,
     StopTxBaSessionFlush, StopTxBaCb, SendDelba, IInv, Points, Silence, Contract!Stop, Contract!Flush
<1>12. CASE Removing
  BY <1>12 DEF Removing, TearDownCancel, DestroyUnlink, DestroyAgain, DestroyFree
<1>13. CASE Transmitter
  BY <1>13 DEF Transmitter, TxDequeue, TxHandlers, HandToDriver, IInv, Silence,
     Contract!PassFrame, Contract!Arrive
<1>14. CASE PeerAnswers
  BY <1>14 DEF PeerAnswers
<1>15. CASE UNCHANGED vars
  BY <1>15
<1> QED
  BY <1>1, <1>2, <1>3, <1>4, <1>5, <1>6, <1>7, <1>8,
     <1>9, <1>10, <1>11, <1>12, <1>13, <1>14, <1>15 DEF Next, Continue

(* BaTx implements AmpduContract. *)
THEOREM Refines == Spec => DriverContract
  BY InitRefines, StepRefines, Invariant, PTL
     DEF Spec, DriverContract, Contract!ContractSpec

-----------------------------------------------------------------------------
(* Whose answer is it?  The dialog token is a u8 that wraps, so a response *)
(* can be told from a late one to an earlier request only as long as fewer *)
(* sessions than tokens were started (DistinctTokens).  Then a session     *)
(* only ever counts the answer to its own request, and no half-open        *)
(* agreement is left behind.                                               *)

DistinctTokens == MaxStarts < TokenMod

(* A positive answer that was counted is the session's own, and so is a    *)
(* negative one that ends it.                                              *)
Answers ==
  /\ OwnResponse
  /\ reason = "DECLINED" /\ pc \in {"stop", "stop_wait", "drv_stop"} /\ tid_tx # NULL
       => answer[tid_tx] = "declined"
  /\ stop_reason = "DECLINED" /\ Is("STOPPING") /\ pc \notin {"stop_wait", "drv_stop"}
       => answer[tid_tx] = "declined"

(* The token identifies the session. *)
LEMMA TokenIdentifies ==
  ASSUME DistinctTokens PROVE \A s, t \in Sessions : Token(s) = Token(t) => s = t
<1> SUFFICES ASSUME NEW s \in Sessions PROVE Token(s) = s
  OBVIOUS
<1>1. s \in 0 .. TokenMod - 1 /\ TokenMod \in Nat \ {0}
  BY BaTxAssumption DEF DistinctTokens
<1> QED
  BY <1>1 DEF Token

(* No step lets an answer count for another session. *)
LEMMA AnswersStep ==
  ASSUME DistinctTokens PROVE IInv /\ Answers /\ [Next]_vars => Answers'
<1> SUFFICES ASSUME IInv, Answers, [Next]_vars PROVE Answers'
  OBVIOUS
<1> USE BaTxAssumption, Names DEF IInv, TypeOK, MlmeType, SessionType, TxqType, ControlType,
        Lifetime, NoStartBesideSession, Points, Early, Returns, Handshake, Requests, Answers, OwnResponse
<1>1. CASE Softirq
  BY <1>1 DEF Softirq, FindStation, StartTxBaSessionCheck, StartTxBaSession,
     StopTxBaSession, SessionIdle, TooManyRequests
<1>2. CASE Timer
  BY <1>2 DEF Timer, AddbaRespTimerExpired, SessionTimerExpired
<1>3. CASE Driver
  BY <1>3 DEF Driver, StartTxBaCbIrqsafe, StopTxBaCbIrqsafe
<1>4. CASE Work
  BY <1>4 DEF Work, BaSessionWorkStart, BaSessionWork
<1>5. CASE Section
  <2>1. CASE ProcessAddbaResp
    <3>1. PICK s \in Sessions : ProcessAddbaResp!(s)
      BY <2>1 DEF ProcessAddbaResp
    <3>2. s = tid_tx
      BY <3>1, TokenIdentifies
    <3> QED
      BY <3>1, <3>2 DEF AfterResponse
  <2>2. CASE ProcessDelba \/ BlockBa \/ UnblockBa \/ DestroyBegin
    BY <2>2 DEF ProcessDelba, BlockBa, UnblockBa, DestroyBegin
  <2> QED
    BY <1>5, <2>1, <2>2 DEF Section
<1>6. CASE Worker
  BY <1>6 DEF Worker, BaSessionWorkRequeue, StartTxBaCb, WorkWantStop,
     WorkStopCb, AfterStartCb
<1>7. CASE Starting
  BY <1>7 DEF Starting, HandleStart, AskDriver, DriverStarts, DriverRefused
<1>8. CASE SendAddbaWithTimeout
  BY <1>8 DEF SendAddbaWithTimeout
<1>9. CASE AddbaRespDone
  BY <1>9 DEF AddbaRespDone
<1>10. CASE TurningOn
  BY <1>10 DEF TurningOn, DriverOperational, MarkOperational,
     AggStartTxqFlag, AggStartTxqGo, AmpduFlag
<1>11. CASE Stopping
  BY <1>11 DEF Stopping, StopTxBaSessionLocked, StopTxBaSessionQuiesce,
     StopTxBaSessionDriver, StopTxBaSessionFlush, StopTxBaCb, SendDelba,
     DelTimers, DelbaDue
<1>12. CASE Removing
  BY <1>12 DEF Removing, TearDownCancel, DestroyUnlink, DestroyAgain,
     DestroyFree
<1>13. CASE Transmitter
  BY <1>13 DEF Transmitter, TxDequeue, TxHandlers, HandToDriver, NextSeq
<1>14. CASE PeerAnswers
  BY <1>14 DEF PeerAnswers
<1>15. CASE UNCHANGED vars
  BY <1>15
<1> QED
  BY <1>1, <1>2, <1>3, <1>4, <1>5, <1>6, <1>7, <1>8,
     <1>9, <1>10, <1>11, <1>12, <1>13, <1>14, <1>15 DEF Next, Continue

(* A session counts as answered only when the peer accepted this very      *)
(* request (agg-tx.c:994-1030).                                            *)
THEOREM OnlyOwnResponse ==
  ASSUME DistinctTokens PROVE Spec => []OwnResponse
<1>1. Init => Answers
  BY DEF Init, Answers, OwnResponse
<1>2. IInv /\ Answers /\ [Next]_vars => Answers'
  BY AnswersStep
<1>3. Answers => OwnResponse
  BY DEF Answers
<1> QED
  BY <1>1, <1>2, <1>3, Invariant, PTL DEF Spec

(* Only the stop callback ends a session the peer has been asked for while *)
(* the station stays.                                                      *)
LEMMA EndOfSession ==
  ASSUME IInv, [Next]_vars, tid_tx # NULL, tid_tx' = NULL, sta' = "inserted",
         answer[tid_tx] # "none"
  PROVE  StopTxBaCb
<1> USE DEF IInv, TypeOK, MlmeType, SessionType, TxqType, ControlType, Lifetime, Points, Early,
        Requests
<1>1. CASE Softirq
  BY <1>1 DEF Softirq, FindStation, StartTxBaSessionCheck, StartTxBaSession,
     StopTxBaSession, SessionIdle, TooManyRequests
<1>2. CASE Timer
  BY <1>2 DEF Timer, AddbaRespTimerExpired, SessionTimerExpired
<1>3. CASE Driver
  BY <1>3 DEF Driver, StartTxBaCbIrqsafe, StopTxBaCbIrqsafe
<1>4. CASE Work
  BY <1>4 DEF Work, BaSessionWorkStart, BaSessionWork
<1>5. CASE Section
  BY <1>5 DEF Section, ProcessAddbaResp, ProcessDelba, BlockBa, UnblockBa,
     DestroyBegin, AfterResponse
<1>6. CASE Worker
  BY <1>6 DEF Worker, BaSessionWorkRequeue, StartTxBaCb, WorkWantStop,
     WorkStopCb, AfterStartCb
<1>7. CASE Starting
  BY <1>7 DEF Starting, HandleStart, AskDriver, DriverStarts, DriverRefused
<1>8. CASE SendAddbaWithTimeout
  BY <1>8 DEF SendAddbaWithTimeout
<1>9. CASE AddbaRespDone
  BY <1>9 DEF AddbaRespDone
<1>10. CASE TurningOn
  BY <1>10 DEF TurningOn, DriverOperational, MarkOperational,
     AggStartTxqFlag, AggStartTxqGo, AmpduFlag
<1>11. CASE Stopping
  BY <1>11 DEF Stopping, StopTxBaSessionLocked, StopTxBaSessionQuiesce,
     StopTxBaSessionDriver, StopTxBaSessionFlush, StopTxBaCb, SendDelba,
     DelTimers, DelbaDue
<1>12. CASE Removing
  BY <1>12 DEF Removing, TearDownCancel, DestroyUnlink, DestroyAgain,
     DestroyFree
<1>13. CASE Transmitter
  BY <1>13 DEF Transmitter, TxDequeue, TxHandlers, HandToDriver, NextSeq
<1>14. CASE PeerAnswers
  BY <1>14 DEF PeerAnswers
<1>15. CASE UNCHANGED vars
  BY <1>15
<1> QED
  BY <1>1, <1>2, <1>3, <1>4, <1>5, <1>6, <1>7, <1>8,
     <1>9, <1>10, <1>11, <1>12, <1>13, <1>14, <1>15 DEF Next, Continue

(* When a session the peer has been asked for ends, the peer gets a DELBA, *)
(* unless it ended or declined the session itself or the station is being  *)
(* removed (agg-tx.c:928-942).                                             *)
THEOREM NeverHalfOpen ==
  ASSUME DistinctTokens PROVE Spec => NoHalfOpen
<1> DEFINE A == tid_tx # NULL /\ tid_tx' = NULL /\ sta' = "inserted"
                  /\ answer[tid_tx] \in {"asked", "accepted"}
                => send_delba' \/ stop_reason \in {"PEER_REQUEST", "DESTROY_STA"}
<1>1. Init => Answers
  BY DEF Init, Answers, OwnResponse
<1>2. IInv /\ Answers /\ [Next]_vars => Answers'
  BY AnswersStep
<1>3. IInv /\ Answers /\ [Next]_vars => [A]_vars
  <2> SUFFICES ASSUME IInv, Answers, [Next]_vars, tid_tx # NULL, tid_tx' = NULL,
                      sta' = "inserted", answer[tid_tx] \in {"asked", "accepted"}
               PROVE  send_delba' \/ stop_reason \in {"PEER_REQUEST", "DESTROY_STA"}
    OBVIOUS
  <2>1. StopTxBaCb
    BY EndOfSession
  <2>2. Is("STOPPING") /\ stop_reason # "DECLINED"
    BY <2>1 DEF StopTxBaCb, IInv, Points, Answers
  <2>3. stop_reason \in {"LOCAL_REQUEST", "PEER_REQUEST", "DESTROY_STA"}
    BY <2>2 DEF IInv, TypeOK, SessionType, StopReasons
  <2>4. CASE stop_reason = "LOCAL_REQUEST"
    BY <2>1, <2>2, <2>4 DEF StopTxBaCb, DelbaDue
  <2> QED
    BY <2>3, <2>4
<1> QED
  BY <1>1, <1>2, <1>3, Invariant, PTL DEF Spec, NoHalfOpen
=============================================================================
