----------------------------- MODULE OffChannel -----------------------------
(***************************************************************************)
(* What takes mac80211's radio off its operating channel: scans (scan.c)   *)
(* and remain-on-channel items, ROCs (offchannel.c), which exclude each    *)
(* other and defer to each other.                                          *)
(*                                                                         *)
(* Everything here runs under the wiphy mutex: requests, and the wiphy     *)
(* works scan_work, roc_work, hw_roc_start and hw_roc_done, one after the  *)
(* other in the order in which they were queued (module WiphyWork).  What  *)
(* interrupts them is the driver, which reports the end of a scan and the  *)
(* begin and end of a ROC, and the receive path, which ends the wait for a *)
(* beacon.  A driver may do scans, ROCs, both or none of them itself; what *)
(* it does not do, mac80211 does in software.                              *)
(*                                                                         *)
(* A handler is an operator from the struct ieee80211_local it finds to    *)
(* the set of those it may leave: the driver's answers are the choice.     *)
(***************************************************************************)
EXTENDS Naturals, Sequences, SequencesExt

CONSTANTS
  Ifaces,       \* struct ieee80211_sub_if_data
  Chans, NoChan,
  Oper,         \* the operating channel
  Requests,     \* scan requests: who asks, for which interface and channels
  NoRequest,
  Rocs,         \* struct ieee80211_roc_work
  IfaceOf, ChanOf,
  HwBands,      \* bands of a hardware scan that takes one at a time
  Drivers       \* which of the operations a driver has, and what else may happen

(* What may happen besides the requests and their answers: a connection is *)
(* polled, a deferred scan waits, the hardware restarts, a beacon comes    *)
(* just as its scan ends ("race"), an interface that has ROCs goes down    *)
(* ("purge"), and a ROC is cancelled before it has started or while a work *)
(* is queued ("hasty").                                                    *)
Events == {"poll", "delay", "restart", "race", "purge", "hasty"}

ASSUME OffChannelAssumption ==
  /\ Oper \in Chans /\ NoChan \notin Chans
  /\ Requests \subseteq [user : BOOLEAN, iface : Ifaces, channels : Seq(Chans)]
  /\ NoRequest \notin Requests
  /\ IfaceOf \in [Rocs -> Ifaces] /\ ChanOf \in [Rocs -> Chans]
  /\ HwBands \in Nat \ {0}
  /\ Drivers \subseteq [scan : BOOLEAN, roc : BOOLEAN, emulate : BOOLEAN,
                         events : SUBSET Events]
  \* a ROC is accepted only if it can be done: start_roc_work() refuses others
  /\ \A d \in Drivers : d.roc \/ d.emulate

VARIABLES
  driver,   \* ops->hw_scan, ops->remain_on_channel, emulate_chanctx
  local,    \* struct ieee80211_local, and what its handlers act upon
  looping   \* scan_work has the wiphy mutex and is in its loop

vars == <<driver, local, looping>>

Works == {"scan_work", "roc_work", "hw_roc_start", "hw_roc_done"}

Flags == {"SW", "HW", "ONCHANNEL", "COMPLETED", "ABORTED", "HW_CANCELLED",
          "BEACON_WAIT", "BEACON_DONE"}

ScanStates == {"DECISION", "SET_CHANNEL", "SEND_PROBE", "SUSPEND", "RESUME", "ABORT"}

LocalState == [
  works       : Seq(Works),               \* the wiphy's list of works,
  armed       : SUBSET Works,             \* and those whose timer is armed
  scan_req    : Requests \cup {NoRequest},
  scanning    : SUBSET Flags,
  next        : ScanStates,               \* next_scan_state
  idx         : Nat,                      \* scan_channel_idx
  band        : 0 .. HwBands,             \* hw_scan_band
  scan_chan   : Chans \cup {NoChan},      \* scan_chandef.chan
  rx          : BOOLEAN,                  \* a beacon came; BEACON_DONE is not yet set
  poll        : SUBSET Ifaces,            \* IEEE80211_STA_CONNECTION_POLL
  tmp_channel : Chans \cup {NoChan},
  stopped     : BOOLEAN,                  \* queues and interfaces are stopped
  roc_list    : Seq(Rocs),
  started     : SUBSET Rocs,              \* fields of the ROCs on the list
  hw_begun    : SUBSET Rocs,
  notified    : SUBSET Rocs,
  abort       : SUBSET Rocs,
  on_channel  : SUBSET Rocs,
  over        : SUBSET Rocs,              \* duration has passed since start_time
  in_reconfig : BOOLEAN,
  hw_scan     : BOOLEAN,                  \* the driver scans
  hw_roc      : {"idle", "accepted", "begun"},   \* its ROC
  asked       : BOOLEAN]                  \* cfg80211 waits for scan results

TypeOK ==
  /\ driver \in Drivers /\ local \in LocalState
  /\ looping \in BOOLEAN

Init ==
  /\ driver \in Drivers
  /\ local = [works |-> <<>>, armed |-> {}, scan_req |-> NoRequest, scanning |-> {},
              next |-> "DECISION", idx |-> 0, band |-> 0, scan_chan |-> NoChan,
              rx |-> FALSE, poll |-> {}, tmp_channel |-> NoChan, stopped |-> FALSE,
              roc_list |-> <<>>, started |-> {}, hw_begun |-> {}, notified |-> {},
              abort |-> {}, on_channel |-> {}, over |-> {}, in_reconfig |-> FALSE,
              hw_scan |-> FALSE, hw_roc |-> "idle", asked |-> FALSE]
  /\ looping = FALSE

-----------------------------------------------------------------------------
(* Works, channels and interfaces. *)

(* list_del() of the entries of a list that are in a set. *)
Without(s, gone) ==
  LET kept[n \in 0 .. Len(s)] ==
        IF n = 0 THEN <<>>
        ELSE IF s[n] \in gone THEN kept[n - 1] ELSE Append(kept[n - 1], s[n])
  IN  kept[Len(s)]

(* wiphy_work_queue(); wiphy_delayed_work_queue() without, and with a delay *)
QueueWork(l, w) ==
  [l EXCEPT !.armed = @ \ {w}, !.works = IF Contains(@, w) THEN @ ELSE Append(@, w)]

QueueLater(l, w) == [l EXCEPT !.armed = @ \cup {w}]

CancelWork(l, w) == [l EXCEPT !.armed = @ \ {w}, !.works = Without(@, {w})]

(* Where ieee80211_hw_conf_chan() tunes the radio. *)
Channel(l) ==
  CASE l.scan_chan # NoChan -> l.scan_chan
    [] l.scan_chan = NoChan /\ l.tmp_channel # NoChan -> l.tmp_channel
    [] OTHER -> Oper

StopVifs(l)         == [l EXCEPT !.stopped = TRUE]
OffchannelReturn(l) == [l EXCEPT !.stopped = FALSE]

-----------------------------------------------------------------------------
(* ROCs. *)

First(l) == Head(l.roc_list)

SameTarget(r, s) == IfaceOf[r] = IfaceOf[s] /\ ChanOf[r] = ChanOf[s]

(* The ROCs at the front of the list, as far as all of them are in a set. *)
FrontRocs(l, some) ==
  {l.roc_list[n] : n \in {m \in DOMAIN l.roc_list : \A k \in 1 .. m : l.roc_list[k] \in some}}

(* What the loops that end at the first ROC not started go through. *)
StartedFront(l) == FrontRocs(l, l.started)

(* ieee80211_roc_notify_destroy() *)
Destroy(l, gone) ==
  [l EXCEPT !.roc_list = Without(@, gone),
            !.started = @ \ gone, !.hw_begun = @ \ gone, !.notified = @ \ gone,
            !.abort = @ \ gone, !.on_channel = @ \ gone, !.over = @ \ gone]

(* A started ROC that the hardware has not begun has no start_time: it is *)
(* long over.                                                             *)
EndFinished(l) ==
  Destroy(l, {r \in StartedFront(l) : driver.roc \/ r \in l.abort \cup l.over})

(* ieee80211_recalc_sw_work() *)
RecalcSwWork(l) ==
  LET m == EndFinished(l)
  IN  IF StartedFront(m) = {} THEN m ELSE QueueLater(m, "roc_work")

HandleStarted(l, rs) == [l EXCEPT !.started = @ \cup rs, !.notified = @ \cup rs]

HwRocStart(l) ==
  HandleStarted([l EXCEPT !.hw_begun = @ \cup StartedFront(l)], StartedFront(l))

(* drv_remain_on_channel() when it succeeds: the driver has no ROC and is  *)
(* not being restarted.                                                    *)
DriverAccepts(l) ==
  IF l.hw_roc = "idle" /\ ~l.in_reconfig THEN {[l EXCEPT !.hw_roc = "accepted"]} ELSE {}

(* _ieee80211_start_next_roc(): the first ROC and those combined with it. *)
StartFirst(l) ==
  LET rs   == FrontRocs(l, {r \in Rocs : SameTarget(r, First(l))})
      here == ChanOf[First(l)] = Channel(l)
      away == IF here THEN l ELSE [StopVifs(l) EXCEPT !.tmp_channel = ChanOf[First(l)]]
  IN  CASE l.roc_list = <<>> \/ First(l) \in l.started -> {l}
        [] l.roc_list # <<>> /\ First(l) \notin l.started /\ driver.roc ->
             {[m EXCEPT !.started = @ \cup rs] : m \in DriverAccepts(l)}
               \cup {QueueWork([l EXCEPT !.started = @ \cup rs, !.abort = @ \cup rs],
                               "hw_roc_done")}
        [] OTHER ->
             {HandleStarted([QueueLater(away, "roc_work") EXCEPT
                               !.on_channel = IF here THEN @ \cup rs ELSE @], rs)}

(* Mutant: the ROCs are not looked at. *)
MutCanScanBesideRocs(l, req) == req.iface \notin l.poll

(* ieee80211_can_scan() *)
CanScan(l, req) == l.roc_list = <<>> /\ req.iface \notin l.poll

(* ieee80211_run_deferred_scan(): the delay is what rounding it to a whole *)
(* second leaves, which may be none.                                       *)
RunDeferredScan(l) ==
  IF l.scan_req # NoRequest /\ l.scanning = {} /\ CanScan(l, l.scan_req)
  THEN {QueueWork(l, "scan_work")} \cup
       (IF "delay" \in driver.events THEN {QueueLater(l, "scan_work")} ELSE {})
  ELSE {l}

(* ieee80211_start_next_roc() *)
StartNextRoc(l) ==
  CASE l.roc_list = <<>> -> RunDeferredScan(l)
    [] l.roc_list # <<>> /\ (l.in_reconfig \/ First(l) \in l.started) -> {l}
    [] OTHER -> IF driver.roc THEN StartFirst(l) ELSE {QueueLater(l, "roc_work")}

(* __ieee80211_roc_work() *)
RocWork(l) ==
  LET m    == RecalcSwWork(l)
      home == IF First(l) \in l.on_channel THEN m
              ELSE OffchannelReturn([m EXCEPT !.tmp_channel = NoChan])
  IN  CASE l.roc_list = <<>> -> {l}
        [] l.roc_list # <<>> /\ First(l) \notin l.started -> StartFirst(l)
        [] OTHER -> IF StartedFront(m) # {} THEN {m} ELSE StartNextRoc(home)

HwRocDone(l) == StartNextRoc(EndFinished(l))

-----------------------------------------------------------------------------
(* Scans. *)

(* drv_hw_scan() when it succeeds *)
DriverScans(l) ==
  IF ~l.hw_scan /\ ~l.in_reconfig THEN {[l EXCEPT !.hw_scan = TRUE]} ELSE {}

(* The end of __ieee80211_scan_completed().  The receive path, which the   *)
(* synchronize_rcu() in it waits for, may set its bit after scanning = 0.  *)
FinishScan(l) ==
  LET user   == l.scan_req.user
      left   == [l EXCEPT !.scan_req = NoRequest, !.scan_chan = NoChan, !.rx = FALSE,
                          !.scanning = IF l.rx THEN {"BEACON_DONE"} ELSE {}]
      marked == IF l.rx THEN QueueWork(left, "scan_work") ELSE left
      told   == IF user THEN [marked EXCEPT !.asked = FALSE] ELSE marked
      home   == IF l.scanning # {} /\ "HW" \notin l.scanning THEN OffchannelReturn(told)
                ELSE told
  IN  IF l.scanning # {} THEN StartNextRoc(home) ELSE {home}

(* Mutants: one band too many; a cancelled scan goes on with the next band. *)
MutBandPastEnd(l, aborted) ==
  LET next == [l EXCEPT !.band = @ + 1]
  IN  IF l.scan_req = NoRequest THEN {l}
      ELSE IF {"HW", "HW_CANCELLED"} \cap l.scanning = {"HW"} /\ ~aborted /\ l.band <= HwBands
      THEN DriverScans(next) \cup FinishScan(next)
      ELSE FinishScan(l)

MutCancelledGoesOn(l, aborted) ==
  LET next == [l EXCEPT !.band = @ + 1]
  IN  IF l.scan_req = NoRequest THEN {l}
      ELSE IF "HW" \in l.scanning /\ ~aborted /\ l.band < HwBands
      THEN DriverScans(next) \cup FinishScan(next)
      ELSE FinishScan(l)

(* __ieee80211_scan_completed() *)
ScanCompleted(l, aborted) ==
  LET more == /\ "HW" \in l.scanning /\ "HW_CANCELLED" \notin l.scanning
              /\ ~aborted /\ l.band < HwBands
      next == [l EXCEPT !.band = @ + 1]
  IN  IF l.scan_req = NoRequest THEN {l}
      ELSE IF more THEN DriverScans(next) \cup FinishScan(next)
      ELSE FinishScan(l)

(* __ieee80211_start_scan(): what it leaves when it succeeds, ... *)
StartSwScan(l, req) ==
  LET l1 == [l EXCEPT !.scan_req = req]
  IN  IF req.channels = <<Channel(l)>>
      THEN {[QueueLater(l1, "scan_work") EXCEPT
               !.scanning = @ \cup {"ONCHANNEL"} \cup wait] : wait \in {{}, {"BEACON_WAIT"}}}
      ELSE IF driver.emulate
      THEN {QueueWork([StopVifs(l1) EXCEPT
              !.scanning = @ \cup {"SW"}, !.next = "DECISION", !.idx = 0], "scan_work")}
      ELSE {}

StartScan(l, req) ==
  CASE l.scan_req # NoRequest -> {}
    [] l.scan_req = NoRequest /\ ~CanScan(l, req) -> {[l EXCEPT !.scan_req = req]}
    [] l.scan_req = NoRequest /\ CanScan(l, req) /\ driver.scan ->
         DriverScans([l EXCEPT !.scan_req = req, !.band = 1, !.scanning = @ \cup {"HW"}])
           \cup StartSwScan([l EXCEPT !.scanning = {}], req)
    [] OTHER -> StartSwScan(l, req)

(* Mutant: a scan that fails leaves its request. *)
MutFailKeepsRequest(l, req) ==
  IF l.scan_req # NoRequest THEN {l}
  ELSE IF CanScan(l, req) /\ driver.scan
  THEN {[l EXCEPT !.scan_req = req, !.band = 1, !.scanning = {}]}
  ELSE {}

(* ... and when it fails: at once, as there is a request, radar is watched *)
(* for, the link is not active or there is no memory; or as it begins.     *)
StartScanFails(l, req) ==
  {l} \cup
  IF l.scan_req # NoRequest \/ ~CanScan(l, req) THEN {}
  ELSE IF driver.scan THEN {[l EXCEPT !.band = 1, !.scanning = {}]}
  ELSE IF StartSwScan(l, req) = {} THEN {[l EXCEPT !.scanning = {}]} ELSE {}

(* ieee80211_scan_cancel() *)
ScanCancel(l) ==
  CASE l.scan_req = NoRequest -> {l}
    [] l.scan_req # NoRequest /\ "HW" \in l.scanning ->
         {[l EXCEPT !.scanning = @ \cup {"HW_CANCELLED"}]}
    [] OTHER -> ScanCompleted(CancelWork(l, "scan_work"), TRUE)

(* ieee80211_scan_work() up to its loop, unless it enters it. *)
ScanWorkLoops(l) ==
  /\ ~l.in_reconfig /\ l.scan_req # NoRequest
  /\ l.scanning \cap {"ONCHANNEL", "COMPLETED"} = {} /\ l.scanning # {}

ScanWork(l) ==
  LET done == [l EXCEPT !.scanning = @ \ {"COMPLETED", "ABORTED"}]
      req  == l.scan_req
      none == [l EXCEPT !.scan_req = NoRequest]
  IN  CASE l.in_reconfig -> ScanCompleted(l, TRUE)
        [] ~l.in_reconfig /\ l.scanning \cap {"ONCHANNEL", "COMPLETED"} # {} ->
             ScanCompleted(done, "ABORTED" \in l.scanning)
        [] OTHER ->
             IF req = NoRequest THEN {l}
             ELSE StartScan(none, req) \cup
                  UNION {ScanCompleted([m EXCEPT !.scan_req = req], TRUE) :
                           m \in StartScanFails(none, req)}

-----------------------------------------------------------------------------
(* Requests, under the wiphy mutex. *)

Free == ~looping

(* The state after a handler. *)
Becomes(outcomes) ==
  /\ local' \in outcomes
  /\ UNCHANGED <<driver, looping>>

(* ieee80211_request_scan(), ieee80211_request_ibss_scan(); cfg80211 has   *)
(* one scan at a time.                                                     *)
RequestScan(req) ==
  /\ Free /\ (req.user => ~local.asked)
  /\ \/ Becomes({[m EXCEPT !.asked = @ \/ req.user] :
                    m \in StartScan(local, req)})
     \/ Becomes(StartScanFails(local, req))

(* ieee80211_abort_scan(), and the caller in ieee80211_prep_connection() *)
AbortScan == Free /\ Becomes(ScanCancel(local))

(* Mutant: list_add_tail() for list_add(). *)
MutInsertLast(l, r, i) == [l EXCEPT !.roc_list = Append(@, r)]

InsertAfter(l, r, i) == [l EXCEPT !.roc_list = InsertAt(@, i + 1, r)]

(* Join a ROC that has started: in hardware,                               *)
(* ieee80211_coalesce_hw_started_roc().                                    *)
Combine(l, r, i) ==
  LET cur == l.roc_list[i]
      l1  == InsertAfter(l, r, i)
      on  == IF cur \in l.on_channel THEN {r} ELSE {}
  IN  IF ~driver.roc
      THEN RecalcSwWork(HandleStarted([l1 EXCEPT !.on_channel = @ \cup on], {r}))
      ELSE IF cur \in l.hw_begun
      THEN HandleStarted([l1 EXCEPT !.hw_begun = @ \cup {r}], {r})
      ELSE l1

(* The queueing in ieee80211_start_roc_work(): whether the durations allow *)
(* the two to be combined is a choice.                                     *)
QueueRoc(l, r) ==
  LET same    == {i \in DOMAIN l.roc_list : SameTarget(l.roc_list[i], r)}
      waiting == {i \in same : l.roc_list[i] \notin l.started}
      first(S) == CHOOSE i \in S : \A j \in S : i <= j
      apart   == IF waiting = {} THEN [l EXCEPT !.roc_list = Append(@, r)]
                 ELSE InsertAfter(l, r, first(waiting))
  IN  {apart} \cup {Combine(l, r, i) : i \in {j \in same \ waiting : j = first(same)}}

(* ieee80211_start_roc_work() *)
StartRoc(l, r) ==
  CASE l.roc_list = <<>> /\ l.scanning = {} /\ ~driver.roc ->
         {QueueWork([l EXCEPT !.roc_list = <<r>>], "roc_work")}
    [] l.roc_list = <<>> /\ l.scanning = {} /\ driver.roc ->
         {[m EXCEPT !.roc_list = <<r>>, !.started = {r}] : m \in DriverAccepts(l)}
    [] OTHER -> QueueRoc(l, r)

RequestRoc(r) ==
  Free /\ ~Contains(local.roc_list, r) /\ Becomes(StartRoc(local, r))

(* Mutant: the end that is queued for a cancelled ROC stays queued. *)
MutCancelKeepsDone(l, r) ==
  IF Contains(l.roc_list, r) /\ r \in l.started /\ driver.roc
  THEN StartNextRoc(Destroy([l EXCEPT !.hw_roc = "idle"], StartedFront(l)))
  ELSE {l}

(* ieee80211_cancel_roc().  It flushes hw_roc_start, which runs the works  *)
(* as the worker does until that one has run; but the driver may report    *)
(* once more before it is told, and may refuse.                            *)
CancelRoc(l, r) ==
  LET told == CancelWork([l EXCEPT !.hw_roc = "idle"], "hw_roc_done")
  IN  CASE ~Contains(l.roc_list, r) -> {l}
        [] Contains(l.roc_list, r) /\ r \notin l.started -> {Destroy(l, {r})}
        [] OTHER ->
             IF driver.roc
             THEN {l} \cup StartNextRoc(Destroy(told, StartedFront(l)))
             ELSE {QueueWork([l EXCEPT !.abort = @ \cup {r}], "roc_work")}

Reported(l) ==
  IF l.hw_roc = "accepted" THEN {QueueWork([l EXCEPT !.hw_roc = "begun"], "hw_roc_start")}
  ELSE {}

LateReport == IF "hasty" \in driver.events THEN Reported(local) ELSE {}

Cancel(r) ==
  /\ Free /\ ~Contains(local.works, "hw_roc_start")
  /\ "hasty" \in driver.events \/ (r \in local.started /\ local.works = <<>>)
  /\ Becomes(UNION {CancelRoc(l, r) : l \in {local} \cup LateReport})

(* ieee80211_roc_purge() *)
Of(l, ifs) == {r \in ToSet(l.roc_list) : IfaceOf[r] \in ifs}

RocPurge(l, ifs) ==
  LET mine  == Of(l, ifs)
      begun == mine \cap l.started
      m     == Destroy([l EXCEPT !.abort = @ \cup begun], mine \ begun)
  IN  CASE driver.roc -> {Destroy([l EXCEPT !.hw_roc = IF begun = {} THEN @ ELSE "idle"], mine)}
        [] ~driver.roc /\ begun # {} -> RocWork(m)
        [] OTHER -> {m}

(* Interfaces go down (ieee80211_do_stop()), or all of them are suspended  *)
(* (__ieee80211_suspend()).                                                *)
Quiesce(ifs) ==
  /\ Free /\ ("purge" \in driver.events \/ Of(local, ifs) = {})
  /\ Becomes(UNION {RocPurge(m, ifs) :
                m \in IF local.scan_req # NoRequest /\ local.scan_req.iface \in ifs
                      THEN ScanCancel(local) ELSE {local}})

(* The connection of a station is polled: IEEE80211_STA_CONNECTION_POLL is *)
(* set, and cleared again in __ieee80211_stop_poll().                      *)
StartPoll(i) ==
  /\ "poll" \in driver.events /\ Free /\ i \notin local.poll
  /\ Becomes({[local EXCEPT !.poll = @ \cup {i}]})

(* Mutant: the deferred scan is forgotten. *)
MutPollOnlyStops(i) ==
  Free /\ i \in local.poll /\ Becomes({[local EXCEPT !.poll = @ \ {i}]})

StopPoll(i) ==
  Free /\ i \in local.poll /\ Becomes(RunDeferredScan([local EXCEPT !.poll = @ \ {i}]))

-----------------------------------------------------------------------------
(* Works. *)

(* A timer.  That of roc_work is armed for the shortest of the ROCs that   *)
(* have started: as long as it is, none of them is over.                   *)
TimerFires(w) ==
  /\ w \in local.armed
  /\ Becomes({[QueueWork(local, w) EXCEPT !.over = @ \cup rs] :
                rs \in IF w = "roc_work" /\ StartedFront(local) # {}
                       THEN SUBSET StartedFront(local) \ {{}} ELSE {{}}})

(* The first work of the list is run. *)
Runs(w) ==
  /\ ~looping /\ local.works # <<>> /\ Head(local.works) = w
  /\ UNCHANGED driver

Taken == [local EXCEPT !.works = Tail(@)]

RunScanWork ==
  /\ Runs("scan_work")
  /\ \/ ~ScanWorkLoops(local) /\ local' \in ScanWork(Taken) /\ UNCHANGED looping
     \/ /\ ScanWorkLoops(local) /\ looping' = TRUE
        /\ local' = [Taken EXCEPT !.scanning = @ \ {"BEACON_WAIT"}]

RunRocWork    == Runs("roc_work")     /\ local' \in RocWork(Taken)     /\ UNCHANGED looping
RunHwRocStart == Runs("hw_roc_start") /\ local' = HwRocStart(Taken)    /\ UNCHANGED looping
RunHwRocDone  == Runs("hw_roc_done")  /\ local' \in HwRocDone(Taken)   /\ UNCHANGED looping

(* One turn of the loop of ieee80211_scan_work(): it goes on, waits for    *)
(* the delay, or completes the scan.                                       *)
LoopState ==
  IF "BEACON_DONE" \in local.scanning /\ local.next = "DECISION" THEN "SEND_PROBE"
  ELSE local.next

Turn == [local EXCEPT !.scanning = @ \ {"BEACON_DONE"}, !.next = LoopState]

LoopOn(l)   == local' = l /\ looping' = TRUE
LoopWait(l) == local' = QueueLater(l, "scan_work") /\ looping' = FALSE
LoopEnds(aborted) == local' \in ScanCompleted(Turn, aborted) /\ looping' = FALSE

Decision ==
  \/ local.idx >= Len(local.scan_req.channels) /\ LoopEnds(FALSE)
  \/ /\ local.idx < Len(local.scan_req.channels)
     /\ \E next \in {"ABORT", "SUSPEND", "SET_CHANNEL"} : LoopOn([Turn EXCEPT !.next = next])

(* channels[scan_channel_idx]: past the end of the array, anything. *)
ChannelRead ==
  IF local.idx < Len(local.scan_req.channels)
  THEN {local.scan_req.channels[local.idx + 1]} ELSE Chans

SetChannel ==
  \E c \in ChannelRead :
    LET tuned == [Turn EXCEPT !.scan_chan = c, !.idx = @ + 1]
    IN  \/ LoopOn([tuned EXCEPT !.next = "DECISION"])
        \/ \E wait \in {{}, {"BEACON_WAIT"}} :
             LoopWait([tuned EXCEPT !.next = "DECISION", !.scanning = @ \cup wait])
        \/ LoopWait([tuned EXCEPT !.next = "SEND_PROBE"])

SendProbe == LoopWait([Turn EXCEPT !.next = "DECISION"])

Suspend ==
  LoopWait(OffchannelReturn([Turn EXCEPT !.scan_chan = NoChan, !.next = "RESUME"]))

Resume ==
  \/ LoopOn(StopVifs([Turn EXCEPT !.next = "SET_CHANNEL"]))
  \/ LoopWait(StopVifs([Turn EXCEPT !.next = "SET_CHANNEL"]))

(* The interface runs on (scan.c 1122 looks): what stops it takes the    *)
(* mutex that the loop holds, and cancels its scan first.                *)
ScanLoop ==
  /\ looping
  /\ CASE LoopState = "DECISION"    -> Decision
       [] LoopState = "SET_CHANNEL" -> SetChannel
       [] LoopState = "SEND_PROBE"  -> SendProbe
       [] LoopState = "SUSPEND"     -> Suspend
       [] LoopState = "RESUME"      -> Resume
       [] LoopState = "ABORT"       -> LoopEnds(TRUE)
  /\ UNCHANGED driver

-----------------------------------------------------------------------------
(* The driver and the receive path; none of them needs the mutex. *)

(* ieee80211_scan_completed() *)
DriverScanDone(aborted) ==
  /\ local.hw_scan
  /\ Becomes({QueueWork([local EXCEPT !.hw_scan = FALSE,
                 !.scanning = @ \cup {"COMPLETED"} \cup (IF aborted THEN {"ABORTED"} ELSE {})],
                "scan_work")})

(* ieee80211_ready_on_channel(), ieee80211_remain_on_channel_expired() *)
DriverReady == Reported(local) # {} /\ Becomes(Reported(local))

DriverExpired ==
  /\ local.hw_roc # "idle"
  /\ Becomes({QueueWork([local EXCEPT !.hw_roc = "idle"], "hw_roc_done")})

(* ieee80211_scan_rx(): test_and_clear_bit(), then set_bit(). *)
Marked(l) ==
  QueueWork([l EXCEPT !.scanning = (@ \ {"BEACON_WAIT"}) \cup {"BEACON_DONE"}, !.rx = FALSE],
            "scan_work")

RxBeacon ==
  /\ "BEACON_WAIT" \in local.scanning /\ ~local.rx
  /\ \/ Becomes({Marked(local)})
     \/ /\ "race" \in driver.events
        /\ Becomes({[local EXCEPT !.scanning = @ \ {"BEACON_WAIT"}, !.rx = TRUE]})

RxMark == local.rx /\ Becomes({Marked(local)})

(* Time passes for a ROC while roc_work waits for its turn. *)
Elapse(r) ==
  /\ ~driver.roc /\ r \in local.started \ local.over /\ "roc_work" \notin local.armed
  /\ Becomes({[local EXCEPT !.over = @ \cup {r}]})

-----------------------------------------------------------------------------
(* The hardware is restarted.  The driver first gives up what it does. *)

(* ieee80211_restart_hw() *)
RestartHw ==
  /\ "restart" \in driver.events
  /\ ~local.in_reconfig /\ ~local.hw_scan /\ local.hw_roc = "idle"
  /\ Becomes({[local EXCEPT !.in_reconfig = TRUE]})

(* ieee80211_restart_work(): it runs all works, cancels the scan, runs     *)
(* roc_work if its timer is armed (hw_roc_done is not queued any more),    *)
(* and reconfigures; the deferred ROCs are started again.                  *)
RestartWork ==
  LET flushed(l) == IF "roc_work" \in l.armed THEN RocWork(CancelWork(l, "roc_work")) ELSE {l}
  IN  /\ Free /\ local.in_reconfig /\ local.works = <<>>
      /\ Becomes(UNION {StartNextRoc([l EXCEPT !.in_reconfig = FALSE]) :
                    l \in UNION {flushed(m) : m \in ScanCancel(local)}})

-----------------------------------------------------------------------------
RunWork == RunScanWork \/ RunRocWork \/ RunHwRocStart \/ RunHwRocDone

Worker == RunWork \/ ScanLoop \/ RestartWork

Ask ==
  \/ \E req \in Requests : RequestScan(req)
  \/ \E r \in Rocs : RequestRoc(r) \/ Cancel(r)
  \/ AbortScan
  \/ \E i \in Ifaces : StartPoll(i)
  \/ \E ifs \in {{i} : i \in Ifaces} \cup {Ifaces} : Quiesce(ifs)
  \/ RestartHw

Answer ==
  \/ \E aborted \in BOOLEAN : DriverScanDone(aborted)
  \/ DriverReady \/ DriverExpired \/ RxBeacon \/ RxMark
  \/ \E r \in Rocs : Elapse(r)
  \/ \E i \in Ifaces : StopPoll(i)

Next ==
  \/ Ask \/ Answer \/ Worker
  \/ \E w \in Works : TimerFires(w)

Spec == Init /\ [][Next]_vars
-----------------------------------------------------------------------------
(* The wiphy's worker and its timers run, and what the driver has accepted *)
(* and what has begun to wait ends.                                        *)
Fairness ==
  /\ WF_vars(Worker)
  /\ WF_vars(TimerFires("scan_work")) /\ WF_vars(TimerFires("roc_work"))
  /\ WF_vars(DriverScanDone(FALSE) \/ DriverScanDone(TRUE)) /\ WF_vars(DriverExpired)
  /\ WF_vars(RxMark) /\ \A i \in Ifaces : WF_vars(StopPoll(i))

FairSpec == Spec /\ Fairness

-----------------------------------------------------------------------------
(* What holds while nothing goes wrong between the two sides: no ROC is    *)
(* taken away from under its works, no beacon comes as its scan ends, and  *)
(* no deferred scan is queued a second time.                               *)
Calm ==
  /\ driver.events \cap {"race", "purge", "hasty"} = {}
  /\ ~(driver.scan /\ "delay" \in driver.events)

Pending(w) == w \in local.armed \/ Contains(local.works, w)

(* A scan that userspace has asked for is answered once: cfg80211 waits    *)
(* for results exactly as long as scan_req is that request, through every  *)
(* deferral, failure to start, cancellation, restart and purge.            *)
ScanOwned == local.asked <=> (local.scan_req # NoRequest /\ local.scan_req.user)

(* SCAN_HW_SCANNING without a driver that scans means that the driver's    *)
(* report is still to be handled: the flag never outlives both, which      *)
(* would refuse every later scan and ROC.                                  *)
HwScanEnds ==
  "HW" \in local.scanning =>
    local.hw_scan \/ ("COMPLETED" \in local.scanning /\ Contains(local.works, "scan_work"))

(* The scan reads channels[] within its bounds, although the index and the *)
(* state of the loop outlive the scan they belong to: wherever the loop is *)
(* resumed, after a delay, a suspension or a beacon, there is a channel.   *)
ScanInRange ==
  Calm /\ looping /\ local.next = "SET_CHANNEL" => local.idx < Len(local.scan_req.channels)

(* A scan keeps its request, its flags and its place in the list of        *)
(* channels together, as long as it lasts.                                 *)
ScanKept == ScanOwned /\ HwScanEnds /\ ScanInRange

(* The ROCs that software has started are the first of the list, where the *)
(* loops of recalc_sw_work() and cancel_roc() look for them, and roc_work  *)
(* will come back to end them.                                             *)
SoftRocsEnd ==
  ~driver.roc =>
    /\ local.started = StartedFront(local)
    /\ local.started # {} => Pending("roc_work")

(* No ROC is started while a scan goes on: "scan can't run, tmp_channel is *)
(* what we use", says _ieee80211_start_next_roc().                         *)
RocExcludesScan == ~(local.scanning # {} /\ local.started # {})

(* Queues and interfaces are stopped whenever the radio is not on the      *)
(* operating channel, and when nobody needs it elsewhere it is back there  *)
(* and they are awake.                                                     *)
AwayIsStopped == Channel(local) # Oper => local.stopped

RadioHome ==
  local.scanning = {} /\ local.started = {} => local.tmp_channel = NoChan /\ ~local.stopped

(* ieee80211_can_scan(), and the deferral on both sides, share the radio:  *)
(* scan and ROC exclude each other, leave the operating channel with the   *)
(* queues stopped, and come back to it.                                    *)
RadioIsShared == Calm => RocExcludesScan /\ AwayIsStopped /\ RadioHome

(* What the driver does as a ROC belongs to a ROC that is started, and a   *)
(* ROC is announced to userspace (notify_on_channel) only while the driver *)
(* is there, or its end waits in hw_roc_done.                              *)
HwRocsOwned ==
  Calm =>
    /\ local.hw_roc # "idle" => local.started # {}
    /\ driver.roc /\ local.notified # {} =>
         local.hw_roc = "begun" \/ Contains(local.works, "hw_roc_done")

(* An end that waits in hw_roc_done is that of the ROC which has         *)
(* started: ieee80211_cancel_roc() removes it before the driver takes    *)
(* the next one, which would be thought to have "ended prematurely"      *)
(* (offchannel.c 730).                                                   *)
EndIsOwn ==
  driver.roc /\ "purge" \notin driver.events =>
    (Contains(local.works, "hw_roc_done") => local.hw_roc = "idle")

(* A ROC that has begun will be ended, by roc_work or by the driver, and    *)
(* the driver's end of a ROC is not taken for that of the next one.         *)
RocsEnd == SoftRocsEnd /\ HwRocsOwned /\ EndIsOwn

(* After ieee80211_scan_cancel() has found a scan whose completion the     *)
(* driver has already reported, the driver does not scan the next band.    *)
CancelledScanEnds ==
  [][("HW_CANCELLED" \in local.scanning /\ ~local.hw_scan) => ~local'.hw_scan]_vars

(* Once nobody asks for anything any more, every scan has been answered    *)
(* and every ROC has ended: neither side waits for the other for ever.     *)
Quiet == <>[][~Ask]_vars

EverythingEnds ==
  Calm /\ Quiet => <>[](~local.asked /\ local.roc_list = <<>>)

(* A driver that scans does so for a scan of mac80211's, whose request it  *)
(* reads: __ieee80211_scan_completed() must not free it before, says the   *)
(* comment in ieee80211_scan_cancel().                                     *)
HwScanOwned == local.hw_scan => "HW" \in local.scanning
=============================================================================
