# A verification of the Wi-Fi stacks in this repository

The repository holds three things side by side: the Linux wireless stack
(`src/linux/net/wireless`, called cfg80211, and `src/linux/net/mac80211`) with the
`iwlwifi` driver, the FreeBSD stack (`src/freebsd/sys/net80211`) with its own copy of
`iwlwifi`, and the small modules written for porting one to the other: the debug
ring `chdbg`, samples and experiments with kernel interfaces.

This directory holds TLA+ models of the parts of it whose correctness depends on
orders of events, the TLC configurations that check them on small instances, and
theorems that TLAPS proves of them for every value of the constants.

Contents

1. Inventory: the system's components
2. Modules, and how they correspond to the code
3. Runs: what is checked, with which bounds
4. Fairness
5. Findings
6. Theorems
7. What is not modelled
8. Plan

Paths below are relative to `src/linux/net/mac80211` unless a directory is given.


## 1. Inventory

### 1.1 chdbg (`src/chdbg/chdev_drv.c`, modelled)

*State.* An array `dbg_arr` of `MAX_LINES` lines and an index `i`, both global and
without a lock. *Operations.* `wifi_dbg()` formats a message into the line at `i` and
advances `i`; any module calls it from any thread. Reading the character device
concatenates all lines into a buffer on the stack. *Interaction.* Every sample module
logs through it. *Hard.* Writers interleave between the copy, the load of `i` and its
store, so updates of `i` get lost and two writers print into one line. *Correct
means.* The index stays inside the array, the reader's buffer is large enough for
whatever is stored, lost updates never make the ring claim more lines than were
written, and with a single writer the ring is the log of the newest messages.

### 1.2 Transmit block ack sessions (`agg-tx.c`, worker in `ht.c`, modelled)

*State.* For each station and TID: `tid_start_tx` (a start waiting for the worker),
`tid_tx` (the session), its state bits `HT_AGG_STATE_*`, the starting sequence number,
two timers, the count of unanswered requests, the flags `IEEE80211_TXQ_STOP` and
`IEEE80211_TXQ_AMPDU` of the transmit queue, the fragments waiting in it, and the
station flag `WLAN_STA_BLOCK_BA`. *Operations.* Start and stop from rate control or
debugfs in a softirq; the wiphy work that carries them out; the driver's
`ampdu_action` and its two callbacks; ADDBA responses and DELBAs of the peer; two
timers; rekeying; the removal of the station. *Interaction.* The transmit path reads
the queue's flags under another lock (`fq->lock`), the driver reports back from
interrupt context, the worker is a wiphy work (1.4). *Hard.* Four parties hold
different locks; the start waits in `synchronize_net()` in the middle; refusals, late
answers, and a teardown at any point. *Correct means.* The driver sees start,
operational, stop in that order and aggregated frames only in between; the sequence
number announced is the one the first aggregated frame carries; answers are matched
to their request; the peer is told when an agreement ends; no timer or queued work
outlives what it refers to; a stopped queue is started again.

### 1.3 Receive block ack sessions and reordering (`agg-rx.c`, `rx.c`, partly)

*State.* The reorder buffer of a TID: a head sequence number, a slot per sequence
number of the window, the count of stored frames, a bitmap of slots the driver's
firmware filtered, the release timer, the session timer, and the flags `started`,
`auto_seq`, `removed`. *Operations.* A data frame, a block ack request, a report of
filtered frames, the two timers, start and stop of the session. *Interaction.* The
receive path runs under RCU and `reorder_lock`; the stop runs under the wiphy mutex
and waits for a grace period before it frees. *Hard.* Sequence numbers wrap and slots
are taken modulo a size the peer chose; a count that several paths maintain decides
whether a timer is armed; a stop races with a receiver that has already found the
session. *Correct means.* Frames leave in order and once, nothing the window has
passed stays behind, something always releases what is stored, and timers are gone
before the memory is.

### 1.4 Wiphy works (`../wireless/core.c`, `../wireless/sysfs.c`, partly)

*State.* For each device a list of works under a spinlock, one workqueue item, a
timer for each delayed work, and whether the device is suspended. *Operations.*
Queue, queue with delay, cancel, flush; the workqueue function, which runs one work
with the wiphy mutex held and schedules itself for the rest; suspend and resume.
*Interaction.* Everything in mac80211 that runs in process context does so as a wiphy
work, the aggregation worker of 1.2 among them. *Hard.* The list, the workqueue item
and the mutex are three separate things, and queueing may come from an interrupt.
*Correct means.* No work is forgotten, none is on the list twice, what was cancelled
does not run, and a flush returns only after what it was asked to wait for.

### 1.5 Transmit queues of iwlwifi (`src/linux/drivers/net/wireless/intel/iwlwifi`, partly)

*State.* For each TID of a station, the driver's part of mac80211's queue: the counter
`tx_request`, the bits READY, STOP_FULL and STOP_REDIRECT, and whether it is on the list
`add_stream_txqs`. For each hardware queue: a ring of TFDs, an overflow queue, and the
bits `queue_used` and `queue_stopped`. *Operations.* `wake_tx_queue` of mac80211; the
worker that allocates queues and unshares them; the transmission into the ring; the
reclaim of what the firmware has sent, which wakes a stopped queue. *Interaction.*
mac80211 calls it from any context; stopping and waking go from the transport up to the
MVM layer and back down into a transmission. *Hard.* Nothing but a counter keeps two
contexts from transmitting at once; "stopped" is said by two bits at two levels, set
under a lock and cleared without it; the reclaim lets go of the lock half way. *Correct
means.* One context takes frames at a time, whoever finds another transmitting can leave
without losing its frame, a stopped queue is woken, and it does stay stopped until then.

### 1.6 Scanning and remaining on a channel (`scan.c`, `offchannel.c`, modelled as one)

*State.* The request `scan_req`, the bits `local->scanning`, the state, channel and band a
scan has reached, the work `scan_work`; the list `roc_list` of remain-on-channel items
(ROCs) with their bits `started`, `hw_begun`, `notified`, `abort` and `on_channel`, and the
works `roc_work`, `hw_roc_start` and `hw_roc_done`; the radio's channel, and whether
interfaces and queues are stopped. *Operations.* Request and abort of a scan, the scan's
state machine, its completion; request, cancel, expiry and purge of ROCs; suspend,
interface down, restart of the hardware. *Interaction.* Both use the one radio and defer
to each other, to the polls of a connection and to a restart, and who ends starts the
next; the works run as wiphy works (1.4); drivers do both, one or none of the two
themselves and report from interrupts; the receive path ends the wait for a beacon.
*Hard.* Flags, requests and works say the same thing three times, and every path that
ends something has to bring them together; reports of the driver cross with cancels.
*Correct means.* A request is answered once, no flag outlives what it stands for,
scans and ROCs exclude each other, the radio comes back to the operating channel with the
queues running, and whoever waits is started in the end.

### 1.7 Mesh peering (`mesh_plink.c`, modelled as a network of nodes)

*State.* For each neighbour a station with a peer link state, two link ids, a number of
retries and a timer; for each interface the count `estab_plinks`. *Operations.*
Candidates from beacons, the commands of a user, OPEN, CONFIRM and CLOSE frames, the
timer, the end of a station. *Interaction.* Frames are classified before the lock
`plink_lock` is taken, the state machine runs under it, and the answer is sent after it;
the timer's handler takes the same lock on another CPU. The other end is a program of the
same kind, and frames between them get lost or come late. *Hard.* Only the ids tell frames
of this link from those of an earlier one, and in some states one of them is unknown; the
timer may have expired when a transition arms it again (`mesh_plink.c` 679-700).
*Correct means.* Both ends mean the same link, counts and timers agree with the states, a
link that has begun is established or given up, and none stays up at one end only.

### 1.8 Parts that are not modelled yet

| component | state | operations | what is hard |
|---|---|---|---|
| stations (`sta_info.c`) | hash table, ladder of station states, power save buffers | insert, move up and down, destroy in two parts | RCU readers during the two parts, failure half way up the ladder |
| channel contexts (`chan.c`) | reference counts, reservations | assign, reserve, switch, release | a reservation of several interfaces commits together or not at all |
| keys (`key.c`) | key arrays, tailroom counter | replace, upload, delete | the tailroom counter against frames in flight (lines 78-94) |
| station MLME (`mlme.c`) | authentication and association data, beacon monitor | the frames and timeouts of a connection | many timeouts and teardown from everywhere |
| mesh, the rest (`mesh_hwmp.c`, `mesh_pathtbl.c`, `mesh_sync.c`) | path table, clock offsets | path requests, forwarding | sequence numbers, loops, expiry of paths |
| transmit path (`tx.c`) | fq queues, sequence numbers | enqueue, dequeue, fragment, encrypt | airtime fairness, broadcast buffering |
| transmit status (`status.c`) | acknowledgement skbs | status of a frame | the filtered frame race described from line 112 |
| interfaces, suspend, restart (`iface.c`, `main.c`, `pm.c`, `util.c`) | up/down, `in_reconfig`, quiescing | open, stop, suspend, resume, restart | everything is replayed to the driver |
| IBSS, OCB, TDLS | mode state | join, leave, peer setup | inserting a station twice (`ibss.c` line 574) |
| rate control, cryptography, element parsing | statistics, keys, none | computations | arithmetic and bytes, not ordering |
| BSS table (`../wireless/scan.c`) | entries with reference counts, hidden SSIDs | update, expire, hold | combined entries share elements |
| connection management (`../wireless/sme.c`, `mlme.c`) | connect state | connect, disconnect, events of the driver | events after the state they refer to has gone |
| regulatory (`../wireless/reg.c`) | last request, queue, database | hints, user requests, load | the asynchronous database load (line 1018) |
| netlink (`../wireless/nl80211.c`) | none of its own | dispatch | size |
| wireless extensions | none of its own | translation | none |
| net80211 HT (`src/freebsd/sys/net80211/ieee80211_ht.c`) | flags, attempts, callout of a TID, reorder buffer | ADDBA, BAR, timeouts | the same races as 1.2 and 1.3, answered with other locks; the BAR timeout races with the completion of its BAR (line 2801) |
| net80211 state, scan, nodes, power save | vap state, scan state, node table | task queue, callouts | several `XXX locking` comments mark what nobody has settled |
| `iwlwifi` MVM and DVM, the rest | station and rate tables, receive queues | driver operations | rate scaling, suspend with the firmware |
| `iwlwifi` receive path, firmware interface, MEI | DMA buffers, command queue | interrupts, commands | shares memory with hardware that is not in the repository |
| samples and experiments | none | load, unload | `testapi/sample_mtxunlock` uses a mutex it never initialises; single-threaded |


## 2. Modules

| module | what it is |
|---|---|
| `DbgLog` | abstract: a log of the newest `Capacity` messages |
| `ChDbg` | `chdev_drv.c`, step by step |
| `ChDbg_proofs` | its type theorem, that a read is complete, and that the ring of one writer implements `DbgLog` |
| `AmpduContract` | abstract: what a driver may rely on about one TID |
| `BaTx` | transmit sessions of one TID of one station |
| `BaTx_proofs` | theorems about it |
| `RxReorder` | the reorder buffer of one TID and its session |
| `RxReorder_proofs` | theorems about it |
| `WiphyWork` | the work list of one device |
| `WiphyWork_proofs` | theorems about it |
| `MvmTxq` | one TID's transmit queue in `iwlwifi`, from mac80211 to the ring |
| `MvmTxq_proofs` | theorems about it |
| `OffChannel` | scans and ROCs of one device, with its driver |
| `OffChannel_proofs` | theorems about it |
| `MeshPlink` | mesh peering of several nodes and the air between them |
| `MeshPlink_proofs` | theorems about it |
| `Induction` | facts about finite sets and recursive functions that the proofs need |
| `MC_*` | extend one of them for TLC |

`BaTx` takes two facts from other parts. That queued work is carried out (its flag
`work` and the fairness of its worker) is what `WiphyWork` shows: `NoLostWakeup`,
`WorkRuns` and, for the removal of a station, `CancelHolds`. `OffChannel` takes the same of
its works, and that they run one after the other in the order of their queueing. The order of driver
calls and frames is stated in `AmpduContract`, and `BaTx` implements it under
`phase <- drv, inflight <- (tx = "ampdu")`. `ChDbg` with one writer implements `DbgLog` under
a mapping that reads the ring from its index on.

### 2.1 ChDbg

A call of `wifi_dbg()` is `BeginLine` (the copy starts), `EndLine`, `LoadIndex` and
`StoreIndex`. The last two are one statement of C and two accesses to memory. Two
copies that overlap in one line leave `Garbled`, a line of unknown text and the
greatest length. A message is a writer, a call number and a length, since only the
length matters to the reader, who is the operator `CharsBefore`: the characters that
`strlcat` has put in the buffer before a line, newline characters included.

### 2.2 BaTx

`pc` is the point the holder of the wiphy mutex has reached; `back` is where a shared
subroutine (`__ieee80211_stop_tx_ba_session`) returns to, and `reason` its argument.
A section of the mutex is split wherever it gives up `sta->lock`, calls the driver or waits
in `synchronize_net()`. `req` is the softirq caller between its unlocked checks and
its locked part, `tx` the transmitter between dequeue and the driver; both hold an
RCU read lock, and `gp` is the set of them a grace period in progress has to wait for.

| variable | code |
|---|---|
| `tid_start_tx`, `tid_tx` | the two entries of `sta->ampdu_mlme`, as serial numbers of the allocation, 0 for NULL |
| `allocator`, `addba_req_num` | `dialog_token_allocator`, `addba_req_num[tid]` |
| `state`, `ssn`, `stop_reason` | the fields of the session |
| `addba_resp_timer`, `session_timer` | armed or not |
| `block_ba`, `sta` | `WLAN_STA_BLOCK_BA`; inserted, unlinked, freed |
| `txq_stop`, `txq_ampdu`, `frags`, `tid_seq` | flags and fragments of the queue, the next sequence number |
| `drv` | what the driver has been asked, and has answered |
| `send_delba`, `answer` | a DELBA owed at the end of a stop; what the peer knows of each request |
| `work` | the station's `ampdu_mlme.work` is on the wiphy's list |

Actions carry the names of their functions, with a suffix for the part of the function
they model: `StopTxBaSessionLocked` is the part of `__ieee80211_stop_tx_ba_session` under
`sta->lock`, `...Quiesce` the deletion of timers and the grace period, `...Driver` the
call of the driver. One TID is modelled, because TIDs share only the worker,
which visits them in turn. The queue has one dequeuer at a time, which is what drivers
arrange; for `iwlwifi` it is the property `OneTransmitter` of `MvmTxq`, proved for any
number of contexts.
Sequence numbers are taken modulo `SeqMod`; a frame lost on the air is a peer
that does not answer. The spacing of repeated requests in time is left out: a start
is possible as soon as the count allows it. `UnblockBa` stands for every way the flag is
cleared, so that it also covers the restart after a suspend.

### 2.3 RxReorder

`b` is the session's memory: `head`, `ssn`, `started`, `auto_seq`, `buf`, `age`, `filtered`, `stored`, `timer`,
`removed`, and `frames`, the list of frames the present call hands to the stack. The
release functions are operators on that record, one for each C function, and every
critical section of `reorder_lock` is one action. Slots are sequences of subframes; a frame is its
sequence number and whether more subframes of the A-MSDU follow. Time is in ticks and a
slot knows its age, so that `jiffies` need not wrap; `Timeout` is
`HT_RX_REORDER_BUF_TIMEOUT`. The three loops of the release are recursive functions on the number of
rounds done: `ReleaseFrames` as far as a new head, `Searched` over the slots behind a gap, and `InTurn` until the next missing
frame. `session` goes through the stop: live,
unlinked, session timer deleted (`quiet`), marked `removed`, condemned (waiting for readers), freed; `rx` is a receiver that has
looked the session up and `th` the timer's handler. Subframes of one A-MSDU are not
interleaved with those of another with the same number, as `iwlwifi` guarantees
(`mvm/rxmq.c` line 2354). The parsing of ADDBA requests is not part of it: a session starts with the parameters negotiated.

### 2.4 WiphyWork

`list` is `wiphy_work_list`, `posters` the contexts that have added to it and not yet called
`queue_work`, `scheduled` the pending bit of the workqueue item, `waiting` the instances
of the function that run and want the mutex, `holder` who has it, `armed` and `firing` the timers
of delayed works and their handlers. `running` and `end` belong to the loop of
`cfg80211_process_wiphy_works`. Two history variables, `asked` and `owed`, say what has been asked for since it was last
cancelled and what the present flush still has to wait for; they restrict nothing.


### 2.5 MvmTxq

Frames are counted: `waiting` in mac80211's queue, `mpdus` of the skb a thread is
sending, `ring`, `overflow_q`, and `replay`, the overflow queue as the reclaim has taken
it out. `pc` has an entry for each context: the callers of `wake_tx_queue`, the worker
`add_stream_wk`, and the reclaim, which the transport runs one at a time. Each of them
may come to transmit, so the loop of `iwl_mvm_mac_itxq_xmit` (`TakeRequest` to
`DecRequest`) is written once for all of them, and `Return` says where it goes back to.

| action | code |
|---|---|
| `Enqueue`, `WakeTxQueue`, `AddStream` | mac80211's call, and the two halves of `iwl_mvm_mac_wake_tx_queue` |
| `NextMpdu` | the loop over the segments of an skb in `iwl_mvm_tx_skb_sta` |
| `StopQueue`, `PutAfterStop`, `Put` | `iwl_trans_pcie_tx`: the two bits of a stop are two steps with the lock held |
| `Reclaim`, `NextReplay`, `ReplayPut`, `FinishReclaim` | `iwl_txq_reclaim`, cut where it releases the lock |
| `WakeQueue`, `ClearFull` | `iwl_wake_queue` and `iwl_mvm_queue_state_change`: the two bits of a wake, without the lock |
| `StartWork` to `EndWork` | `iwl_mvm_add_new_dqa_stream_wk` |
| `BeginRedirect` to `EndRedirect` | `iwl_mvm_redirect_queue`, as the inactivity check calls it for a queue with one TID left |
| `Drain*`, `DisableQueue`, `Unmap`, `EnableQueue` | the transport's part of the redirect |

`Command` stands for a synchronous command to the firmware. It returns once its response
has been handled, in the context that also calls the reclaim, so that a reclaim begun
before has ended. Without this guard TLC finds STOP_FULL left set by a replay that is
still running when the queue is enabled again: the ordering is part of why the code works.
`parked` is a history variable: frames have been left to the next caller by the end of a
redirect or by a failed allocation, and nobody has called since. One hardware queue and
one TID are modelled; frames of other TIDs on a shared queue would take space on the
ring. Which queue `iwl_mvm_sta_alloc_queue` takes for a TID (`AllocQueue`), a free one or a shared one that it
may have to redirect (`mvm/sta.c` 1395-1403 and 1489), makes no difference to that TID: STOP_REDIRECT is set for the new TID alone,
which is not READY and does not transmit, and a redirect that fails is `AllocFails`. What it does
to the other TIDs of a shared queue, which go on transmitting, is out of the model. The driver's suspend state, flushing, removal and reuse of queues, and devices whose
firmware manages the queues are left out.


### 2.6 OffChannel

`local` is one record with the fields of `struct ieee80211_local` that matter, and a handler is an
operator from the record it finds to the set of those it may leave, one for each C
function: `StartScan`, `ScanCompleted`, `ScanCancel`, `StartNextRoc`, `RocWork`,
`RunDeferredScan` and so on call each other as the functions do. The choices in a
set are the driver's answers. An action is a request, an event of the driver, a timer,
or a work that runs to its end, because all of them hold the wiphy mutex; only the loop of
`ieee80211_scan_work` is cut, into one action for each turn (`looping`), since the driver and
the receive path may come between. `works` is the wiphy's list in its order.

| action | code |
|---|---|
| `RequestScan`, `AbortScan` | `ieee80211_request_scan`, `ieee80211_abort_scan` |
| `RunScanWork`, `ScanLoop` | `ieee80211_scan_work` and the states of its loop |
| `RequestRoc`, `Cancel`, `Quiesce` | `ieee80211_start_roc_work`, `ieee80211_cancel_roc`, `ieee80211_roc_purge` with the cancel of the scan, as `ieee80211_do_stop` and suspend call them |
| `RunRocWork`, `RunHwRocStart`, `RunHwRocDone` | the three works of `offchannel.c` |
| `DriverScanDone`, `DriverReady`, `DriverExpired` | the driver's reports |
| `RxBeacon`, `RxMark` | the two steps of `ieee80211_scan_rx` on `local->scanning` |
| `RestartHw`, `RestartWork` | `in_reconfig` is set; `ieee80211_restart_work` |
| `StartPoll`, `StopPoll` | the connection poll of `mlme.c`, which starts a deferred scan when it ends |

The constant `Drivers` says which operations a driver has and what else may happen in a behaviour
(`Events`), so that the run covers software, hardware and mixed devices in turn.
`StartScanFails` is a scan that is refused at once, before anything is set (a scan there is already, radar, a link
that is not active, no memory), or refused as it begins; a driver may refuse to cancel a ROC, which then goes on (`offchannel.c` 719-721). The
test of `scan_work` whether the interface still runs (`scan.c` 1122) is left out: `ieee80211_do_stop` clears that bit and cancels the scan
(`iface.c` 475-480) under the mutex that the loop holds.
Durations are not numbers: a ROC's may be over whenever `roc_work`'s timer is not in the future, and whether
two ROCs may be combined is a choice. Probe requests, results and scheduled scans are left out.

### 2.7 MeshPlink

`sta[<<p, q>>]` is what node `p` keeps of `q`, `timer[<<p, q>>]` its timer together with the handler, which may
be waiting for `plink_lock` or have a frame to send; `worker[p]` is what the thread with the wiphy mutex is about to
do; `air` holds the frames on their way. A frame is handled in four steps, because three of them are
outside the lock or look at the station again.

| action | code |
|---|---|
| `Deliver` | `mesh_process_plink_frame` up to the event, without the lock |
| `Store` | the peer's id, in a station that may be new |
| `Step`, `Send` | `mesh_plink_fsm` under the lock, and the frames after it, with the ids the station has by then |
| `Beacon`, `UserOpen`, `UserBlock` | `mesh_neighbour_update`, and the commands of `sta_apply_mesh_params` |
| `Destroy`, `DelTimerSync` | `mesh_plink_deactivate` before and after the wait for the handler |
| `Expires`, `Fires`, `TimerSends` | the timer, its handler under the lock, and its frame |
| `Lose`, `Crash` | the environment: a frame is lost, a node starts again, perhaps with another mesh configuration |

`Fsm` and `Event` are `mesh_plink_fsm` and `mesh_plink_get_event` as functions. A new link id is one that nobody
remembers: the code draws 16 bits at random and excludes only its own stations' ids, so an id that an old frame still
carries comes again with a probability the model takes for none. A behaviour has one of the `Settings`, which say
whose beacons are heard, at which nodes the handler and the worker may overtake each other (elsewhere what a node has begun is finished
first), what users do and how often nodes restart. A `"suspend"` is a command that meets a timer: a system
that is suspended with its links kept (WoWLAN) sets `quiescing`, and the timer's handler then leaves at once (`mesh_plink.c` 674), in `Fires`. A frame
that is refused before its event is found (its form, the RSSI of line 1177), and an OPEN for which no station
can be had (530, 1191-1194), change nothing, and are the same as `Lose`; that the station is not authenticated (1065)
does not happen, since the kernel makes it so (545). Frames are encrypted or not, which is left out, as are rate sets, power
save and the airtime metric. Links managed by user space (`user_mpm`) are not part of it.


## 3. Runs

TLC explores each instance completely. State counts are of distinct states.

| run | constants | why they are enough |
|---|---|---|
| `chdbg` | 2 writers, 3 lines of 3 characters, 4 calls; 1.9 million states | one writer alone goes over the wrap of the ring, and a call can be overtaken by complete ones of the other writer |
| `ba_tx_safety` | 2 sessions, 3 sequence numbers, all events; 1.75 million | the second session meets every remnant of the first: late answers, timers, bits, waiting works |
| `ba_tx_live` | 2 sessions, retry limit 0, no fragments and no rekeys; 127,608 | a session has a predecessor and a successor, and the limit on unanswered requests is reached by the second |
| `rx_reorder` | 2 slots, 6 numbers, block ack requests, filtered frames, timeouts; 35,875 | a number before, in and beyond the window, a gap and a mark at each position |
| `wiphy_work` | 2 works and 1 delayed work, 2 posters; 143,106 | a third entry behind the one a flush waits for; a work that keeps being queued beside another |
| `mvm_txq` | 2 callers, 2 frames waiting, 2 segments, a ring of 4 with both marks at 2; 282,412 | four contexts can transmit; a stop, a full ring, an overflow and a wake all happen within two skbs |
| `off_channel` | 2 interfaces, 2 channels in a request, 3 ROCs of which two can be combined, 2 scan requests, 10 kinds of driver; 524,472 | a scan and a ROC in each state when each event comes, a third ROC behind two that are combined, the last band of a hardware scan |
| `off_channel_live` | the same, 5 calm kinds of driver; 38,896 | each side waits for the other, for a poll and for a restart |
| `mesh_plink` | 2 nodes and, in one setting, 3; two frames in each direction in one setting; 1 retry; 10 ids; 1,999,270 | an old frame in a new link, a timer against each transition, a user's command and a suspend in each state, another mesh after a restart, one place for two peers |
| `mesh_plink_live` | 2 nodes, one restart, 2 frames in each direction; 14,825 | the restart may come in every state of the other end |

Two more runs look for a violation and find it; they are named in section 5. Beside the configurations of
the runs there are some that can be run in the same way with `MC_*`: `BaTx_stalled`, `BaTx_uncollected`,
`RxReorder_one_slot`, `RxReorder_left_behind`, `RxReorder_session_timer`, `MvmTxq_hanging`, `OffChannel_hw_scan` and `MeshPlink_suspend` show the other counterexamples
of section 5, and `RxReorder_amsdu` checks `TimerArmed` with subframes and `auto_seq` in 827,065 states.

In `rx_reorder` and `RxReorder_amsdu` the number of sequence numbers is a multiple of the
buffer size and more than twice it, as 4096 is for the sizes that are powers of two. Marks
of filtered frames and `auto_seq` are not combined: the sessions a driver offloads and
firmware that filters belong to different drivers.

What the passing runs show:

* `KeepsNewest`: while a single writer has called, the ring is a log of the newest messages at every step of a call (the abstract `DbgLog`).
* `ReadKeepsEveryLine`: the reader's buffer, without room for the final newline
  of a full ring, still holds every character of every line.
* `SsnAnnounced`: the number read after `synchronize_net()` is still the next one when the queue
  starts again, although fragments and transmitters were under way.
* `DriverContract`: a driver never holds an aggregated frame before
  it was told OPERATIONAL or after it was told to stop, and the calls come in order.
* `OwnResponse`: an answer counts for the request with its dialog token.
* `QuietAfterEnd`: no timer outlives its session and nothing points to memory that is freed (`TimersOwned`, `QuietAfterFree`); the second round of
  stopping sessions in `__sta_info_destroy_part2` is needed for it.
* `NoHalfOpen`: an agreement the peer has been asked for ends with a DELBA, unless the peer ended it or the station goes.
* `StartCollected`, `TxqReleased`, `SessionResolved`: progress of the worker, of the queue and of a session.
  The first needs that no rekey, the second that no fragment comes between (section 5).
* `BufferTended` puts together what the reorder buffer promises about itself:
  * `StoredCount`: the count is the number of complete slots on all four paths that change it. The
    loop at `rx.c` line 1225, whose bound is negative for slot 0, ends because of it;
  * `NothingLeftBehind`: no slot keeps what the window has passed, for whole frames; A-MSDUs are a finding below;
  * `NoFalseDuplicate`: a frame of the window that has not come is not taken for one that has;
  * `TimerArmed` and `ReorderTimerGone`: what is stored has a timer, and setting `removed` under the lock before the
    timer is deleted is enough for it never to run in freed memory;
  * `NewFrameInRange`: once room has been made for a frame it is in the window, for windows of at least two slots.
* `InOrder`: each call hands frames up in the order of their numbers and behind what was handed
  up before. A report of filtered frames that sets the window anew (`rx.c` 4378) is exempt, as it means to.
* `HeadMoves`: a gap does not hold up the frames behind it for ever.
* `MarksAreCurrent`: a filtered mark is not inherited by the slot's next sequence number.
* `NoLostWakeup`, `CancelHolds`, `FlushRuns`, `WorkRuns`: the work list keeps its promises, suspend included.
* `OneTransmitter`: the counter keeps contexts out of each other's way, and it is 0 again afterwards.
* `NoneForgotten`, `Served`: who finds the queue taken, stopped or not allocated may leave:
  somebody is going to look at it, and a frame is handed on, except for frames parked by a
  redirect or a failed allocation.
* `StopsAgree`: the bit of the queue and the bit of the TID
  agree except while one of the two is being changed, in spite of a wake without the lock (`StopIsUndone`, `StopHolds`); a queue at
  rest is stopped only while its ring is so full that another response of the firmware is to come (`StopHasCause`); and sending
  the overflow queue never stops the queue again, which is what keeps stop and wake from running side by side (`ReplayNeedsNoStop`).
* `ScanKept`: a scan userspace has asked for is answered once, through deferral, refusal, cancel, restart and purge
  (`ScanOwned`), the bit of a hardware scan never outlives the driver's report (`HwScanEnds`), and no state of
  the scan reads a channel behind the last of the request (`ScanInRange`).
* `RocsEnd`: a ROC that has begun has a work or a driver that will end it; in software the started ROCs are the first of the list, which
  three loops take for granted (`SoftRocsEnd`, `HwRocsOwned`). An end that the driver has reported for a ROC is dealt with before
  the next ROC is given to the driver, which could otherwise be taken for the one that has ended (`EndIsOwn`); also when the ROC is cancelled at that
  moment. A purge is left out of it.
* `RadioIsShared`: scans and ROCs exclude each other, the queues are stopped away from the operating channel, and the
  radio comes back to it. It is stated for behaviours without the three events under which it fails, which are findings or notes below (`Calm`).
* `CancelledScanEnds`: a hardware scan that is cancelled after the driver has reported a band does not go on with the next one.
* `EverythingEnds`: once nobody asks any more, every scan is answered and every ROC ends.
* `EstabCounted`: the count of links is right and within its limit, though the room is looked at before the lock is taken.
* `TimerKept`: a station half way has a timer, also when the handler is overtaken by a transition that arms the timer again (`HalfwayTimed`,
  for settings without a suspend: finding 10), and a station that is gone has none.
* `LinksAgree`, `IdsKept`: two ends that are both up mean the same link, and no late frame changes its ids.
* `Settles`, `HalfOpenEnds`: a link that has begun is established or given up, and none stays up at one end only, while there is room.

`CHECK_DEADLOCK FALSE` is said where the bound on calls or sessions lets the model stop: in
`ChDbg` after `MaxCalls` and in `BaTx` after the last session of a freed station; and in `MeshPlink`, where two
nodes of different meshes, or nodes that have refused each other, really have nothing more to do until somebody asks.

Every property of a passing run has a mutant in `PROJECT.json`: a plausible slip in one
definition under which TLC finds the property violated.


## 4. Fairness

`BaTx`: a section of the wiphy mutex that has begun goes on; the worker is not starved by
other sections (strong fairness), since mutexes are handed over in order and `WorkRuns`
shows that queued works run; a transmitter that holds a frame finishes with it, and a transmitter
fetches fragments that wait, because the driver's scheduler goes on while there are any; a
driver that owes a callback makes it; an armed response timer expires. Nobody is required to start or
stop sessions, to answer, to rekey or to remove stations.

`RxReorder`: time passes, an expired timer's handler starts and the handler runs. Frames need never arrive.

`MvmTxq`: each caller that has begun, the worker and the reclaim go on. Fairness is strong,
because the lock of the queue is a fair spinlock that others keep taking, and the counter
can be found taken again and again. That the reclaim goes on includes that the firmware
answers for frames on the ring; the code has a watchdog for the case that it does not. Nobody need queue a frame.

`WiphyWork`: a poster schedules what it added, a workqueue instance runs and gets the
mutex in its turn (strong fairness for the taking of a mutex that others keep taking), a holder gives it back.

`OffChannel`: the wiphy's worker runs what is on its list (`WorkRuns`), the timers of `scan_work` and `roc_work` fire, a driver
that has accepted a scan or a ROC reports its end, and the poll of a connection ends. That the driver reports the
begin of a ROC is not assumed, nor that a beacon comes. `EverythingEnds` speaks of behaviours in which requests cease; a stream of
ROCs may put off a scan for as long as it lasts.

`MeshPlink`: the threads of a node go on; a timer that is armed again and again expires at some time, beacons are
received at some time, and a CLOSE frame that is sent again and again arrives once (strong fairness). OPEN and CONFIRM frames may
all be lost. In the live run timers expire only when no frame is under way, and the worker and the handler do not overtake each
other: a retry timeout is much longer than the way of a frame, and otherwise each end could give up just before the
answer arrives, every time.


## 5. Findings

The first two are runs that TLC ends with a counterexample; the others are found by the configurations named with
them, which are kept beside the runs.

1. `off_channel_overlap`, `RocExcludesScan`. `ieee80211_roc_purge` (`offchannel.c` 1039) removes a queued ROC that has not
   started and leaves `roc_work` armed for it. The list is empty, so a scan starts. A ROC queued behind the scan is then
   started by that `roc_work`, as `__ieee80211_roc_work` does not look at `local->scanning`: two users of the
   radio at once, where lines 355-356 say "scan can't run". A cancel of an unstarted ROC (lines 712-715) does the same.
2. `mesh_plink_full`, `HalfOpenEnds`. The half-open link that `mesh_plink_get_event` speaks of (lines 1095-1103) is closed
   by refusing the next OPEN of the end that does not have it. When that link is the last one for which there is room, the
   beacons of the end that has it do not accept links, the other end sends no OPEN, and the link stays.
3. `RxReorder_one_slot.cfg`, `NewFrameInRange`. "Now the new frame is always in the range of the reordering buffer" (`rx.c` 1304) fails for a
   window of one slot, which a peer may ask for (`agg-rx.c` 310-316) and which the other runs exclude. A frame exactly 2048 ahead is
   not behind the head; the head is to move 2048 ahead, but `ieee80211_sn_less` is false of two numbers half the space apart, so
   `ieee80211_release_reorder_frames` releases nothing, and the frame goes up as if it were the next.
4. `OffChannel_hw_scan.cfg`, `HwScanOwned`. When a ROC ends while a scan is deferred, and again when a poll does,
   `ieee80211_run_deferred_scan` queues `scan_work` with a delay that rounding may make 0. The first may put it on the list and the
   second arm its timer before it has run. It then runs twice: first it starts a hardware scan, then it
   goes through that scan as if it were one in software; completing it frees the request that the driver is reading, which the comment in `ieee80211_scan_cancel` (`scan.c` 1249-1259) warns of.
5. `BaTx_stalled.cfg`, `NoStalledTxq`. A start that waits for fragments has stopped its queue. When a DELBA or a
   rekey frees it (`agg-tx.c` 333-335) nothing starts the queue again.
6. `BaTx_uncollected.cfg`, `StartCollected`. A start that passed the check of `WLAN_STA_BLOCK_BA` before a rekey set the flag stays in
   `tid_start_tx`: the worker ignores it while blocked, and the end of the block queues no work. No session
   can be requested for the TID from then on, as the request finds the entry taken.
7. `RxReorder_session_timer.cfg`, `SessionTimerGone`. A block ack request handled on another CPU can re-arm the session timer after
   the stop has deleted it (`rx.c` 3288-3290, `agg-rx.c` 106).
8. `RxReorder_left_behind.cfg`, `NothingLeftBehind`. The purge of incomplete A-MSDUs at `rx.c` 1198 starts one slot
   after the head's own. The stale subframe stays in its slot, a later frame with
   the same slot joins it there, and both are handed up together, the first out of order.
9. `MvmTxq_hanging.cfg`, `NoneHanging`. `iwl_mvm_redirect_queue` clears STOP_REDIRECT (`mvm/sta.c` 782) and nobody
   calls `iwl_mvm_mac_itxq_xmit` afterwards on the path that unshares a queue. Frames of callers that were turned
   away wait for the next one, "which may not even happen" (`mvm/mac80211.c` 892).
10. `MeshPlink_suspend.cfg`, `HalfwayTimed`. When the timer of a station that is half way fires while the system is being suspended with
    its links kept, the handler returns before it looks at the station (`mesh_plink.c` 674), and resume does not arm the timer again. The station
    does not repeat its OPEN nor give up. A frame of the peer may move it on; beacons do not, since only a station in LISTEN is
    opened by them, and as they keep the station from expiring the link may wait for a user.

What was seen beside them, without a configuration of its own:

* A scan is deferred until the ROCs are over ("wait for the work to finish/time out", `scan.c` 731). When the only ROC is
  removed before it has started, by a cancel or a purge, nobody calls `ieee80211_run_deferred_scan`, and the scan waits for the next
  ROC or poll to end.
* A driver that reports the begin of a ROC just before it is cancelled leaves `hw_roc_start` queued, which marks the
  next ROC as begun before the driver has; `ieee80211_cancel_roc` flushes the work before, not after, it tells the driver.
* `ieee80211_scan_rx` clears SCAN_BEACON_WAIT and sets SCAN_BEACON_DONE in two steps (`scan.c` 283-289). The end of the
  scan sets `scanning` to 0 (line 478) and may come between; SCAN_BEACON_DONE is then left set without a scan, and
  ROCs are queued behind a scan that is not there until the next request.
* A ROC combined with one that the driver has accepted and not begun (`offchannel.c` 489-526) is not marked as started; if the first ends, the
  second is taken for a new one. In the same function `remaining` is unsigned, and a ROC that is over by then makes it very large.
* In hardware a purge removes an interface's ROCs and does not start those of other interfaces that are queued behind them.
* `mesh_plink_open` draws a new link id (`mesh_plink.c` 798) before it looks at the state. The command OPEN for an established
  link changes the id the peer knows it by, and CONFIRM and CLOSE frames no longer match: `IdsKept` fails when `commands` contains
  `"reopen"`, and the theorem about it assumes that users look first.
* BLOCK followed by OPEN keeps the peer's id and the number of retries of the former link.
* A lost CONFIRM is not repeated by a node whose table is full, since it ignores the OPEN that asks for it again; the peer gives up.

* `agg-tx.c` 520-524 says no packets of the TID go into the driver during the
  `ampdu_action` call. The worker looks at `txqi->frags` once (`ht.c` 404). A transmitter that
  had taken a frame before the queue was stopped fragments it afterwards, and
  the fragments are dequeued in spite of `IEEE80211_TXQ_STOP` (`tx.c` 3843):
  `NoFrameDuringStart`, as an invariant of `BaTx_live.cfg`, holds and fails once `Events` contains `"fragment"`.
* The warning at `agg-tx.c` 460 fires when a stop is asked for between the publication of a session and its
  ADDBA request, which `iwlwifi` may do from its status path (`mvm/rs.c` 577 and 3022).
* A buffer size that does not divide 4096 lets two sequence numbers of one window share a slot where the
  numbers wrap: `NoFalseDuplicate` fails with 3 slots and 8 numbers. `buf_size` is taken from the peer's
  request (`agg-rx.c` 310-317).
* `iwl_trans_pcie_wait_txq_empty` reads `overflow_tx` before the pointers, so a reclaim between the two can
  leave frames to be sent to a queue found empty, in spite of the comment at `queue/tx.c` 1661-1666; they are dropped,
  because the queue is not used any more. A transmitter that had passed the test of
  STOP_REDIRECT is refused in the same way with the warning at `pcie/tx.c` 1472.
* "We stopped tx, so we can't have tx as well" (`queue/tx.c` 1673) does not hold for the segments an
  skb still has when the first of them stops the queue: they go to the ring while the overflow queue is being sent, and before it.
* `StopHolds` needs skbs of fewer segments than the ring has slots. With five segments and a ring of
  four, the same skb can stop a queue between the two halves of its wake; the bit of the TID is then cleared for good. Rings
  have 256 slots or more, so it is a matter of margins.


## 6. Theorems

`ChDbg_proofs`: `TypeCorrect`, and `ReadsInFull` (`ReadKeepsEveryLine`): whatever the number of lines and their length, the reader's buffer
holds every line. The sum over the lines is bounded by induction, with `Recursion` of module `Induction`.
`NewestKept` (`KeepsNewest`) is the refinement: while one thread logs, whatever the size of the ring and the number of calls, the start of a
call and the two halves of `i = (i + 1) % MAX_LINES` are stutters of `DbgLog`, and the end of the copy is `LogMessage`. It rests on the invariant
`LogInv`: who is inside has called; and while there is one writer no line is mixed, its slot and the index it has loaded are
still `i`, and the lines that are empty yet are the oldest (`EmptyUpTo`). `AroundFact` does the arithmetic of the ring, `ShiftedFact`
that of the sequence. With two writers messages get lost, and nothing of the kind is promised.

`Induction`: the library's induction theorems take an operator as a parameter, which the provers cannot instantiate. Those of
this module take a set instead: what holds of 0 and of a successor holds of all (`SetInduction`, `SetInductionUpTo`), and a recursive function
over a range exists, whatever its step (`GoesOn`, `Recursion`). They make the recursive functions of `ChDbg`, `RxReorder` and `OffChannel` provable.

`BaTx_proofs`: for any number of sessions, token range, sequence range, retry limit and set of
events. The properties are not inductive: that no number is used up after the announcement, say,
rests on which readers a grace period has waited for and on the flags they see. The
invariant `IInv` is the conjunction of

* `Lifetime`: when each of the two entries may be set, and what state bits a missing session has;
* `Points`: what the holder of the mutex may rely on at each value of `pc`, in spite of softirqs, timers and the driver;
* `Returns`: to which point a shared subroutine can return for each reason;
* `Handshake`: which state bits go with which state of the driver;
* `Silence`: between a grace period and the reopening of the queue there is no transmitter with an aggregated or numbered frame;
* `Requests`: what the peer knows of requests not made yet, and of the present one;
* `Timers`: when a timer may be armed;
* `Removal` and `SecondRound`: what is already gone at each step of the destruction of the station.

`Invariant` is the theorem `Spec => []IInv`, by one lemma for each group of actions. From it follow `NoRace`
(`NoStartBesideSession`: the comment "could there be a race?" at `ht.c` line 429 is answered, a start never waits beside a
session), `SsnKept` (`SsnAnnounced`), `AmpduInSession` (`AmpduOnlyInSession`), `EndIsQuiet` (`QuietAfterEnd`)
and `WarningsSilent` (`NoWarning`: the warnings at `agg-tx.c` 493 and 802 cannot trigger, and every step of the worker that uses the session finds it in place).

`Refines` says that every behaviour of `BaTx` is one of `AmpduContract`, step by step.

`OnlyOwnResponse` and `NeverHalfOpen` hold under the assumption `DistinctTokens` that fewer sessions
are requested than there are dialog tokens. A token is 8 bits and tokens are reused after 256 requests; an answer as old as that
would be taken for a new one. The theorem says that nothing else can go wrong.

`RxReorder_proofs`: for any timeout, any set of events, and any sizes with `WholeTurns`: the buffer has more than one slot and its size divides the
number of sequence numbers. 4096 is a multiple of the sizes that are powers of two, as drivers and peers choose them; without either half
the properties are false (finding 3 and the observation on sizes that do not divide 4096). The arithmetic is proved first: what `%` does,
that slots go on where sequence numbers start again (`SlotPlus`), and that numbers of one window are in different slots (`SlotOnce`).
Every function of `rx.c` has a lemma that says what it leaves of the buffer it finds (`ReleaseFramesDoes`, `InTurnDoes`, `SearchedDoes`,
`MakeRoomDoes`, `ReceiveDoes`, `BarDoes`, `MarkFilteredDoes`); for the loops these rest on `Rounds`, which takes a recursive function apart into
its rounds, and on an invariant of the rounds. What the functions have in common is `Going` (the head has gone on by so many numbers, and the marks that are left
are ahead of it) and `Stays` (if each stored frame was in its own slot, it still is, and the frames handed over are in order and passed). The invariant `Sound` is the conjunction of

* `Kinds`: the types of what is beside the buffer;
* `Content`: the count is that of the slots that hold a whole frame, and no slot is both marked and in use. Without the second
  half the count is not kept: the release of a marked slot takes the incomplete frame in it for one that was counted;
* `Ended`: which of the ends of a session has cancelled the timers and waited for which reader;
* `Unset`: before the first frame of an `auto_seq` session nothing is stored; without subframes each slot holds one frame, whose number is in
  the window and belongs in that slot (`Placed`);
* `TimerArmed`, which the guard of the timer's handler and the count support.

It is the theorem `AlwaysSound`. `TypeCorrect` (`TypeOK`) and `CountStaysTrue` follow for all events. `BufferStaysTended` (`BufferTended`) and `FramesInOrder` (`InOrder`) assume
that the driver does not split A-MSDUs, because subframes can be left behind the window (finding 8) and reach the stack after later frames (TLC finds `InOrder` violated under `RxReorder_left_behind.cfg` too); `MarksStayCurrent`
(`MarksAreCurrent`) assumes that marks and `auto_seq` are not combined, since the first frame of such a session moves the head away from the marks.

`WiphyWork_proofs`: for any set of works and any number of posters. `Invariant` adds to the properties
`FlushInv` (while a flush holds the mutex everything it owes is on the list; once it knows where to end, only that work
can be owed, and nothing when that work is running) and `SuspendInv` (a suspend in progress has not yet set `suspended`). `ListSound`, `WakeupKept`, `CancelFinal` and `FlushComplete` are its
consequences.

`MvmTxq_proofs`: for any number of contexts, any bounds, and any sizes of the ring and its marks with
`HighMark <= LowMark < Window`, which `iwl_queue_init` (`queue/tx.c` 925-931) ensures for rings of more than four slots.
`IInv` is the conjunction of

* `Places`: which context can be at which point, and that an MPDU being put is still counted;
* `OneTransmitter` and `Counted`: `tx_request` is 0 exactly while nobody is in the loop. Neither is inductive without the other;
* `Redirection`: STOP_REDIRECT is set for the length of a redirect, and the queue is not used between its disable and its enable;
* `Emptied`: after its ring has been emptied, a queue that is not used gets the frames of the two contexts at most that had looked before;
* `Stopping`: a stop under way has set the queue's bit and does not run beside a replay, and a replay finds that bit set,
  or cleared by a redirect, in which case `Emptied` says that no stop is needed;
* `StopIsUndone`, `ListServed` (a queue on the list has a worker) and `NoneForgotten`.

One lemma for each part says that every step keeps it. From `Invariant` follow `Typed` (`TypeOK`), `OneAtATime` (`OneTransmitter`),
`StopComesUndone` (`StopIsUndone`), `NoFrameForgotten` (`NoneForgotten`) and `ReplaySendsFreely` (`ReplayNeedsNoStop`). `StopsMatch`
(`StopsAgree`) is proved from a further invariant under the assumption `SkbFits`: what is left of an skb when one of its segments
stops the queue fits between the mark and the end of the ring. With marks of 64 and 32 of 256 slots it holds for skbs of up to 35 segments.

`MeshPlink_proofs`: for any finite network, any number of ids, frames and retries, and any `Settings`. Three invariants are needed.

* `Base`: `Typed`, with the types of the worker's job and of the air; `Counted`, which adds to `EstabCounted` that a node which
  has accepted an event that may establish a link still has room, because only its worker fills it; `Closed`,
  that a station under destruction is BLOCKED, so that no link is lost uncounted when it goes; and `TimerKept`, whose half about stations half way is for settings without a suspend. `Base` holds under all
  settings (`BaseHolds`). `TypeCorrect`, `LinksCounted` and `TimersKept` follow.
* `IInv` adds `Named`, which says that a station half way has an id of this node's, that it has the peer's before it is established, and that
  a CONFIRM with one id has both; and `InHand`, which says that what the worker has read before it took `plink_lock` still goes with the station, in
  spite of the timer's handler. It holds if users look at the state before they open a link (`UsersLook`), and gives `IdsStay` (`IdsKept`) and
  `LinksNamed`.
* `Agreed` relates what two nodes and the frames between them remember, and gives, with `IInv`, `BothAgree` (`LinksAgree`). Of the two ends of a
  link one speaks and one listens, in turn. The listener's present idea of the speaker's id can be wrong, after a restart for instance, but not
  once the id has reached it (`Reached`), which shows in its station, in what its worker is about to store, in a frame on the way back, or in the speaker's
  having taken a CONFIRM: then neither the station nor the worker nor any frame that is still under way has an older one (`Clean`).
  That this is so when the id arrives follows from the order of frames, an older id being before the present one (`InTime`), and from
  new ids being new (`FreshFact`). Frames may be lost, also those that do not fit into the air (`Late`), without harm to it. The argument
  needs frames that arrive in order, and ids that are not drawn again while an old frame still has them, which 16 random bits make unlikely and the model excludes (2.7).

Each part has a lemma for each action. `StationKept`, `CountKept` and its relatives, `TimerAt` and `LinkedAt` say once what the change of one
station needs, and `PairAt`, `QuietAt` and `RenamedAt` what that of one pair needs.

`OffChannel_proofs`: for any number of interfaces, channels, ROCs and requests and any set of drivers. The handlers are operators that call one
another, so each of them has lemmas of its own, which say what it may leave of what it finds, and the loops over the list of ROCs have one for a
turn. There are two invariants.

* `Sound` holds in every behaviour: types; works and ROCs are on their lists once, and what is marked is on the list (`Listed`); a driver that does
  ROCs has no use for `roc_work` and the others none for its works, and started ROCs in software are the first of the list (`OwnWorks`) with `roc_work` pending for
  them (`SoftEnd`); request, answer and the bits of a hardware scan agree (`Scanned`). It is the theorem `AlwaysSound`, and gives `TypeCorrect` (`TypeOK`), `CancelledEnds` (`CancelledScanEnds`) and `SoftRocsAreEnded` (`SoftRocsEnd`).
  For behaviours without purges `Owned` is added: while the driver has a ROC, or its end waits in `hw_roc_done`, the first of the list has started,
  so that no other is given to the driver before the work has run or been cancelled; and while the end waits the driver has none. It is the theorem `EndsAreOwn` (`EndIsOwn`), and needs no calm: cancels may come at any time.
* `IInv` adds what holds in behaviours without the events that are findings (`Calm`): which bits of `scanning` go together, and with the driver's scan
  (`Kinds`); where a scan has left queues, channel and index (`Tuned`); what runs on its behalf (`Timely`); and that ROCs and scans are apart, with what the
  works and the driver will do about the ROCs (`Radio`). It is the theorem `AlwaysKept`, and gives `ScanStaysWhole` (`ScanKept`), with `EndsAreOwn` `RocsAreEnded`
  (`RocsEnd`), and `RadioStaysShared` (`RadioIsShared`).

Model-checked only: the properties about liveness (`StartCollected`, `TxqReleased`, `SessionResolved`, `HeadMoves`, `WorkRuns`, `Served`, `EverythingEnds`, `Settles`, `HalfOpenEnds`),
whose fairness conditions need ENABLED, which is beyond this prover. Every other property of a passing run is a theorem, under the assumptions named above.


## 7. What is not modelled

Beside the components of 1.8:

* of aggregation: the path for a device that restarts (`in_reconfig`), and frames that reach the driver without a transmit queue;
* of reordering: ADDBA parsing, duplicate detection before the buffer, defragmentation after it;
* of wiphy works: the limit of 100 works of one flush (`core.c` 1076; when it is reached, entries are forgotten that
  still look linked, and can never be queued again), a flush inside a flush, unregistration. `del_timer_sync` and the removal from the list are one step, and at most two instances of the workqueue function exist, as the kernel guarantees;
* of scanning: scheduled scans, building probe requests, results, scans while multiple channel contexts are in use;
* of remaining on a channel: the skbs of `ieee80211_mgmt_tx`, the lengths of ROCs;
* of mesh: path selection, power save, synchronisation, peering run by user space;
* of `chdbg`: loading and unloading.

Formatting, logging, statistics, tracing and byte layouts are left out everywhere.


## 8. Plan

Done so far: `ChDbg`, `BaTx`, `RxReorder`, `WiphyWork`, `MvmTxq`, `OffChannel` and `MeshPlink` with the runs and theorems above. The number
of runs is kept small: a new module has one run that checks all it promises, and takes the place of
a run whose question has been settled. In order of what comes next:

| module | models | abstract specification | properties | to be proved |
|---|---|---|---|---|
| `BaRx` | ADDBA requests, offloaded sessions, `agg-rx.c`; composed with `RxReorder` | the recipient's half of an agreement | the peer and the table agree, buffer size in range | type, agreement |
| `StaInfo` | station ladder and two-part destruction | states change one step at a time | readers find no freed station, driver and stack agree on the state | agreement |
| `Chanctx` | `chan.c` reservations | all or none | reference counts, no context without user | counts |
| `Keys` | `key.c` tailroom and replacement | none | a frame is never encrypted with a key already freed | counter |
| `BssTable` | `../wireless/scan.c` | none | reference counts of combined entries | counts |
| `HtAmpdu` | `ieee80211_ht.c` of FreeBSD | `AmpduContract` | the same promises as `BaTx` | contract |

Of what exists, the liveness properties are left to be proved, should a prover come to support fairness.
