----------------------------- MODULE RxReorder -----------------------------
(***************************************************************************)
(* The recipient side of a Block-Ack session of mac80211: the reorder      *)
(* buffer of one TID (rx.c), the timers that empty it and the end of the   *)
(* session (agg-rx.c).                                                     *)
(*                                                                         *)
(* Four parties share a struct tid_ampdu_rx:                               *)
(*  - the receive path finds it under rcu_read_lock() and then works on    *)
(*    it under reorder_lock: frames, BARs, and what the driver reports     *)
(*    about frames its firmware filtered;                                  *)
(*  - the reorder timer looks the session up once more when it fires;      *)
(*  - the session timer;                                                   *)
(*  - the holder of the wiphy mutex, who starts and stops the session.     *)
(*                                                                         *)
(* The operators below are the functions that run under reorder_lock: each *)
(* takes the buffer b, a record, and returns it changed.  jiffies are      *)
(* abstracted to the age of each slot and to the time the reorder timer    *)
(* has left, in units in which HT_RX_REORDER_BUF_TIMEOUT is Timeout.       *)
(***************************************************************************)
EXTENDS Naturals, Sequences, FiniteSets, SequencesExt

CONSTANTS
  BufSize,   \* tid_agg_rx->buf_size
  SnMod,     \* IEEE80211_SN_MODULO (4096)
  Timeout,   \* HT_RX_REORDER_BUF_TIMEOUT
  MaxSub,    \* bound: subframes stored of one A-MSDU before its last
  Events     \* which of AllEvents the environment may cause

AllEvents == {"amsdu", "bar", "filter", "auto_seq", "timeout"}

ASSUME RxReorderAssumption ==
  /\ BufSize \in Nat \ {0} /\ SnMod \in Nat /\ 2 * BufSize < SnMod
  /\ Timeout \in Nat /\ MaxSub \in Nat \ {0} /\ Events \subseteq AllEvents

Slots == 0 .. BufSize - 1
SNs   == 0 .. SnMod - 1

(* A received MPDU or subframe of one: its sequence number, and whether    *)
(* more subframes follow (RX_FLAG_AMSDU_MORE).                             *)
Frames == [sn : SNs, more : BOOLEAN]

Off == Timeout + 2   \* the reorder timer is not armed

VARIABLES
  b,              \* what reorder_lock protects: the record TypeOK describes
  session,        \* how far the session's life has come
  session_timer,  \* is the session timer armed?
  rx,             \* the receive path: "idle", holding the session, in a BAR
  amsdu,          \* the A-MSDU whose subframes the driver is reporting, or NoAmsdu
  th              \* the reorder timer's handler: "idle", or has found the session

vars == <<b, session, session_timer, rx, amsdu, th>>

NoAmsdu == SnMod

Lives == {"none", "live", "unlinked", "quiet", "removed", "condemned", "freed"}

TypeOK ==
  /\ b \in [head : SNs,                      \* head_seq_num
             stored : 0 .. BufSize,           \* stored_mpdu_num
             buf : [Slots -> Seq(Frames)],    \* reorder_buf
             filtered : SUBSET Slots,         \* reorder_buf_filtered
             age : [Slots -> 0 .. Timeout + 1], \* jiffies - reorder_time, as far as it matters
             timer : 0 .. Off,                \* what reorder_timer has left
             started : BOOLEAN, auto_seq : BOOLEAN, removed : BOOLEAN,
             frames : Seq(Frames)]            \* what the last call gave to the RX handlers
  /\ session \in Lives /\ session_timer \in BOOLEAN
  /\ rx \in {"idle", "held", "bar"} /\ amsdu \in SNs \cup {NoAmsdu} /\ th \in {"idle", "found"}

(* The buffer of a new session: kzalloc(), then "update data". *)
Fresh(ssn, auto) ==
  [head |-> ssn, stored |-> 0, buf |-> [j \in Slots |-> <<>>], filtered |-> {},
   age |-> [j \in Slots |-> Timeout + 1], timer |-> Off,
   started |-> FALSE, auto_seq |-> auto, removed |-> FALSE, frames |-> <<>>]

Init ==
  /\ b = Fresh(0, FALSE)
  /\ session = "none" /\ session_timer = FALSE
  /\ rx = "idle" /\ amsdu = NoAmsdu /\ th = "idle"

-----------------------------------------------------------------------------
(* Sequence numbers. *)

(* A mutant: the sum is not masked. *)
MutPlus(sn, n) == sn + n

Plus(sn, n) == (sn + n) % SnMod
Dist(s, t)  == (t + SnMod - s) % SnMod

(* ieee80211_sn_less() *)
SnLess(s, t) == Dist(t, s) > SnMod \div 2

(* The slot of a sequence number. *)
Slot(sn) == sn % BufSize

-----------------------------------------------------------------------------
(* The buffer. *)

Complete(c, j) == c.buf[j] # <<>> /\ ~Last(c.buf[j]).more

(* ieee80211_rx_reorder_ready() *)
Ready(c, j) == j \in c.filtered \/ Complete(c, j)

(* A mutant: the mark of a filtered frame stays. *)
MutReleaseFrame(c, j) ==
  LET out == c.buf[j] # <<>> /\ Ready(c, j) IN
  [c EXCEPT !.frames = IF out THEN @ \o c.buf[j] ELSE @,
            !.stored = IF out THEN @ - 1 ELSE @,
            !.buf[j] = <<>>,
            !.head   = Plus(@, 1)]

(* ieee80211_release_reorder_frame(): a slot is emptied, into the list of  *)
(* frames to be handled if it is ready.                                    *)
ReleaseFrame(c, j) ==
  LET out == c.buf[j] # <<>> /\ Ready(c, j) IN
  [c EXCEPT !.frames = IF out THEN @ \o c.buf[j] ELSE @,
            !.stored = IF out THEN @ - 1 ELSE @,
            !.buf[j] = <<>>, !.filtered = @ \ {j},
            !.head   = Plus(@, 1)]

ReleaseHead(c) == ReleaseFrame(c, Slot(c.head))

(* ieee80211_release_reorder_frames() *)
ReleaseFrames(c, head) ==
  LET n == IF SnLess(c.head, head) THEN Dist(c.head, head) ELSE 0
      d[k \in 0 .. n] == IF k = 0 THEN c ELSE ReleaseHead(d[k - 1])
  IN  d[n]

(* A mutant: a session being removed arms the timer all the same. *)
MutSetReleaseTimer(c, j) == [c EXCEPT !.timer = Timeout + 1 - c.age[j]]

(* The label set_release_timer. *)
SetReleaseTimer(c, j) ==
  IF c.removed THEN c ELSE [c EXCEPT !.timer = Timeout + 1 - c.age[j]]

(* The first slot from that of head on which is ready; the loop that looks *)
(* for it ends at the slot before that of head.                            *)
FirstReady(c) ==
  LET ready == {k \in 0 .. BufSize - 1 : Ready(c, (Slot(c.head) + k) % BufSize)}
  IN  (Slot(c.head) + (IF ready = {} THEN BufSize - 1 ELSE Min(ready))) % BufSize

Arm(c) ==
  IF c.stored > 0 THEN SetReleaseTimer(c, FirstReady(c)) ELSE [c EXCEPT !.timer = Off]

(* The slots between that of head and j, in ring order. *)
Between(index, j) ==
  {(index + k) % BufSize : k \in 1 .. ((j + BufSize - index) % BufSize) - 1}

(* A mutant: the slots skipped are not counted. *)
MutTimedOut(c, index, skipped, j) ==
  ReleaseFrame([c EXCEPT !.buf = [i \in Slots |->
                   IF i \in Between(index, j) THEN <<>> ELSE @[i]]], j)

(* A slot that is released because it has timed out, or follows one that   *)
(* has: incomplete A-MSDUs before it are dropped, the skipped numbers too. *)
TimedOut(c, index, skipped, j) ==
  LET purged == [c EXCEPT !.buf = [i \in Slots |->
                   IF i \in Between(index, j) THEN <<>> ELSE @[i]]]
  IN  [ReleaseFrame(purged, j) EXCEPT !.head = Plus(@, skipped)]

(* A mutant: a frame is not given up at the time the timer is set for.     *)
MutSearch(s, k) ==
  LET j == (s.index + k) % BufSize IN
  CASE s.done \/ ~Ready(s.c, j) -> [s EXCEPT !.skipped = @ + 1]
    [] ~s.done /\ Ready(s.c, j) /\ s.skipped > 0 /\ s.c.age[j] <= Timeout + 1
         -> [s EXCEPT !.done = TRUE, !.c = SetReleaseTimer(@, j)]
    [] OTHER
         -> [s EXCEPT !.c = TimedOut(@, s.index, s.skipped, j), !.skipped = 0]

(* One round of the search for timed-out frames, at the k-th slot after    *)
(* that of the head the search began with.                                 *)
Search(s, k) ==
  LET j == (s.index + k) % BufSize IN
  CASE s.done              -> s
    [] ~s.done /\ ~Ready(s.c, j) -> [s EXCEPT !.skipped = @ + 1]
    [] ~s.done /\ Ready(s.c, j) /\ s.skipped > 0 /\ s.c.age[j] <= Timeout
         -> [s EXCEPT !.done = TRUE, !.c = SetReleaseTimer(@, j)]
    [] OTHER
         -> [s EXCEPT !.c = TimedOut(@, s.index, s.skipped, j), !.skipped = 0]

(* The whole search for timed-out frames. *)
Searched(c) ==
  LET s[k \in 0 .. BufSize - 1] ==
        IF k = 0 THEN [c |-> c, index |-> Slot(c.head), skipped |-> 1, done |-> FALSE]
        ELSE Search(s[k - 1], k)
  IN  s[BufSize - 1]

(* Frames are released in turn, until the next that is missing. *)
NextInTurn(c) == IF Ready(c, Slot(c.head)) THEN ReleaseHead(c) ELSE c

InTurn(c) ==
  LET d[k \in 0 .. BufSize] == IF k = 0 THEN c ELSE NextInTurn(d[k - 1])
  IN  d[BufSize]

(* ieee80211_sta_reorder_release() *)
ReorderRelease(c) ==
  IF ~Ready(c, Slot(c.head)) /\ c.stored > 0
  THEN LET search == Searched(c) IN IF search.done THEN search.c ELSE Arm(search.c)
  ELSE Arm(InTurn(c))

(* Room is made for a frame beyond the window. *)
MakeRoom(c, sn) ==
  IF SnLess(sn, Plus(c.head, BufSize)) THEN c
  ELSE ReleaseFrames(c, Plus(sn, SnMod - BufSize + 1))

(* ieee80211_sta_manage_reorder_buf() for a frame not out of date: dropped *)
(* as a duplicate, handled at once, or stored.                             *)
Manage(c, f) ==
  LET j == Slot(f.sn) IN
  CASE Ready(c, j) -> c
    [] ~Ready(c, j) /\ f.sn = c.head /\ c.stored = 0
         -> [c EXCEPT !.frames = Append(@, f),
                      !.head = IF f.more THEN @ ELSE Plus(@, 1)]
    [] ~Ready(c, j) /\ (f.sn # c.head \/ c.stored > 0)
         -> LET kept == [c EXCEPT !.buf[j] = Append(@, f)]
            IN  IF f.more THEN kept
                ELSE ReorderRelease([kept EXCEPT !.age[j] = 0, !.stored = @ + 1])

(* Offloaded sessions take their starting number from the first frame. *)
PickSsn(c, f) ==
  IF c.auto_seq THEN [c EXCEPT !.auto_seq = FALSE, !.head = f.sn] ELSE c

(* All of it, in its order. *)
ReceiveFrame(c, f) ==
  LET d == PickSsn(c, f) IN
  IF SnLess(f.sn, d.head)
  THEN IF d.started THEN d ELSE [d EXCEPT !.frames = <<f>>]
  ELSE Manage(MakeRoom([d EXCEPT !.started = TRUE], f.sn), f)

(* ieee80211_mark_rx_ba_filtered_frames(): the window is moved to ssn, or  *)
(* given up if too much was received, and the bitmap set for the numbers   *)
(* marked, a set of offsets from ssn.                                      *)
MarkFiltered(c, ssn, marked, giveup) ==
  LET d == IF giveup THEN [ReleaseFrames(c, Plus(c.head, BufSize)) EXCEPT !.head = ssn]
                     ELSE ReleaseFrames(c, ssn)
      diff == Dist(ssn, d.head)
  IN  IF diff >= BufSize THEN [d EXCEPT !.filtered = {}]
      ELSE ReorderRelease([d EXCEPT !.filtered =
             {(ssn + diff + i) % BufSize : i \in {k \in 0 .. BufSize - 1 : k + diff \in marked}}])

-----------------------------------------------------------------------------
(* The session.  What runs under reorder_lock starts with an empty list of *)
(* frames.                                                                 *)

Locked == [b EXCEPT !.frames = <<>>]

(* __ieee80211_start_rx_ba_session(), accepted.  (A session may be started *)
(* while the last one is still waiting for its readers; they share         *)
(* nothing, so only the one in hand is followed.)                          *)
StartRxBaSession ==
  /\ session \in {"none", "freed"}
  /\ \E ssn \in SNs, auto \in IF "auto_seq" \in Events THEN BOOLEAN ELSE {FALSE} :
       b' = Fresh(ssn, auto)
  /\ session' = "live"
  /\ session_timer' = ("timeout" \in Events)
  /\ amsdu' = NoAmsdu
  /\ UNCHANGED <<rx, th>>

(* __ieee80211_stop_rx_ba_session(): the pointer is cleared and the driver *)
(* told,                                                                   *)
StopRxBaSession ==
  /\ session = "live" /\ session' = "unlinked"
  /\ UNCHANGED <<b, session_timer, rx, amsdu, th>>

(* the session timer deleted,                                              *)
StopSessionTimer ==
  /\ session = "unlinked" /\ session' = "quiet"
  /\ session_timer' = FALSE
  /\ UNCHANGED <<b, rx, amsdu, th>>

(* the session marked, under reorder_lock,                                 *)
StopMarkRemoved ==
  /\ session = "quiet" /\ session' = "removed"
  /\ b' = [Locked EXCEPT !.removed = TRUE]
  /\ UNCHANGED <<session_timer, rx, amsdu, th>>

(* the reorder timer deleted when its handler is not running.              *)
StopReorderTimer ==
  /\ session = "removed" /\ th = "idle" /\ session' = "condemned"
  /\ b' = [Locked EXCEPT !.timer = Off]
  /\ UNCHANGED <<session_timer, rx, amsdu, th>>

(* ieee80211_free_tid_rx(), after the grace period. *)
FreeTidRx ==
  /\ session = "condemned" /\ rx = "idle" /\ th = "idle" /\ session' = "freed"
  /\ b' = [Locked EXCEPT !.buf = [j \in Slots |-> <<>>]]
  /\ UNCHANGED <<session_timer, rx, amsdu, th>>

-----------------------------------------------------------------------------
(* The receive path. *)

FindSession ==
  /\ rx = "idle" /\ session = "live" /\ rx' = "held"
  /\ UNCHANGED <<b, session, session_timer, amsdu, th>>

(* A data frame, of any sequence number.  A driver that splits an A-MSDU   *)
(* reports its subframes one after the other, with no other frame between  *)
(* them (as iwlwifi/mvm/rxmq.c:2354 does).                                 *)
RxFrame ==
  /\ rx = "held" /\ rx' = "idle"
  /\ \E f \in Frames :
       /\ amsdu \in {f.sn, NoAmsdu}
       /\ f.more => "amsdu" \in Events /\ Len(b.buf[Slot(f.sn)]) < MaxSub
       /\ amsdu' = IF f.more THEN f.sn ELSE NoAmsdu
       /\ b' = ReceiveFrame(Locked, f)
  /\ UNCHANGED <<session, session_timer, th>>

(* A BAR: ieee80211_rx_h_ctrl() re-arms the session timer ... *)
RxBarTimer ==
  /\ rx = "held" /\ amsdu = NoAmsdu /\ "bar" \in Events /\ rx' = "bar"
  /\ session_timer' = (session_timer \/ "timeout" \in Events)
  /\ UNCHANGED <<b, session, amsdu, th>>

(* ... and releases what is before the number it carries. *)
RxBar ==
  /\ rx = "bar" /\ rx' = "idle"
  /\ \E ssn \in SNs : b' = ReleaseFrames(Locked, ssn)
  /\ UNCHANGED <<session, session_timer, amsdu, th>>

(* The driver's firmware filtered frames of a window that starts at ssn;   *)
(* what it filtered was never received.                                    *)
RxFiltered ==
  /\ rx = "held" /\ amsdu = NoAmsdu /\ "filter" \in Events /\ rx' = "idle"
  /\ \E ssn \in SNs, marked \in SUBSET (0 .. BufSize - 1), giveup \in BOOLEAN :
       /\ \A i \in marked : b.buf[Slot(Plus(ssn, i))] = <<>>
       /\ b' = MarkFiltered(Locked, ssn, marked, giveup)
  /\ UNCHANGED <<session, session_timer, amsdu, th>>

-----------------------------------------------------------------------------
(* Time. *)

Tick ==
  /\ b' = [Locked EXCEPT
             !.age   = [j \in Slots |-> IF @[j] > Timeout THEN @[j] ELSE @[j] + 1],
             !.timer = IF @ \in {0, Off} THEN @ ELSE @ - 1]
  /\ UNCHANGED <<session, session_timer, rx, amsdu, th>>

(* sta_rx_agg_reorder_timer_expired() looks the session up, *)
ReorderTimerExpired ==
  /\ b.timer = 0 /\ th = "idle"
  /\ b' = [Locked EXCEPT !.timer = Off]
  /\ th' = IF session = "live" THEN "found" ELSE "idle"
  /\ UNCHANGED <<session, session_timer, rx, amsdu>>

(* and releases what has timed out. *)
ReorderTimeout ==
  /\ th = "found" /\ th' = "idle"
  /\ b' = ReorderRelease(Locked)
  /\ UNCHANGED <<session, session_timer, rx, amsdu>>

(* sta_rx_agg_session_timer_expired() after a silence; what it asks of the *)
(* worker, to stop the session, may happen at any time anyway.             *)
SessionTimerExpired ==
  /\ session_timer /\ session_timer' = FALSE
  /\ UNCHANGED <<b, session, rx, amsdu, th>>

Stop ==
  \/ StopRxBaSession \/ StopSessionTimer \/ StopMarkRemoved \/ StopReorderTimer \/ FreeTidRx

Receive == FindSession \/ RxFrame \/ RxBarTimer \/ RxBar \/ RxFiltered
Time    == Tick \/ ReorderTimerExpired \/ ReorderTimeout \/ SessionTimerExpired

Next == StartRxBaSession \/ Stop \/ Receive \/ Time

Spec == Init /\ [][Next]_vars

(* Time passes, and an expired timer and its handler run. *)
Fairness == WF_vars(Tick) /\ WF_vars(ReorderTimerExpired) /\ WF_vars(ReorderTimeout)

FairSpec == Spec /\ Fairness

-----------------------------------------------------------------------------
(* Safety.                                                                 *)

(* stored_mpdu_num is the "number of MPDUs in reordering buffer"           *)
(* (sta_info.h:218), whatever mix of releases, timeouts, BARs and filter   *)
(* marks: when it is not, the loop of rx.c:1225, whose bound (index - 1) % *)
(* buf_size is -1 for index 0, does not end, or frames are forgotten.      *)
StoredCount ==
  session # "freed" => b.stored = Cardinality({j \in Slots : Complete(b, j)})

(* The window: the frames the buffer waits for. *)
Window(c) == {Plus(c.head, k) : k \in 0 .. BufSize - 1}

(* A frame of the window that has not been received is not mistaken for a  *)
(* stored one (rx.c:1308 "check if we already stored this frame").         *)
NoFalseDuplicate ==
  session = "live" =>
    \A sn \in Window(b) : Complete(b, Slot(sn)) => \E i \in DOMAIN b.buf[Slot(sn)] : b.buf[Slot(sn)][i].sn = sn

(* "Now the new frame is always in the range of the reordering buffer"     *)
(* (rx.c:1304): whatever number comes, if it is not out of date then the   *)
(* window is moved as far as it.                                           *)
NewFrameInRange ==
  session = "live" => \A sn \in SNs : ~SnLess(sn, b.head) => sn \in Window(MakeRoom(b, sn))

(* No slot keeps frames that the window has passed (rx.c:1198 "don't leave *)
(* incomplete A-MSDUs around").                                            *)
NothingLeftBehind ==
  session = "live" =>
    \A j \in Slots : \A i \in DOMAIN b.buf[j] : b.buf[j][i].sn \in Window(b)

(* As long as frames are stored somebody will release them: the reorder    *)
(* timer is armed or its handler under way (rx.c:1222-1239).               *)
TimerArmed ==
  session = "live" /\ b.stored > 0 => b.timer # Off \/ th = "found"

(* A session that is freed leaves no timer behind, though the receive path *)
(* may arm the reorder timer until the last moment (agg-rx.c:108-112).     *)
ReorderTimerGone == session = "freed" => b.timer = Off

(* The buffer is tended: its count, slots, window and timer go together.   *)
BufferTended ==
  /\ StoredCount /\ TimerArmed /\ ReorderTimerGone
  /\ NewFrameInRange /\ NoFalseDuplicate /\ NothingLeftBehind

(* "All other code manipulating it needs to (and does) make sure that we   *)
(* cannot get to it any more before doing anything with it" (rx.c:1404).   *)
SessionTimerGone == session = "freed" => ~session_timer

-----------------------------------------------------------------------------
(* Action properties.                                                      *)

(* Frames reach the stack in order and once: each call hands over frames   *)
(* in rising order of sequence number, only subframes of one A-MSDU with   *)
(* the same one, and each is passed by the head, which never moves back,   *)
(* unless more subframes with the number of the head are to come.  (Not    *)
(* before the session has seen its first frame; a report of the firmware   *)
(* that gives the window up sets it anew, rx.c:4378.)                      *)
InOrder ==
  [][ session = "live" /\ session' = "live" /\ b.started /\ b'.started /\ ~RxFiltered =>
        LET out == b'.frames IN
        /\ \A i \in DOMAIN out :
             \/ Dist(b.head, out[i].sn) < Dist(b.head, b'.head)
             \/ out[i].more /\ out[i].sn = b.head
        /\ \A i, k \in DOMAIN out : i < k =>
             \/ Dist(b.head, out[i].sn) < Dist(b.head, out[k].sn)
             \/ out[i].more /\ out[i].sn = out[k].sn ]_b

(* A mark left by the firmware is for one number: unless the bitmap is     *)
(* written anew, what is marked was marked before, with the same number in *)
(* the slot.  A mark that stayed when the window has moved on would make   *)
(* rx.c:1309 drop a frame as already stored.                               *)
NumberIn(c, j) == CHOOSE sn \in Window(c) : Slot(sn) = j

MarksAreCurrent ==
  [][ session = "live" /\ session' = "live" =>
        \/ \A j \in b'.filtered : j \in b.filtered /\ NumberIn(b', j) = NumberIn(b, j)
        \/ RxFiltered ]_b

-----------------------------------------------------------------------------
(* Liveness.                                                               *)

(* A gap does not block the stream for ever: while frames are stored the   *)
(* head moves on (rx.c:1160-1168), whatever else is received.              *)
HeadMoves ==
  \A h \in SNs :
    session = "live" /\ b.stored > 0 /\ b.head = h ~> session # "live" \/ b.head # h \/ b.stored = 0
=============================================================================
