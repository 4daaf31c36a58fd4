------------------------------ MODULE WiphyWork ------------------------------
(***************************************************************************)
(* The works of a wiphy (wireless/core.c): what mac80211 and cfg80211 put  *)
(* off until they can hold the wiphy mutex.                                *)
(*                                                                         *)
(* Any context may queue a work: it is put on wiphy_work_list under        *)
(* wiphy_work_lock, and then, with the lock given back, the one work item  *)
(* wiphy_work is handed to a workqueue.  Its function, cfg80211_wiphy_work *)
(* takes the wiphy mutex, runs the first work of the list and hands itself *)
(* to a workqueue again if there are more.  A delayed work is queued by    *)
(* its timer.  The holder of the mutex, be it a work that runs or another  *)
(* caller, may cancel or flush works; a suspended wiphy runs none.         *)
(*                                                                         *)
(* wiphy_work is handed to two workqueues, system_wq and                   *)
(* system_unbound_wq, so two instances of its function may be under way.   *)
(***************************************************************************)
EXTENDS Naturals, Sequences

CONSTANTS
  Works,        \* the struct wiphy_work of one wiphy
  Delayed,      \* those inside a struct wiphy_delayed_work
  NoWork,
  MaxPosters    \* bound: contexts between the list and the workqueue at once

ASSUME WiphyWorkAssumption ==
  Delayed \subseteq Works /\ NoWork \notin Works /\ MaxPosters \in Nat

VARIABLES
  list,        \* wiphy_work_list
  posters,     \* contexts that have yet to hand wiphy_work to the workqueue
  scheduled,   \* is wiphy_work pending in a workqueue?
  waiting,     \* instances of cfg80211_wiphy_work() waiting for the mutex
  holder,      \* who holds the wiphy mutex, and what for
  running,     \* the work whose function runs, or NoWork
  end,         \* the work a flush waits for; NoWork if for all of them
  suspended,   \* rdev->suspended
  armed,       \* the delayed works whose timer is armed
  firing,      \* the delayed works whose timer function runs
  asked,       \* history: works queued or armed since they were last cancelled
  owed         \* history: works the flush under way has to run

vars == <<list, posters, scheduled, waiting, holder, running, end, suspended,
          armed, firing, asked, owed>>

timers == <<armed, firing>>

Holders == {"none", "worker", "caller", "flush", "suspend"}

TypeOK ==
  /\ list \in Seq(Works)
  /\ posters \in 0 .. MaxPosters /\ scheduled \in BOOLEAN /\ waiting \in 0 .. 2
  /\ holder \in Holders
  /\ running \in Works \cup {NoWork} /\ end \in Works \cup {NoWork}
  /\ suspended \in BOOLEAN
  /\ armed \subseteq Delayed /\ firing \subseteq Delayed
  /\ asked \subseteq Works /\ owed \subseteq Works
  /\ holder \notin {"worker", "flush"} => running = NoWork

Init ==
  /\ list = <<>> /\ posters = 0 /\ scheduled = FALSE /\ waiting = 0
  /\ holder = "none" /\ running = NoWork /\ end = NoWork
  /\ suspended = FALSE
  /\ armed = {} /\ firing = {}
  /\ asked = {} /\ owed = {}

-----------------------------------------------------------------------------
(* The list. *)

Queued == {list[i] : i \in DOMAIN list}

(* Under wiphy_work_lock: a work that is on the list stays where it is. *)
ListAdd(w) == list' = IF w \in Queued THEN list ELSE Append(list, w)

(* list_del_init() of a work that may be on the list. *)
ListDel(w) ==
  IF w \notin Queued THEN list' = list
  ELSE \E i \in DOMAIN list :
         /\ list[i] = w
         /\ list' = [j \in 1 .. Len(list) - 1 |-> IF j < i THEN list[j] ELSE list[j + 1]]

(* The mutex is held by somebody who may cancel: its holder's own code or  *)
(* the function of the work that runs.                                     *)
MayCancel ==
  \/ holder \in {"worker", "caller"}
  \/ holder = "flush" /\ running # NoWork

-----------------------------------------------------------------------------
(* Queueing. *)

(* wiphy_work_queue(): the list first ... *)
WorkQueue(w) ==
  /\ posters < MaxPosters
  /\ ListAdd(w) /\ posters' = posters + 1
  /\ asked' = asked \cup {w}
  /\ UNCHANGED <<scheduled, waiting, holder, running, end, suspended, timers, owed>>

(* ... then queue_work(). *)
WorkPost ==
  /\ posters > 0
  /\ posters' = posters - 1 /\ scheduled' = TRUE
  /\ UNCHANGED <<list, waiting, holder, running, end, suspended, timers, asked, owed>>

(* wiphy_delayed_work_queue() with a delay, *)
DelayedWorkQueue(w) ==
  /\ armed' = armed \cup {w} /\ asked' = asked \cup {w}
  /\ UNCHANGED <<list, posters, scheduled, waiting, holder, running, end, suspended,
                 firing, owed>>

(* and with none: the timer is deleted, though its function may be running *)
DelayedWorkQueueNow(w) ==
  /\ posters < MaxPosters
  /\ armed' = armed \ {w}
  /\ ListAdd(w) /\ posters' = posters + 1
  /\ asked' = asked \cup {w}
  /\ UNCHANGED <<scheduled, waiting, holder, running, end, suspended, firing, owed>>

TimerExpires(w) ==
  /\ w \in armed \ firing
  /\ armed' = armed \ {w} /\ firing' = firing \cup {w}
  /\ UNCHANGED <<list, posters, scheduled, waiting, holder, running, end, suspended,
                 asked, owed>>

(* wiphy_delayed_work_timer() *)
DelayedWorkTimer(w) ==
  /\ w \in firing /\ posters < MaxPosters
  /\ firing' = firing \ {w}
  /\ ListAdd(w) /\ posters' = posters + 1
  /\ UNCHANGED <<scheduled, waiting, holder, running, end, suspended, armed, asked, owed>>

-----------------------------------------------------------------------------
(* cfg80211_wiphy_work() *)

(* A workqueue starts an instance: wiphy_work is no longer pending. *)
WorkerStart ==
  /\ scheduled /\ waiting + (IF holder = "worker" THEN 1 ELSE 0) < 2
  /\ scheduled' = FALSE /\ waiting' = waiting + 1
  /\ UNCHANGED <<list, posters, holder, running, end, suspended, timers, asked, owed>>

(* A mutant: what is left on the list is left to the next caller. *)
MutScheduleMore == UNCHANGED scheduled

(* With one work taken off, the next one is provided for. *)
ScheduleMore == scheduled' = (scheduled \/ Len(list) > 1)

(* It gets the mutex: it runs the first work, unless the wiphy is          *)
(* suspended or there is none.                                             *)
WorkerTakes ==
  /\ waiting > 0 /\ holder = "none"
  /\ waiting' = waiting - 1
  /\ \/ /\ suspended \/ list = <<>>
        /\ UNCHANGED <<list, scheduled, holder, running>>
     \/ /\ ~suspended /\ list # <<>>
        /\ running' = Head(list) /\ list' = Tail(list)
        /\ ScheduleMore
        /\ holder' = "worker"
  /\ UNCHANGED <<posters, end, suspended, timers, asked, owed>>

(* A mutant: the mutex is given back before the function has returned. *)
MutWorkerDone ==
  /\ holder = "worker" /\ holder' = "none"
  /\ UNCHANGED <<list, posters, scheduled, waiting, running, end, suspended, timers, asked, owed>>

(* The function of the work returns, the mutex is given back. *)
WorkerDone ==
  /\ holder = "worker"
  /\ holder' = "none" /\ running' = NoWork
  /\ UNCHANGED <<list, posters, scheduled, waiting, end, suspended, timers, asked, owed>>

-----------------------------------------------------------------------------
(* Other holders of the mutex. *)

CallerLock ==
  /\ holder = "none" /\ holder' = "caller"
  /\ UNCHANGED <<list, posters, scheduled, waiting, running, end, suspended, timers,
                 asked, owed>>

CallerUnlock ==
  /\ holder = "caller" /\ holder' = "none"
  /\ UNCHANGED <<list, posters, scheduled, waiting, running, end, suspended, timers,
                 asked, owed>>

Cancelled(w) == asked' = asked \ {w} /\ owed' = owed \ {w}

(* wiphy_work_cancel() *)
WorkCancel(w) ==
  /\ MayCancel /\ w \notin Delayed
  /\ ListDel(w) /\ Cancelled(w)
  /\ UNCHANGED <<posters, scheduled, waiting, holder, running, end, suspended, timers>>

(* A mutant: del_timer() instead of del_timer_sync(). *)
MutTimerIdle(w) == TRUE

(* What del_timer_sync() waits for. *)
TimerIdle(w) == w \notin firing

(* wiphy_delayed_work_cancel() *)
DelayedWorkCancel(w) ==
  /\ MayCancel /\ TimerIdle(w)
  /\ armed' = armed \ {w}
  /\ ListDel(w) /\ Cancelled(w)
  /\ UNCHANGED <<posters, scheduled, waiting, holder, running, end, suspended, firing>>

(* wiphy_work_flush() of one work, or of all, that finds something to do. *)
WorkFlush ==
  /\ holder = "caller" /\ holder' = "flush"
  /\ \/ end' \in Queued /\ owed' = {end'}
     \/ end' = NoWork /\ owed' = Queued
  /\ UNCHANGED <<list, posters, scheduled, waiting, running, suspended, timers, asked>>

(* wiphy_delayed_work_flush(): the timer is deleted; a work that was only  *)
(* waiting for its timer is not run.                                       *)
DelayedWorkFlush(w) ==
  /\ holder = "caller" /\ TimerIdle(w)
  /\ armed' = armed \ {w}
  /\ IF w \in Queued THEN holder' = "flush" /\ end' = w /\ owed' = {w}
                     ELSE UNCHANGED <<holder, end, owed>>
  /\ UNCHANGED <<list, posters, scheduled, waiting, running, suspended, firing, asked>>

(* cfg80211_process_wiphy_works(): the works are run one after the other   *)
(* ... (Its limit of 100 works, after which it warns and forgets the rest, *)
(* is taken not to be reached.)                                            *)
FlushRun ==
  /\ holder = "flush" /\ running = NoWork /\ list # <<>>
  /\ running' = Head(list) /\ list' = Tail(list)
  /\ owed' = owed \ {Head(list)}
  /\ UNCHANGED <<posters, scheduled, waiting, holder, end, suspended, timers, asked>>

(* A mutant: a flush ends with the first work it has run. *)
MutFlushReached == TRUE

FlushReached == running = end

(* ... until the work waited for has run or the list is empty. *)
FlushRan ==
  /\ holder = "flush" /\ running # NoWork
  /\ running' = NoWork
  /\ IF FlushReached THEN holder' = "caller" ELSE UNCHANGED holder
  /\ UNCHANGED <<list, posters, scheduled, waiting, end, suspended, timers, asked, owed>>

FlushEmpty ==
  /\ holder = "flush" /\ running = NoWork /\ list = <<>>
  /\ holder' = "caller"
  /\ UNCHANGED <<list, posters, scheduled, waiting, running, end, suspended, timers,
                 asked, owed>>

(* wiphy_suspend() ends with all works run, the driver suspended, *)
Suspend ==
  /\ holder = "caller" /\ ~suspended /\ list = <<>>
  /\ holder' = "suspend"
  /\ UNCHANGED <<list, posters, scheduled, waiting, running, end, suspended, timers,
                 asked, owed>>

(* which may fail, and the flag set.  What is queued meanwhile remains.    *)
SuspendDone ==
  /\ holder = "suspend" /\ holder' = "none"
  /\ suspended' \in BOOLEAN
  /\ UNCHANGED <<list, posters, scheduled, waiting, running, end, timers, asked, owed>>

(* A mutant: a resumed wiphy waits for the next work to be queued. *)
MutResumeSchedules == UNCHANGED scheduled

(* schedule_work() *)
ResumeSchedules == scheduled' = TRUE

(* wiphy_resume() *)
Resume ==
  /\ holder = "caller" /\ suspended
  /\ suspended' = FALSE /\ ResumeSchedules /\ holder' = "none"
  /\ UNCHANGED <<list, posters, waiting, running, end, timers, asked, owed>>

-----------------------------------------------------------------------------
Queue == \E w \in Works :
  \/ w \notin Delayed /\ WorkQueue(w)
  \/ w \in Delayed /\ (DelayedWorkQueue(w) \/ DelayedWorkQueueNow(w) \/ TimerExpires(w))

Timer  == \E w \in Delayed : DelayedWorkTimer(w)
Worker == WorkerStart \/ WorkerTakes \/ WorkerDone
Flush  == FlushRun \/ FlushRan \/ FlushEmpty

Caller ==
  \/ CallerLock \/ WorkFlush \/ Suspend \/ Resume
  \/ \E w \in Works : WorkCancel(w)
  \/ \E w \in Delayed : DelayedWorkCancel(w) \/ DelayedWorkFlush(w)

Next == Queue \/ Timer \/ WorkPost \/ Worker \/ Caller \/ CallerUnlock \/ Flush \/ SuspendDone

Spec == Init /\ [][Next]_vars

(* Contexts that queue, timer functions, instances and holders of the      *)
(* mutex get on; the mutex is handed over in order, so that an instance    *)
(* waiting for it is not passed over for ever.                             *)
Fairness ==
  /\ WF_vars(WorkPost) /\ WF_vars(Timer) /\ WF_vars(WorkerStart) /\ SF_vars(WorkerTakes)
  /\ WF_vars(WorkerDone) /\ WF_vars(Flush) /\ WF_vars(CallerUnlock) /\ WF_vars(SuspendDone)

FairSpec == Spec /\ Fairness

-----------------------------------------------------------------------------
(* Safety.                                                                 *)

(* A work is on the list at most once: list_add_tail() of an entry that is *)
(* linked already would destroy the list (core.c:1614).                    *)
OnListOnce == \A i, j \in DOMAIN list : list[i] = list[j] => i = j

(* Nothing queued is overlooked: while the list is not empty and the wiphy *)
(* not suspended, wiphy_work is pending, or an instance of it or a context *)
(* that is about to hand it over is under way, though queueing, flushing,  *)
(* cancelling, suspending and running are not one critical section         *)
(* (core.c:433, 1618, sysfs.c:140).                                        *)
NoLostWakeup ==
  list # <<>> /\ ~suspended => scheduled \/ waiting > 0 \/ posters > 0

(* What has been cancelled stays so until it is asked for again: neither   *)
(* the list nor a timer nor a timer function half way through brings it    *)
(* back (core.c:1679; sta_info.c:1427 relies on it).                       *)
CancelHolds == Queued \cup armed \cup firing \subseteq asked

(* When a flush is over, what it had to wait for has run or was cancelled  *)
(* (core.c:1073, and scan, ROC and driver teardown that rely on it).       *)
FlushRuns == holder # "flush" => owed = {}

-----------------------------------------------------------------------------
(* Liveness.                                                               *)

(* A queued work is run, or cancelled, or the wiphy is suspended, however  *)
(* many other works requeue themselves.                                    *)
WorkRuns == \A w \in Works : w \in Queued ~> w \notin Queued \/ suspended
=============================================================================
