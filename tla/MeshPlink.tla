------------------------------ MODULE MeshPlink ------------------------------
(***************************************************************************)
(* The mesh peering management of mac80211 (mesh_plink.c): every node      *)
(* keeps a station, with a small state machine, a timer and two link ids,  *)
(* for each neighbour, and sends OPEN, CONFIRM and CLOSE frames, any of    *)
(* which may be lost.  A link is up at a node when its station is ESTAB.   *)
(*                                                                         *)
(* In a node two threads use a station: the worker, which handles frames,  *)
(* beacons and commands under the wiphy mutex, and the handler of the      *)
(* station's timer.  plink_lock covers the step of the state machine; the  *)
(* choice of the event before it and the frame sent after it are outside.  *)
(***************************************************************************)
EXTENDS Naturals, Sequences, FiniteSets, Functions

CONSTANTS
  Nodes,
  Near,      \* the nodes that a node can hear
  Ids,       \* link ids; a new one is one that nobody remembers
  Meshes,    \* what mesh_matches_local() compares
  Settings   \* see below

None == 0

(* hears: whose beacons a node gets; racy: nodes where the timer's       *)
(* handler and the worker may overtake one another; early: timers may    *)
(* expire while frames are under way; links: dot11MeshMaxPeerLinks;      *)
(* retries: dot11MeshMaxRetries; commands: what users do, to suspend a   *)
(* system that keeps its links (WoWLAN) included; frames bounds the      *)
(* frames in the air in one direction, and crashes how often nodes are   *)
(* restarted.                                                            *)
ASSUME MeshPlinkAssumption ==
  /\ IsFiniteSet(Nodes)
  /\ Near \in [Nodes -> SUBSET Nodes]
  /\ \A p \in Nodes : p \notin Near[p] /\ \A q \in Near[p] : p \in Near[q]
  /\ Ids \subseteq Nat \ {0}
  /\ Settings \subseteq
       [hears : SUBSET (Nodes \X Nodes), racy : SUBSET Nodes, early : BOOLEAN,
        links : [Nodes -> Nat], retries : Nat,
        commands : SUBSET {"open", "reopen", "block", "delete", "suspend"},
        meshes : SUBSET Meshes, frames : Nat, crashes : Nat]

VARIABLES
  setting,
  mesh,      \* the mesh id and configuration of a node
  sta,       \* its stations: struct mesh_sta
  timer,     \* their plink_timer, and its handler
  estab,     \* estab_plinks
  worker,    \* what the node's worker is about to do
  air,       \* frames from one node to another
  crashes

vars == <<setting, mesh, sta, timer, estab, worker, air, crashes>>

Halfway == {"OPN_SNT", "OPN_RCVD", "CNF_RCVD", "HOLDING"}
States  == {"NONE", "LISTEN", "ESTAB", "BLOCKED"} \cup Halfway

LinkIds == Ids \cup {None}

\* "NONE": there is no station
Station == [state : States, llid : LinkIds, plid : LinkIds, retries : Nat]

\* the handler waits for plink_lock, or has a frame to send
Timer == [armed : BOOLEAN, handler : {"idle", "entered", "OPEN", "CLOSE"}]

Frame == [type : {"OPEN", "CONFIRM", "CLOSE"}, llid : LinkIds, plid : LinkIds,
          mesh : Meshes]

Idle == [op |-> "idle"]

Pairs == {pq \in Nodes \X Nodes : pq[2] \in Near[pq[1]]}

NoStation == [state |-> "NONE", llid |-> None, plid |-> None, retries |-> 0]

Init ==
  /\ setting \in Settings
  /\ mesh \in [Nodes -> setting.meshes]
  /\ sta   = [pq \in Pairs |-> NoStation]
  /\ timer = [pq \in Pairs |-> [armed |-> FALSE, handler |-> "idle"]]
  /\ estab = [p \in Nodes |-> 0]
  /\ worker = [p \in Nodes |-> Idle]
  /\ air   = [pq \in Pairs |-> <<>>]
  /\ crashes = 0

-----------------------------------------------------------------------------
(* Link ids and frames. *)

(* Where the ids of p's links are: with p, with its peers and in the air.  *)
Remembered(p) ==
  (UNION {{sta[<<p, q>>].llid, sta[<<q, p>>].plid} : q \in Near[p]})
    \cup (UNION {{air[<<p, q>>][i].llid : i \in DOMAIN air[<<p, q>>]} : q \in Near[p]})
    \cup (UNION {{air[<<q, p>>][i].plid : i \in DOMAIN air[<<q, p>>]} : q \in Near[p]})
    \cup {worker[q].plid : q \in {n \in Near[p] : worker[n].op = "store" /\ worker[n].peer = p}}

(* mesh_get_new_llid(): random, so that all those nobody remembers are the *)
(* same, and it looks for one until there is one.                          *)
IdLeft(p) == Ids \ Remembered(p) # {}

NewId(p) == CHOOSE id \in Ids \ Remembered(p) : TRUE

(* mesh_plink_frame_tx(): only CONFIRM and CLOSE carry the peer's id. *)
FrameOf(type, p, l) ==
  [type |-> type, llid |-> l.llid, plid |-> IF type = "OPEN" THEN None ELSE l.plid,
   mesh |-> mesh[p]]

(* What does not fit into the air is lost, the oldest first. *)
Added(frames, pq, sent) ==
  LET all == frames[pq] \o sent
  IN  [frames EXCEPT ![pq] =
         IF Len(all) <= setting.frames THEN all
         ELSE SubSeq(all, Len(all) - setting.frames + 1, Len(all))]

Sent(pq, sent) == Added(air, pq, sent)

FreeCount(p) == setting.links[p] - estab[p]

-----------------------------------------------------------------------------
(* The state machine.  A step has the station it leaves, whether the timer *)
(* is armed (mod_timer) or not (del_timer), what is added to estab_plinks, *)
(* and the frames sent after it.                                           *)

Restarted(l) == [l EXCEPT !.state = "LISTEN", !.llid = None, !.plid = None, !.retries = 0]

Stay(l, armed, send)      == [sta |-> l, armed |-> armed, up |-> 0, down |-> 0, send |-> send]
Goto(l, state, armed, send) == Stay([l EXCEPT !.state = state], armed, send)

(* A mutant: the holding timer is not started. *)
MutClose(l) == Goto(l, "HOLDING", FALSE, <<"CLOSE">>)

(* mesh_plink_establish(), mesh_plink_close(), and __mesh_plink_deactivate() *)
(* before it                                                               *)
Establish(l, send) == [Goto(l, "ESTAB", FALSE, send) EXCEPT !.up = 1]
Close(l)           == Goto(l, "HOLDING", TRUE, <<"CLOSE">>)

(* A mutant: a link that is closed stays in the count. *)
MutLeaveEstab(l) == Close(l)

LeaveEstab(l) == [Close(l) EXCEPT !.down = 1]

(* mesh_plink_fsm() *)
Fsm(p, l, armed, event) ==
  LET In(states, events) == l.state \in states /\ event \in events
  IN CASE In({"LISTEN"}, {"CLS_ACPT"}) -> Stay(Restarted(l), armed, <<>>)
       [] In({"LISTEN"}, {"OPN_ACPT"}) ->
            Goto([l EXCEPT !.llid = NewId(p)], "OPN_RCVD", TRUE, <<"OPEN", "CONFIRM">>)
       [] In({"OPN_SNT", "OPN_RCVD", "CNF_RCVD"}, {"OPN_RJCT", "CNF_RJCT", "CLS_ACPT"}) ->
            Close(l)
       [] In({"OPN_SNT"}, {"OPN_ACPT"})  -> Goto(l, "OPN_RCVD", armed, <<"CONFIRM">>)
       [] In({"OPN_SNT"}, {"CNF_ACPT"})  -> Goto(l, "CNF_RCVD", TRUE, <<>>)
       [] In({"OPN_RCVD", "ESTAB"}, {"OPN_ACPT"}) -> Stay(l, armed, <<"CONFIRM">>)
       [] In({"OPN_RCVD"}, {"CNF_ACPT"}) -> Establish(l, <<>>)
       [] In({"CNF_RCVD"}, {"OPN_ACPT"}) -> Establish(l, <<"CONFIRM">>)
       [] In({"ESTAB"}, {"CLS_ACPT"})    -> LeaveEstab(l)
       [] In({"HOLDING"}, {"CLS_ACPT"})  -> Stay(Restarted(l), FALSE, <<>>)
       [] In({"HOLDING"}, {"OPN_ACPT", "CNF_ACPT", "OPN_RJCT", "CNF_RJCT"}) ->
            Stay(l, armed, <<"CLOSE">>)
       [] OTHER -> Stay(l, armed, <<>>)

(* The frame is of another link of the peer; it answers another link of    *)
(* this node; and a CLOSE counts for the station's link.                   *)

\* A mutant: the peer's id is not compared.
MutOther(l, f) == FALSE

Other(l, f) == l.plid # None /\ l.plid # f.llid

\* A mutant: this node's id is not compared.
MutAnswersOther(l, f) == FALSE

AnswersOther(l, f) == l.llid # f.plid

\* A mutant: ids are compared in every state, as the standard has it.
MutCloses(l, f) == l.plid = f.llid /\ (f.plid # None => ~AnswersOther(l, f))

Closes(l, f) == l.state = "ESTAB" \/ (l.plid = f.llid /\ (f.plid # None => ~AnswersOther(l, f)))

(* mesh_plink_get_event(): l is the station, f the frame from it. *)
Event(p, l, f) ==
  LET matches == f.type = "CLOSE" \/ f.mesh = mesh[p]
      full    == FreeCount(p) = 0
  IN CASE l.state = "NONE" ->
            IF ~matches THEN "OPN_RJCT"
            ELSE IF f.type # "OPEN" \/ full THEN "UNDEFINED" ELSE "OPN_ACPT"
       [] l.state = "BLOCKED" -> "UNDEFINED"
       [] l.state \notin {"NONE", "BLOCKED"} /\ f.type = "OPEN" ->
            IF ~matches THEN "OPN_RJCT" ELSE IF full \/ Other(l, f) THEN "OPN_IGNR" ELSE "OPN_ACPT"
       [] l.state \notin {"NONE", "BLOCKED"} /\ f.type = "CONFIRM" ->
            IF ~matches THEN "CNF_RJCT"
            ELSE IF full \/ AnswersOther(l, f) \/ Other(l, f) THEN "CNF_IGNR" ELSE "CNF_ACPT"
       [] OTHER -> IF Closes(l, f) THEN "CLS_ACPT" ELSE "CLS_IGNR"

-----------------------------------------------------------------------------
(* The worker: frames.                                                     *)

Ready(p) == worker[p].op = "idle"

(* mesh_process_plink_frame(): the event, without plink_lock, ... A      *)
(* frame that is refused before (its form, the RSSI, a station that is   *)
(* new and cannot be had) changes nothing, as one that is lost.          *)
Handle(p, q) ==
  LET f == Head(air[<<q, p>>])
      l == sta[<<p, q>>]
      e == Event(p, l, f)
      taken == [air EXCEPT ![<<q, p>>] = Tail(@)]
      answer == [type |-> "CLOSE", llid |-> None, plid |-> f.llid, mesh |-> mesh[p]]
  IN  /\ \/ /\ l.state = "NONE" /\ e = "OPN_RJCT"
            /\ air' = Added(taken, <<p, q>>, <<answer>>)
            /\ UNCHANGED worker
         \/ /\ e = "UNDEFINED"
            /\ air' = taken /\ UNCHANGED worker
         \/ /\ (l.state # "NONE" /\ e # "UNDEFINED") \/ e = "OPN_ACPT"
            /\ air' = taken
            /\ worker' = [worker EXCEPT ![p] =
                 [op |-> IF e \in {"OPN_ACPT", "CNF_ACPT"} THEN "store" ELSE "fsm",
                  peer |-> q, event |-> e, plid |-> f.llid]]
      /\ UNCHANGED <<setting, mesh, sta, timer, estab, crashes>>

Deliver(p, q) == Ready(p) /\ air[<<q, p>>] # <<>> /\ Handle(p, q)

(* ... the peer's id, in a station which may be new, ... *)
Store(p) ==
  LET w == worker[p]
      l == sta[<<p, w.peer>>]
      m == IF l.state = "NONE" THEN [l EXCEPT !.state = "LISTEN"] ELSE l
  IN  /\ worker[p].op = "store"
      /\ sta' = [sta EXCEPT ![<<p, w.peer>>] =
                   IF w.event = "OPN_ACPT" \/ m.plid = None THEN [m EXCEPT !.plid = w.plid] ELSE m]
      /\ worker' = [worker EXCEPT ![p].op = "fsm"]
      /\ UNCHANGED <<setting, mesh, timer, estab, air, crashes>>

(* ... the step, under plink_lock, ... *)
Step(p) ==
  LET w == worker[p]
      pq == <<p, w.peer>>
      s == Fsm(p, sta[pq], timer[pq].armed, w.event)
  IN  /\ worker[p].op = "fsm"
      /\ sta[pq].state = "LISTEN" /\ w.event = "OPN_ACPT" => IdLeft(p)
      /\ sta' = [sta EXCEPT ![pq] = s.sta]
      /\ timer' = [timer EXCEPT ![pq].armed = s.armed]
      /\ estab' = [estab EXCEPT ![p] = @ + s.up - s.down]
      /\ worker' = [worker EXCEPT ![p] =
           IF s.send = <<>> THEN Idle ELSE [op |-> "send", peer |-> w.peer, send |-> s.send]]
      /\ UNCHANGED <<setting, mesh, air, crashes>>

(* ... and the frames, with the ids the station has by then. *)
Send(p) ==
  LET w == worker[p]
      pq == <<p, w.peer>>
  IN  /\ worker[p].op = "send"
      /\ air' = Sent(pq, [i \in DOMAIN w.send |-> FrameOf(w.send[i], p, sta[pq])])
      /\ worker' = [worker EXCEPT ![p] = Idle]
      /\ UNCHANGED <<setting, mesh, sta, timer, estab, crashes>>

-----------------------------------------------------------------------------
(* The worker: beacons, commands, and the end of a station.                *)

(* mesh_plink_open(), which looks at the state after it has changed llid. *)
Open(p, q, l) ==
  /\ IdLeft(p)
  /\ IF l.state \in {"LISTEN", "BLOCKED"}
     THEN /\ sta' = [sta EXCEPT ![<<p, q>>] = [l EXCEPT !.state = "OPN_SNT", !.llid = NewId(p)]]
          /\ timer' = [timer EXCEPT ![<<p, q>>].armed = TRUE]
          /\ worker' = [worker EXCEPT ![p] =
                          [op |-> "send", peer |-> q, send |-> <<"OPEN">>]]
     ELSE /\ sta' = [sta EXCEPT ![<<p, q>>] = [l EXCEPT !.llid = NewId(p)]]
          /\ UNCHANGED <<timer, worker>>
  /\ UNCHANGED <<setting, mesh, estab, air, crashes>>

(* mesh_neighbour_update(): q's beacon says whether q accepts links, which *)
(* it does while it has room (mesh_accept_plinks_update()).                *)
Beacon(p, q) ==
  LET l == sta[<<p, q>>]
      m == IF l.state = "NONE" THEN [l EXCEPT !.state = "LISTEN"] ELSE l
  IN  /\ Ready(p) /\ <<p, q>> \in setting.hears /\ mesh[p] = mesh[q]
      /\ IF m.state = "LISTEN" /\ FreeCount(q) > 0 /\ FreeCount(p) > 0
         THEN Open(p, q, m)
         ELSE /\ sta' = [sta EXCEPT ![<<p, q>>] = m]
              /\ UNCHANGED <<setting, mesh, timer, estab, worker, air, crashes>>

(* NL80211_PLINK_ACTION_OPEN, which a user who looks at the state gives    *)
(* when no link is on its way, and NL80211_PLINK_ACTION_BLOCK.             *)
UserOpen(p, q) ==
  LET l == sta[<<p, q>>]
      command == IF l.state \in {"LISTEN", "BLOCKED"} THEN "open" ELSE "reopen"
  IN  /\ command \in setting.commands /\ Ready(p)
      /\ l.state # "NONE" /\ Open(p, q, l)

(* __mesh_plink_deactivate() *)

\* A mutant: the count goes down whatever the state was.
MutDeactivated(p, q) ==
  /\ sta' = [sta EXCEPT ![<<p, q>>].state = "BLOCKED"]
  /\ estab' = [estab EXCEPT ![p] = @ - 1]

Deactivated(p, q) ==
  /\ sta' = [sta EXCEPT ![<<p, q>>].state = "BLOCKED"]
  /\ estab' = [estab EXCEPT ![p] = IF sta[<<p, q>>].state = "ESTAB" THEN @ - 1 ELSE @]

UserBlock(p, q) ==
  /\ "block" \in setting.commands /\ Ready(p) /\ sta[<<p, q>>].state # "NONE"
  /\ Deactivated(p, q)
  /\ UNCHANGED <<setting, mesh, timer, worker, air, crashes>>

(* A station is deleted, or expires: mesh_plink_deactivate() closes the    *)
(* link under plink_lock, and then waits for the timer's handler.          *)
Destroy(p, q) ==
  /\ "delete" \in setting.commands /\ Ready(p) /\ sta[<<p, q>>].state # "NONE"
  /\ Deactivated(p, q)
  /\ air' = Sent(<<p, q>>, <<FrameOf("CLOSE", p, sta[<<p, q>>])>>)
  /\ worker' = [worker EXCEPT ![p] = [op |-> "destroy", peer |-> q]]
  /\ UNCHANGED <<setting, mesh, timer, crashes>>

\* A mutant: del_timer(), which does not wait for the handler.
MutDelTimerSync(p) ==
  LET pq == <<p, worker[p].peer>>
  IN  /\ worker[p].op = "destroy"
      /\ timer' = [timer EXCEPT ![pq].armed = FALSE]
      /\ sta' = [sta EXCEPT ![pq] = NoStation]
      /\ worker' = [worker EXCEPT ![p] = Idle]
      /\ UNCHANGED <<setting, mesh, estab, air, crashes>>

DelTimerSync(p) ==
  LET pq == <<p, worker[p].peer>>
  IN  /\ worker[p].op = "destroy" /\ timer[pq].handler = "idle"
      /\ timer' = [timer EXCEPT ![pq].armed = FALSE]
      /\ sta' = [sta EXCEPT ![pq] = NoStation]
      /\ worker' = [worker EXCEPT ![p] = Idle]
      /\ UNCHANGED <<setting, mesh, estab, air, crashes>>

-----------------------------------------------------------------------------
(* The timer's handler, mesh_plink_timer().                                *)

Expires(p, q) ==
  /\ timer[<<p, q>>] = [armed |-> TRUE, handler |-> "idle"]
  /\ setting.early \/ \A pq \in Pairs : air[pq] = <<>>
  /\ timer' = [timer EXCEPT ![<<p, q>>] = [armed |-> FALSE, handler |-> "entered"]]
  /\ UNCHANGED <<setting, mesh, sta, estab, worker, air, crashes>>

(* Under plink_lock. A timer that is armed again expires later. While a  *)
(* system is being suspended (quiescing), which the worker does between  *)
(* two jobs, the handler leaves before all this.                         *)
Leaves(pq, l, armed, handler) ==
  /\ sta' = [sta EXCEPT ![pq] = l]
  /\ timer' = [timer EXCEPT ![pq] = [armed |-> armed, handler |-> handler]]

Fires(p, q) ==
  LET pq == <<p, q>>
      l  == sta[pq]
      again == l.state \in {"OPN_SNT", "OPN_RCVD"} /\ l.retries < setting.retries
  IN  /\ timer[pq].handler = "entered"
      /\ \/ /\ "suspend" \in setting.commands /\ Ready(p)
            /\ Leaves(pq, l, timer[pq].armed, "idle")
         \/ CASE timer[pq].armed \/ l.state \in {"LISTEN", "ESTAB", "BLOCKED"} ->
                   Leaves(pq, l, timer[pq].armed, "idle")
              [] ~timer[pq].armed /\ again ->
                   Leaves(pq, [l EXCEPT !.retries = @ + 1], TRUE, "OPEN")
              [] ~timer[pq].armed /\ ~again /\ l.state \in {"OPN_SNT", "OPN_RCVD", "CNF_RCVD"} ->
                   Leaves(pq, [l EXCEPT !.state = "HOLDING"], TRUE, "CLOSE")
              [] ~timer[pq].armed /\ l.state = "HOLDING" ->
                   Leaves(pq, Restarted(l), FALSE, "idle")
      /\ UNCHANGED <<setting, mesh, estab, worker, air, crashes>>

TimerSends(p, q) ==
  LET pq == <<p, q>>
  IN  /\ timer[pq].handler \in {"OPEN", "CLOSE"}
      /\ air' = Sent(pq, <<FrameOf(timer[pq].handler, p, sta[pq])>>)
      /\ timer' = [timer EXCEPT ![pq].handler = "idle"]
      /\ UNCHANGED <<setting, mesh, sta, estab, worker, crashes>>

-----------------------------------------------------------------------------
(* Faults. *)

Lose(p, q) ==
  /\ air[<<p, q>>] # <<>>
  /\ air' = [air EXCEPT ![<<p, q>>] = Tail(@)]
  /\ UNCHANGED <<setting, mesh, sta, timer, estab, worker, crashes>>

(* A node is restarted, perhaps into another mesh. *)
Crash(p) ==
  /\ crashes < setting.crashes /\ crashes' = crashes + 1
  /\ mesh' \in {[mesh EXCEPT ![p] = m] : m \in setting.meshes}
  /\ sta'   = [pq \in Pairs |-> IF pq[1] = p THEN NoStation ELSE sta[pq]]
  /\ timer' = [pq \in Pairs |-> IF pq[1] = p THEN [armed |-> FALSE, handler |-> "idle"]
                                ELSE timer[pq]]
  /\ estab' = [estab EXCEPT ![p] = 0]
  /\ worker' = [worker EXCEPT ![p] = Idle]
  /\ air'   = [pq \in Pairs |-> IF pq[2] = p THEN <<>> ELSE air[pq]]
  /\ UNCHANGED setting

-----------------------------------------------------------------------------
Worker(p) == Store(p) \/ Step(p) \/ Send(p) \/ DelTimerSync(p)

Handler(p, q) == Fires(p, q) \/ TimerSends(p, q)

(* What a node has begun is finished first, unless its threads may overtake *)
(* one another.                                                            *)
Busy(p) ==
  p \notin setting.racy /\ (~Ready(p) \/ \E q \in Near[p] : timer[<<p, q>>].handler # "idle")

Continue(p) == Worker(p) \/ \E q \in Near[p] : Handler(p, q)

Begin ==
  \/ \E p \in setting.racy : Continue(p)
  \/ \E p \in Nodes : Crash(p)
  \/ \E pq \in Pairs :
       LET p == pq[1]
           q == pq[2]
       IN  \/ Deliver(p, q) \/ Lose(p, q) \/ Beacon(p, q) \/ Expires(p, q)
           \/ UserOpen(p, q) \/ UserBlock(p, q) \/ Destroy(p, q)

Next ==
  \/ \E p \in Nodes : Busy(p) /\ Continue(p)
  \/ (\A p \in Nodes : ~Busy(p)) /\ Begin

Spec == Init /\ [][Next]_vars
-----------------------------------------------------------------------------
(* Properties.                                                             *)

(* The types of the variables; a count of links is never negative. *)
TypeOK ==
  /\ setting \in Settings
  /\ mesh \in [Nodes -> Meshes]
  /\ sta \in [Pairs -> Station]
  /\ timer \in [Pairs -> Timer]
  /\ estab \in [Nodes -> Nat]
  /\ \A pq \in Pairs : \A i \in DOMAIN air[pq] : air[pq][i] \in Frame
  /\ crashes \in 0 .. setting.crashes

(* estab_plinks, which every change of state adjusts by itself, is the      *)
(* number of established stations, and links never exceed the configured    *)
(* number although two peers may be half way when one place is left.        *)
EstabCounted ==
  \A p \in Nodes :
    /\ estab[p] = Cardinality({q \in Near[p] : sta[<<p, q>>].state = "ESTAB"})
    /\ estab[p] <= setting.links[p]

(* A station that is half way has a timer that will move it on. *)
HalfwayTimed ==
  \A pq \in Pairs :
    sta[pq].state \in Halfway => timer[pq].armed \/ timer[pq].handler = "entered"

(* However the timer's handler and the worker overtake one another, a       *)
(* station that is half way has its timer, while no system is suspended,    *)
(* and one that is gone has none ("STA is valid because sta_info_destroy()  *)
(* will del_timer_sync() this timer").                                      *)
TimerKept ==
  /\ "suspend" \notin setting.commands => HalfwayTimed
  /\ \A pq \in Pairs :
       sta[pq].state = "NONE" => timer[pq] = [armed |-> FALSE, handler |-> "idle"]

(* An established station knows both ids, and two nodes that both have the  *)
(* link up mean the same one, after restarts, losses and late frames.       *)
LinksAgree ==
  \A pq \in Pairs :
    LET l == sta[pq]
        m == sta[<<pq[2], pq[1]>>]
    IN  l.state = "ESTAB" =>
          /\ l.llid # None /\ l.plid # None
          /\ m.state = "ESTAB" => l.llid = m.plid /\ l.plid = m.llid

(* While a link is up no frame changes the ids it was established with.     *)
IdsKept ==
  [][\A pq \in Pairs : sta[pq].state = "ESTAB" /\ sta'[pq].state = "ESTAB" =>
        sta'[pq].llid = sta[pq].llid /\ sta'[pq].plid = sta[pq].plid]_vars

(* The threads of a node go on, timers expire, and what is sent again and   *)
(* again is not lost every time: beacons, and CLOSE frames.                 *)
Fairness ==
  /\ \A p \in Nodes : WF_vars(Worker(p))
  /\ \A pq \in Pairs :
       LET p == pq[1]
           q == pq[2]
       IN  /\ WF_vars(Handler(p, q))
           /\ SF_vars(Expires(p, q))
           /\ WF_vars(Deliver(p, q) \/ Lose(q, p))
           /\ SF_vars(Deliver(p, q) /\ Head(air[<<q, p>>]).type = "CLOSE")
           /\ SF_vars(Beacon(p, q))

FairSpec == Spec /\ Fairness

(* A link that is half way gets established, or is given up. *)
Settles ==
  \A pq \in Pairs : sta[pq].state \in Halfway ~> sta[pq].state \notin Halfway

(* A node does not keep a link for ever that its peer does not have: the    *)
(* livelock that mesh_plink_get_event() speaks of.                          *)
HalfOpenEnds ==
  \A pq \in Pairs :
    LET up(x) == sta[x].state = "ESTAB"
        back == <<pq[2], pq[1]>>
    IN  up(pq) /\ ~up(back) ~> ~up(pq) \/ up(back)
=============================================================================
