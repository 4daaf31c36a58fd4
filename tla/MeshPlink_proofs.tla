--------------------------- MODULE MeshPlink_proofs ---------------------------
(***************************************************************************)
(* What TLAPS proves of MeshPlink, for any network, any number of ids and  *)
(* any settings: types, the count of links and its limit, the timers of    *)
(* stations, the ids of links, and that both ends of a link agree on them. *)
(***************************************************************************)
EXTENDS MeshPlink, FiniteSetTheorems, SequenceTheorems, TLAPS

-----------------------------------------------------------------------------
(* The inductive invariant. *)

Events == {"UNDEFINED", "OPN_ACPT", "OPN_RJCT", "OPN_IGNR", "CNF_ACPT", "CNF_RJCT",
           "CNF_IGNR", "CLS_ACPT", "CLS_IGNR"}

Kinds == {"OPEN", "CONFIRM", "CLOSE"}

(* What a worker is about to do. *)
Jobs ==
  {Idle}
    \cup [op : {"store", "fsm"}, peer : Nodes, event : Events, plid : LinkIds]
    \cup [op : {"send"}, peer : Nodes, send : Seq(Kinds)]
    \cup [op : {"destroy"}, peer : Nodes]

(* The types, with those of the worker and of the air. *)
Typed ==
  /\ setting \in Settings
  /\ mesh \in [Nodes -> Meshes]
  /\ sta \in [Pairs -> Station]
  /\ timer \in [Pairs -> Timer]
  /\ estab \in [Nodes -> Nat]
  /\ worker \in [Nodes -> Jobs]
  /\ \A p \in Nodes : worker[p].op # "idle" => worker[p].peer \in Near[p]
  /\ air \in [Pairs -> Seq(Frame)]
  /\ crashes \in 0 .. setting.crashes

(* The established stations of a node are those that are counted, and an   *)
(* event that may establish one was found while there was room: nobody but *)
(* the worker itself takes it.                                             *)
Up(p) == {q \in Near[p] : sta[<<p, q>>].state = "ESTAB"}

Handling(p, events) == worker[p].op \in {"store", "fsm"} /\ worker[p].event \in events

Counted ==
  \A p \in Nodes :
    /\ estab[p] = Cardinality(Up(p))
    /\ estab[p] <= setting.links[p]
    /\ Handling(p, {"OPN_ACPT", "CNF_ACPT"}) => estab[p] < setting.links[p]

(* A station that is being destroyed is not used by the worker any more,   *)
(* and the timer's handler leaves it.                                      *)
Closed ==
  \A p \in Nodes :
    worker[p].op = "destroy" => sta[<<p, worker[p].peer>>].state = "BLOCKED"

Base == Typed /\ Counted /\ Closed /\ TimerKept

(* A link that has begun has an id of this node's, and before it is        *)
(* established one of the peer's; a CONFIRM has both.                      *)
NamedAt(l) ==
  /\ l.state \in Halfway \cup {"ESTAB"} => l.llid # None
  /\ l.state \in {"CNF_RCVD", "ESTAB"} => l.plid # None

Whole == {f \in Frame : f.type = "CONFIRM" /\ f.plid # None => f.llid # None}

Named == (\A pq \in Pairs : NamedAt(sta[pq])) /\ air \in [Pairs -> Seq(Whole)]

(* What the worker has in hand goes with the station, in spite of the      *)
(* timer's handler: the id it is about to store is the one the station     *)
(* has, or an id; it has been stored before the step; and what is sent has *)
(* both.                                                                   *)
GoesWith(w, l) ==
  /\ w.op = "store" =>
       /\ w.event = "OPN_ACPT" /\ l.state \in {"CNF_RCVD", "ESTAB"} => w.plid = l.plid
       /\ w.event = "CNF_ACPT" /\ l.state \in {"OPN_SNT", "OPN_RCVD"} => w.plid # None
  /\ w.op = "fsm" /\ w.event = "CNF_ACPT" /\ l.state \in {"OPN_SNT", "OPN_RCVD"}
       => l.plid # None
  /\ w.op = "send" /\ l.plid # None => l.llid # None

InHand ==
  \A p \in Nodes :
    worker[p].op # "idle" => GoesWith(worker[p], sta[<<p, worker[p].peer>>])

IInv == Base /\ Named /\ InHand

(* Users look at the state of a link before they open it. *)
UsersLook == \A s \in Settings : "reopen" \notin s.commands

-----------------------------------------------------------------------------
(* Lemmas about the operators. *)

LEMMA PairsFact == \A p \in Nodes : \A q \in Near[p] :
    q \in Nodes /\ p \in Near[q] /\ p # q /\ <<p, q>> \in Pairs /\ <<q, p>> \in Pairs
BY MeshPlinkAssumption DEF Pairs

LEMMA NearFinite == ASSUME NEW p \in Nodes PROVE IsFiniteSet(Near[p])
BY MeshPlinkAssumption, FS_Subset

(* A new id is an id, while there is one. *)
LEMMA NewIdType == ASSUME NEW p \in Nodes, IdLeft(p) PROVE NewId(p) \in Ids
BY DEF NewId, IdLeft

(* What fits into the air is a sequence of frames, each of which was there *)
(* or is new.                                                              *)
LEMMA AddedType ==
  ASSUME NEW S, NEW frames \in [Pairs -> Seq(S)], NEW pq \in Pairs, NEW sent \in Seq(S),
         setting \in Settings
  PROVE  Added(frames, pq, sent) \in [Pairs -> Seq(S)]
<1>1. frames[pq] \o sent \in Seq(S)
  OBVIOUS
<1>2. setting.frames \in Nat
  BY MeshPlinkAssumption
<1>3. ASSUME NEW all \in Seq(S), Len(all) > setting.frames
      PROVE  SubSeq(all, Len(all) - setting.frames + 1, Len(all)) \in Seq(S)
  BY <1>2, <1>3
<1> QED
  BY <1>1, <1>2, <1>3 DEF Added

(* The ways of the state machine. *)
Ways(p, l, armed, event, s) ==
  \/ /\ l.state \in {"LISTEN", "HOLDING"}
     /\ s = Stay(Restarted(l), l.state = "LISTEN" /\ armed, <<>>)
  \/ /\ l.state = "LISTEN" /\ event = "OPN_ACPT"
     /\ s = Goto([l EXCEPT !.llid = NewId(p)], "OPN_RCVD", TRUE, <<"OPEN", "CONFIRM">>)
  \/ l.state \in {"OPN_SNT", "OPN_RCVD", "CNF_RCVD"} /\ s = Close(l)
  \/ l.state = "OPN_SNT" /\ event = "OPN_ACPT" /\ s = Goto(l, "OPN_RCVD", armed, <<"CONFIRM">>)
  \/ l.state = "OPN_SNT" /\ event = "CNF_ACPT" /\ s = Goto(l, "CNF_RCVD", TRUE, <<>>)
  \/ l.state = "OPN_RCVD" /\ event = "CNF_ACPT" /\ s = Establish(l, <<>>)
  \/ l.state = "CNF_RCVD" /\ event = "OPN_ACPT" /\ s = Establish(l, <<"CONFIRM">>)
  \/ l.state = "ESTAB" /\ s = LeaveEstab(l)
  \/ s = Stay(l, armed, <<>>)
  \/ l.state \in Halfway \cup {"ESTAB"} /\ s = Stay(l, armed, <<"CONFIRM">>)
  \/ l.state \in Halfway \cup {"ESTAB"} /\ s = Stay(l, armed, <<"CLOSE">>)

LEMMA FsmWays ==
  ASSUME NEW p, NEW l, NEW armed \in BOOLEAN, NEW event
  PROVE  Ways(p, l, armed, event, Fsm(p, l, armed, event))
<1>1. CASE l.state = "LISTEN"
  BY <1>1 DEF Fsm, Ways, Halfway
<1>2. CASE l.state = "OPN_SNT"
  BY <1>2 DEF Fsm, Ways, Halfway
<1>3. CASE l.state = "OPN_RCVD"
  BY <1>3 DEF Fsm, Ways, Halfway
<1>4. CASE l.state = "CNF_RCVD"
  BY <1>4 DEF Fsm, Ways, Halfway
<1>5. CASE l.state = "ESTAB"
  BY <1>5 DEF Fsm, Ways, Halfway
<1>6. CASE l.state = "HOLDING"
  BY <1>6 DEF Fsm, Ways, Halfway
<1>7. CASE l.state \notin {"LISTEN", "OPN_SNT", "OPN_RCVD", "CNF_RCVD", "ESTAB", "HOLDING"}
  BY <1>7 DEF Fsm, Ways
<1> QED
  BY <1>1, <1>2, <1>3, <1>4, <1>5, <1>6, <1>7

-----------------------------------------------------------------------------
(* Types. *)

LEMMA NextCases ==
  ASSUME setting \in Settings, Next
  PROVE   \E p \in Nodes :
            \/ Store(p) \/ Step(p) \/ Send(p) \/ DelTimerSync(p) \/ Crash(p)
            \/ \E q \in Near[p] :
                 \/ Fires(p, q) \/ TimerSends(p, q) \/ Deliver(p, q) \/ Lose(p, q)
                 \/ Beacon(p, q) \/ Expires(p, q) \/ UserOpen(p, q) \/ UserBlock(p, q)
                 \/ Destroy(p, q)
<1>1. setting.racy \subseteq Nodes
  BY MeshPlinkAssumption
<1> QED
  BY <1>1 DEF Next, Begin, Continue, Worker, Handler, Pairs

LEMMA InitTyped == Init => Typed
<1> SUFFICES ASSUME Init PROVE Typed
  OBVIOUS
<1>1. NoStation \in Station /\ [armed |-> FALSE, handler |-> "idle"] \in Timer /\ Idle \in Jobs
  BY DEF NoStation, Station, States, LinkIds, Timer, Idle, Jobs
<1>2. air \in [Pairs -> Seq(Frame)]
  BY DEF Init
<1>3. mesh \in [Nodes -> Meshes]
  BY MeshPlinkAssumption DEF Init
<1>4. \A p \in Nodes : worker[p].op = "idle"
  BY DEF Init, Idle
<1>5. crashes \in 0 .. setting.crashes
  BY MeshPlinkAssumption DEF Init
<1> QED
  BY <1>1, <1>2, <1>3, <1>4, <1>5 DEF Init, Typed

(* The results of a step. *)
LEMMA WaysType ==
  ASSUME NEW p \in Nodes, NEW l \in Station, NEW armed \in BOOLEAN, NEW event, NEW s,
         Ways(p, l, armed, event, s), l.state = "LISTEN" /\ event = "OPN_ACPT" => IdLeft(p)
  PROVE  /\ s.sta \in Station /\ s.armed \in BOOLEAN /\ s.send \in Seq(Kinds)
         /\ \/ s.up = 0 /\ s.down = 0 /\ (s.sta.state = "ESTAB" <=> l.state = "ESTAB")
            \/ s.up = 1 /\ s.down = 0 /\ l.state # "ESTAB" /\ s.sta.state = "ESTAB"
                 /\ event \in {"OPN_ACPT", "CNF_ACPT"}
            \/ s.up = 0 /\ s.down = 1 /\ l.state = "ESTAB" /\ s.sta.state # "ESTAB"
<1>1. <<>> \in Seq(Kinds) /\ <<"OPEN", "CONFIRM">> \in Seq(Kinds) /\ <<"CONFIRM">> \in Seq(Kinds)
        /\ <<"CLOSE">> \in Seq(Kinds)
  BY DEF Kinds
<1>2. l.state = "LISTEN" /\ event = "OPN_ACPT" => NewId(p) \in LinkIds
  BY NewIdType DEF LinkIds
<1>3. /\ Restarted(l) \in Station /\ Restarted(l).state = "LISTEN"
      /\ \A state \in States : [l EXCEPT !.state = state] \in Station
      /\ l.state = "LISTEN" /\ event = "OPN_ACPT" =>
           [[l EXCEPT !.llid = NewId(p)] EXCEPT !.state = "OPN_RCVD"] \in Station
  BY <1>2 DEF Restarted, Station, States, Halfway, LinkIds, None
<1>4. \A state : [l EXCEPT !.state = state].state = state
                  /\ [[l EXCEPT !.llid = NewId(p)] EXCEPT !.state = state].state = state
  BY DEF Station
<1>5. {"OPN_RCVD", "CNF_RCVD", "HOLDING", "ESTAB"} \subseteq States
  BY DEF States, Halfway
<1> USE <1>1, <1>3, <1>4, <1>5
<1>6. CASE /\ l.state \in {"LISTEN", "HOLDING"}
           /\ s = Stay(Restarted(l), l.state = "LISTEN" /\ armed, <<>>)
  BY <1>6 DEF Stay
<1>7. CASE /\ l.state = "LISTEN" /\ event = "OPN_ACPT"
           /\ s = Goto([l EXCEPT !.llid = NewId(p)], "OPN_RCVD", TRUE, <<"OPEN", "CONFIRM">>)
  BY <1>7 DEF Goto, Stay
<1>8. CASE l.state \in {"OPN_SNT", "OPN_RCVD", "CNF_RCVD"} /\ s = Close(l)
  BY <1>8 DEF Close, Goto, Stay
<1>9. CASE l.state = "OPN_SNT" /\ s = Goto(l, "OPN_RCVD", armed, <<"CONFIRM">>)
  BY <1>9 DEF Goto, Stay
<1>10. CASE l.state = "OPN_SNT" /\ s = Goto(l, "CNF_RCVD", TRUE, <<>>)
  BY <1>10 DEF Goto, Stay
<1>11. CASE l.state = "ESTAB" /\ s = LeaveEstab(l)
  BY <1>11 DEF LeaveEstab, Close, Goto, Stay
<1>12. CASE l.state = "OPN_RCVD" /\ event = "CNF_ACPT" /\ s = Establish(l, <<>>)
  BY <1>12 DEF Establish, Goto, Stay
<1>13. CASE l.state = "CNF_RCVD" /\ event = "OPN_ACPT" /\ s = Establish(l, <<"CONFIRM">>)
  BY <1>13 DEF Establish, Goto, Stay
<1>14. CASE s = Stay(l, armed, <<>>)
  BY <1>14 DEF Stay
<1>15. CASE s = Stay(l, armed, <<"CONFIRM">>)
  BY <1>15 DEF Stay
<1>16. CASE s = Stay(l, armed, <<"CLOSE">>)
  BY <1>16 DEF Stay
<1> QED
  BY <1>6, <1>7, <1>8, <1>9, <1>10, <1>11, <1>12, <1>13, <1>14, <1>15, <1>16 DEF Ways

(* A frame is one of those of a station. *)
LEMMA FrameOfType ==
  ASSUME Typed, NEW p \in Nodes, NEW l \in Station, NEW type \in Kinds
  PROVE  FrameOf(type, p, l) \in Frame
BY DEF Typed, Kinds, FrameOf, Frame, Station, LinkIds

LEMMA FramesType ==
  ASSUME Typed, NEW p \in Nodes, NEW l \in Station, NEW send \in Seq(Kinds)
  PROVE  /\ [i \in DOMAIN send |-> FrameOf(send[i], p, l)] \in Seq(Frame)
         /\ DOMAIN [i \in DOMAIN send |-> FrameOf(send[i], p, l)] = DOMAIN send
<1>1. \A i \in DOMAIN send : FrameOf(send[i], p, l) \in Frame
  BY FrameOfType
<1>2. DOMAIN send = 1 .. Len(send) /\ Len(send) \in Nat
  OBVIOUS
<1> QED
  BY <1>1, <1>2

(* What changes if the worker takes another job. *)
LEMMA JobsType ==
  /\ Idle \in Jobs /\ Idle.op = "idle"
  /\ \A op \in {"store", "fsm"}, q \in Nodes, event \in Events, id \in LinkIds :
       [op |-> op, peer |-> q, event |-> event, plid |-> id] \in Jobs
  /\ \A q \in Nodes, send \in Seq(Kinds) : [op |-> "send", peer |-> q, send |-> send] \in Jobs
  /\ \A q \in Nodes : [op |-> "destroy", peer |-> q] \in Jobs
BY DEF Jobs, Idle

LEMMA JobsFact ==
  ASSUME NEW w \in Jobs
  PROVE  /\ w.op \in {"idle", "store", "fsm", "send", "destroy"}
         /\ w.op = "idle" => w = Idle
         /\ w.op \in {"store", "fsm"} => /\ w.peer \in Nodes /\ w.event \in Events
                                        /\ w.plid \in LinkIds
         /\ w.op = "store" => [w EXCEPT !.op = "fsm"]
               = [op |-> "fsm", peer |-> w.peer, event |-> w.event, plid |-> w.plid]
         /\ w.op = "send" => w.peer \in Nodes /\ w.send \in Seq(Kinds)
         /\ w.op = "destroy" => w.peer \in Nodes
BY DEF Jobs, Idle

(* Every step keeps the types; for one that changes one station, one job   *)
(* or one way through the air, that part is enough.                        *)
LEMMA StationKept ==
  ASSUME Typed, NEW p \in Nodes, NEW q \in Near[p], NEW l \in Station,
         sta' = [sta EXCEPT ![<<p, q>>] = l]
  PROVE  /\ sta' \in [Pairs -> Station]
         /\ sta'[<<p, q>>] = l
         /\ \A pq \in Pairs : pq # <<p, q>> => sta'[pq] = sta[pq]
BY PairsFact DEF Typed

LEMMA WorkerKept ==
  ASSUME Typed, NEW p \in Nodes, NEW w \in Jobs, w.op # "idle" => w.peer \in Near[p],
         worker' = [worker EXCEPT ![p] = w]
  PROVE  /\ worker' \in [Nodes -> Jobs]
         /\ \A n \in Nodes : worker'[n].op # "idle" => worker'[n].peer \in Near[n]
BY DEF Typed

LEMMA SendTyped == ASSUME Typed, NEW p \in Nodes, Send(p) PROVE Typed'
<1> DEFINE w == worker[p]
           pq == <<p, w.peer>>
           fs == [i \in DOMAIN w.send |-> FrameOf(w.send[i], p, sta[pq])]
<1>1. w \in Jobs /\ w.op = "send" /\ w.peer \in Near[p] /\ pq \in Pairs
  BY PairsFact DEF Typed, Send
<1>2. w.send \in Seq(Kinds) /\ sta[pq] \in Station
  BY <1>1, JobsFact DEF Typed
<1>3. fs \in Seq(Frame)
  BY <1>2, FramesType
<1>4. air' = Added(air, pq, fs)
  BY DEF Send, Sent
<1>5. air' \in [Pairs -> Seq(Frame)]
  BY <1>1, <1>3, <1>4, AddedType DEF Typed
<1>6. worker' \in [Nodes -> Jobs]
      /\ \A x \in Nodes : worker'[x].op # "idle" => worker'[x].peer \in Near[x]
  BY JobsType, WorkerKept DEF Send
<1> QED
  BY <1>5, <1>6 DEF Typed, Send

-----------------------------------------------------------------------------
(* The count of links. *)

(* What the change of one station does to the established ones. *)
LEMMA UpKept ==
  ASSUME Typed, NEW p \in Nodes, NEW q \in Near[p], NEW l \in Station,
         sta' = [sta EXCEPT ![<<p, q>>] = l]
  PROVE  LET up   == sta[<<p, q>>].state = "ESTAB"
             upto == l.state = "ESTAB"
         IN  /\ \A n \in Nodes \ {p} : Up(n)' = Up(n)
             /\ (up <=> upto) => Up(p)' = Up(p)
             /\ ~up /\ upto => Cardinality(Up(p)') = Cardinality(Up(p)) + 1
             /\ up /\ ~upto => Cardinality(Up(p)') = Cardinality(Up(p)) - 1
             /\ Cardinality(Up(p)) \in Nat /\ (up => Cardinality(Up(p)) > 0)
<1>1. \A pq \in Pairs : sta'[pq] = IF pq = <<p, q>> THEN l ELSE sta[pq]
  BY PairsFact DEF Typed
<1>2. \A n \in Nodes : \A x \in Near[n] :
         sta'[<<n, x>>] = IF n = p /\ x = q THEN l ELSE sta[<<n, x>>]
  BY <1>1, PairsFact
<1>3. \A n \in Nodes \ {p} : Up(n)' = Up(n)
  BY <1>2 DEF Up
<1>4. Up(p)' = IF l.state = "ESTAB" THEN Up(p) \cup {q} ELSE Up(p) \ {q}
  BY <1>2 DEF Up
<1>5. IsFiniteSet(Up(p)) /\ Cardinality(Up(p)) \in Nat
  BY NearFinite, FS_Subset, FS_CardinalityType DEF Up
<1>6. q \in Up(p) <=> sta[<<p, q>>].state = "ESTAB"
  BY DEF Up
<1>7. q \notin Up(p) => Cardinality(Up(p) \cup {q}) = Cardinality(Up(p)) + 1
  BY <1>5, FS_AddElement
<1>8. q \in Up(p) => Cardinality(Up(p) \ {q}) = Cardinality(Up(p)) - 1
  BY <1>5, FS_RemoveElement
<1>9. q \in Up(p) => Cardinality(Up(p)) > 0
  BY <1>5, FS_EmptySet
<1>10. (sta[<<p, q>>].state = "ESTAB" <=> l.state = "ESTAB") => Up(p)' = Up(p)
  BY <1>4, <1>6
<1> QED
  BY <1>3, <1>4, <1>5, <1>6, <1>7, <1>8, <1>9, <1>10

Accepting == {"OPN_ACPT", "CNF_ACPT"}

(* A step that leaves the established stations and the count alone, and    *)
(* takes up no event that may establish one.                               *)
LEMMA CountKept ==
  ASSUME Typed, Counted, NEW p \in Nodes, NEW q \in Near[p], NEW l \in Station,
         sta' = [sta EXCEPT ![<<p, q>>] = l],
         l.state = "ESTAB" <=> sta[<<p, q>>].state = "ESTAB",
         UNCHANGED <<setting, estab>>,
         \A n \in Nodes : Handling(n, Accepting)' => Handling(n, Accepting)
  PROVE  Counted'
<1>1. \A n \in Nodes : Up(n)' = Up(n)
  BY UpKept
<1> QED
  BY <1>1 DEF Counted, Accepting

LEMMA CountSame ==
  ASSUME Counted, UNCHANGED <<setting, sta, estab>>,
         \A n \in Nodes : Handling(n, Accepting)' => Handling(n, Accepting)
  PROVE  Counted'
BY DEF Counted, Accepting, Up

(* ... and one that takes one away from both. *)
LEMMA CountDown ==
  ASSUME Typed, Counted, NEW p \in Nodes, NEW q \in Near[p], NEW l \in Station,
         sta' = [sta EXCEPT ![<<p, q>>] = l],
         l.state # "ESTAB", sta[<<p, q>>].state = "ESTAB",
         UNCHANGED setting, estab' = [estab EXCEPT ![p] = @ - 1],
         \A n \in Nodes : Handling(n, Accepting)' => Handling(n, Accepting)
  PROVE  Counted' /\ estab' \in [Nodes -> Nat]
<1>1. \A n \in Nodes \ {p} : Up(n)' = Up(n)
  BY UpKept
<1>2. /\ Cardinality(Up(p)') = Cardinality(Up(p)) - 1
      /\ Cardinality(Up(p)) \in Nat /\ Cardinality(Up(p)) > 0
  BY UpKept
<1>3. setting.links \in [Nodes -> Nat]
  BY MeshPlinkAssumption DEF Typed
<1>4. estab \in [Nodes -> Nat] /\ estab[p] = Cardinality(Up(p))
  BY DEF Typed, Counted
<1>5. /\ estab'[p] = estab[p] - 1
      /\ \A n \in Nodes \ {p} : estab'[n] = estab[n]
  BY <1>4
<1>6. estab' \in [Nodes -> Nat]
  BY <1>2, <1>4
<1> QED
  BY <1>1, <1>2, <1>3, <1>4, <1>5, <1>6 DEF Counted, Accepting

(* ... and one that adds one to both, with the event in hand. *)
LEMMA CountUp ==
  ASSUME Typed, Counted, NEW p \in Nodes, NEW q \in Near[p], NEW l \in Station,
         sta' = [sta EXCEPT ![<<p, q>>] = l],
         l.state = "ESTAB", sta[<<p, q>>].state # "ESTAB",
         UNCHANGED setting, estab' = [estab EXCEPT ![p] = @ + 1],
         Handling(p, Accepting), ~Handling(p, Accepting)',
         \A n \in Nodes : Handling(n, Accepting)' => Handling(n, Accepting)
  PROVE  Counted' /\ estab' \in [Nodes -> Nat]
<1>1. \A n \in Nodes \ {p} : Up(n)' = Up(n)
  BY UpKept
<1>2. /\ Cardinality(Up(p)') = Cardinality(Up(p)) + 1
      /\ Cardinality(Up(p)) \in Nat
  BY UpKept
<1>3. setting.links \in [Nodes -> Nat]
  BY MeshPlinkAssumption DEF Typed
<1>4. estab \in [Nodes -> Nat] /\ estab[p] = Cardinality(Up(p)) /\ estab[p] < setting.links[p]
  BY DEF Typed, Counted, Accepting
<1>5. /\ estab'[p] = estab[p] + 1
      /\ \A n \in Nodes \ {p} : estab'[n] = estab[n]
  BY <1>4
<1>6. estab' \in [Nodes -> Nat]
  BY <1>2, <1>4
<1> QED
  BY <1>1, <1>2, <1>3, <1>4, <1>5, <1>6 DEF Counted, Accepting

-----------------------------------------------------------------------------
(* Types and counts, action by action. *)

Sound == Typed /\ Counted

LEMMA NotHandling ==
  ASSUME Typed, NEW p \in Nodes, NEW w \in Jobs, w.op \notin {"store", "fsm"},
         worker' = [worker EXCEPT ![p] = w]
  PROVE  ~Handling(p, Accepting)'
         /\ \A n \in Nodes : Handling(n, Accepting)' => Handling(n, Accepting)
BY DEF Handling, Typed

LEMMA StoreSound == ASSUME Sound, NEW p \in Nodes, Store(p) PROVE Sound'
<1> DEFINE w == worker[p]
           l == sta[<<p, w.peer>>]
           m == IF l.state = "NONE" THEN [l EXCEPT !.state = "LISTEN"] ELSE l
           n == IF w.event = "OPN_ACPT" \/ m.plid = None THEN [m EXCEPT !.plid = w.plid] ELSE m
           v == [op |-> "fsm", peer |-> w.peer, event |-> w.event, plid |-> w.plid]
<1> USE DEF Sound
<1>1. w \in Jobs /\ w.op = "store" /\ w.peer \in Near[p] /\ w.peer \in Nodes
  BY PairsFact DEF Typed, Store
<1>2. /\ w.event \in Events /\ w.plid \in LinkIds
      /\ [w EXCEPT !.op = "fsm"] = v
  BY <1>1, JobsFact
<1>3. l \in Station
  BY <1>1, PairsFact DEF Typed
<1>4. n \in Station /\ (n.state = "ESTAB" <=> l.state = "ESTAB")
  BY <1>2, <1>3 DEF Station, States
<1>5. sta' = [sta EXCEPT ![<<p, w.peer>>] = n]
  BY DEF Store
<1>6. sta' \in [Pairs -> Station]
  BY <1>1, <1>4, <1>5, StationKept
<1>7. worker' = [worker EXCEPT ![p] = v]
  BY <1>2 DEF Store
<1>8. v \in Jobs /\ v.peer \in Near[p]
  BY <1>1, <1>2, JobsType
<1>9. /\ worker' \in [Nodes -> Jobs]
      /\ \A x \in Nodes : worker'[x].op # "idle" => worker'[x].peer \in Near[x]
  BY <1>7, <1>8, WorkerKept
<1>10. \A x \in Nodes : Handling(x, Accepting)' => Handling(x, Accepting)
  BY <1>1, <1>7 DEF Handling, Typed
<1>11. UNCHANGED <<setting, mesh, timer, estab, air, crashes>>
  BY DEF Store
<1>12. Counted'
  <2> HIDE DEF n
  <2> QED
    BY <1>1, <1>4, <1>5, <1>10, <1>11, CountKept
<1> QED
  BY <1>6, <1>9, <1>11, <1>12 DEF Typed

LEMMA StepSound == ASSUME Sound, NEW p \in Nodes, Step(p) PROVE Sound'
<1> DEFINE w == worker[p]
           pq == <<p, w.peer>>
           s == Fsm(p, sta[pq], timer[pq].armed, w.event)
           v == IF s.send = <<>> THEN Idle
                ELSE [op |-> "send", peer |-> w.peer, send |-> s.send]
<1> USE DEF Sound
<1>1. /\ w \in Jobs /\ w.op = "fsm" /\ w.peer \in Near[p] /\ w.peer \in Nodes /\ pq \in Pairs
      /\ w.event \in Events
  BY PairsFact, JobsFact DEF Typed, Step
<1>2. sta[pq] \in Station /\ timer[pq] \in Timer /\ timer[pq].armed \in BOOLEAN
  BY <1>1 DEF Typed, Timer
<1>3. Ways(p, sta[pq], timer[pq].armed, w.event, s)
  BY <1>2, FsmWays
<1>4. sta[pq].state = "LISTEN" /\ w.event = "OPN_ACPT" => IdLeft(p)
  BY DEF Step
<1> HIDE DEF s
<1>5. /\ s.sta \in Station /\ s.armed \in BOOLEAN /\ s.send \in Seq(Kinds)
      /\ \/ s.up = 0 /\ s.down = 0 /\ (s.sta.state = "ESTAB" <=> sta[pq].state = "ESTAB")
         \/ s.up = 1 /\ s.down = 0 /\ sta[pq].state # "ESTAB" /\ s.sta.state = "ESTAB"
              /\ w.event \in {"OPN_ACPT", "CNF_ACPT"}
         \/ s.up = 0 /\ s.down = 1 /\ sta[pq].state = "ESTAB" /\ s.sta.state # "ESTAB"
  BY <1>2, <1>3, <1>4, WaysType
<1>6. /\ sta' = [sta EXCEPT ![pq] = s.sta]
      /\ timer' = [timer EXCEPT ![pq].armed = s.armed]
      /\ estab' = [estab EXCEPT ![p] = @ + s.up - s.down]
      /\ worker' = [worker EXCEPT ![p] = v]
      /\ UNCHANGED <<setting, mesh, air, crashes>>
  BY DEF Step, s
<1>7. v \in Jobs /\ v.op \notin {"store", "fsm"} /\ (v.op # "idle" => v.peer \in Near[p])
  BY <1>1, <1>5, JobsType
<1>8. /\ worker' \in [Nodes -> Jobs]
      /\ \A x \in Nodes : worker'[x].op # "idle" => worker'[x].peer \in Near[x]
  BY <1>6, <1>7, WorkerKept
<1>9. ~Handling(p, Accepting)' /\ \A x \in Nodes : Handling(x, Accepting)' => Handling(x, Accepting)
  BY <1>6, <1>7, NotHandling
<1>10. sta' \in [Pairs -> Station]
  BY <1>1, <1>5, <1>6, StationKept
<1>11. timer' \in [Pairs -> Timer]
  BY <1>1, <1>2, <1>5, <1>6 DEF Typed, Timer
<1>12. Counted' /\ estab' \in [Nodes -> Nat]
  <2>1. estab \in [Nodes -> Nat]
    BY DEF Typed
  <2>2. CASE s.up = 0 /\ s.down = 0 /\ (s.sta.state = "ESTAB" <=> sta[pq].state = "ESTAB")
    <3>1. estab' = estab
      BY <1>6, <2>1, <2>2
    <3> QED
      BY <1>1, <1>5, <1>6, <1>9, <2>1, <2>2, <3>1, CountKept
  <2>3. CASE s.up = 1 /\ s.down = 0 /\ sta[pq].state # "ESTAB" /\ s.sta.state = "ESTAB"
             /\ w.event \in {"OPN_ACPT", "CNF_ACPT"}
    <3>1. estab' = [estab EXCEPT ![p] = @ + 1]
      BY <1>6, <2>1, <2>3
    <3>2. Handling(p, Accepting)
      BY <1>1, <2>3 DEF Handling, Accepting
    <3> QED
      BY <1>1, <1>5, <1>6, <1>9, <2>3, <3>1, <3>2, CountUp
  <2>4. CASE s.up = 0 /\ s.down = 1 /\ sta[pq].state = "ESTAB" /\ s.sta.state # "ESTAB"
    <3>1. estab[p] \in Nat /\ estab[p] + 0 - 1 = estab[p] - 1
      BY <2>1
    <3>2. estab' = [estab EXCEPT ![p] = @ - 1]
      BY <1>6, <2>4, <3>1, Zenon
    <3>3. /\ s.sta \in Station /\ sta' = [sta EXCEPT ![<<p, w.peer>>] = s.sta]
          /\ s.sta.state # "ESTAB" /\ sta[<<p, w.peer>>].state = "ESTAB"
          /\ UNCHANGED setting
      BY <1>5, <1>6, <2>4
    <3>4. /\ w.peer \in Near[p] /\ Typed /\ Counted
          /\ \A x \in Nodes : Handling(x, Accepting)' => Handling(x, Accepting)
      BY <1>1, <1>9
    <3> HIDE DEF w, v
    <3> QED
      BY <3>2, <3>3, <3>4, CountDown
  <2> QED
    BY <1>5, <2>2, <2>3, <2>4
<1> QED
  BY <1>6, <1>8, <1>10, <1>11, <1>12 DEF Typed

LEMMA SendSound == ASSUME Sound, NEW p \in Nodes, Send(p) PROVE Sound'
<1> USE DEF Sound
<1>1. Typed'
  BY SendTyped
<1>2. worker' = [worker EXCEPT ![p] = Idle] /\ UNCHANGED <<setting, sta, estab>>
  BY DEF Send
<1>3. \A x \in Nodes : Handling(x, Accepting)' => Handling(x, Accepting)
  BY <1>2, JobsType, NotHandling
<1> QED
  BY <1>1, <1>2, <1>3, CountSame

(* A node that destroys a station, or blocks one. *)
LEMMA DelTimerSyncSound ==
  ASSUME Sound, Closed, NEW p \in Nodes, DelTimerSync(p) PROVE Sound'
<1> DEFINE w == worker[p]
           pq == <<p, w.peer>>
<1> USE DEF Sound
<1>1. w.op = "destroy" /\ w.peer \in Near[p] /\ pq \in Pairs /\ sta[pq].state = "BLOCKED"
  BY PairsFact DEF Typed, Closed, DelTimerSync
<1>2. /\ sta' = [sta EXCEPT ![pq] = NoStation]
      /\ timer' = [timer EXCEPT ![pq].armed = FALSE]
      /\ worker' = [worker EXCEPT ![p] = Idle]
      /\ UNCHANGED <<setting, mesh, estab, air, crashes>>
  BY DEF DelTimerSync
<1>3. NoStation \in Station /\ NoStation.state = "NONE"
  BY DEF NoStation, Station, States, LinkIds
<1>4. sta' \in [Pairs -> Station]
  BY <1>1, <1>2, <1>3, StationKept
<1>5. /\ worker' \in [Nodes -> Jobs]
      /\ \A x \in Nodes : worker'[x].op # "idle" => worker'[x].peer \in Near[x]
  BY <1>2, JobsType, WorkerKept
<1>6. \A x \in Nodes : Handling(x, Accepting)' => Handling(x, Accepting)
  BY <1>2, JobsType, NotHandling
<1>7. Counted'
  BY <1>1, <1>2, <1>3, <1>6, CountKept
<1>8. timer' \in [Pairs -> Timer]
  BY <1>2 DEF Typed, Timer
<1> QED
  BY <1>2, <1>4, <1>5, <1>7, <1>8 DEF Typed

LEMMA BlockedType ==
  ASSUME NEW l \in Station
  PROVE  [l EXCEPT !.state = "BLOCKED"] \in Station
         /\ [l EXCEPT !.state = "BLOCKED"].state = "BLOCKED"
BY DEF Station, States

LEMMA DeactivatedSound ==
  ASSUME Sound, NEW p \in Nodes, NEW q \in Near[p], Deactivated(p, q),
         UNCHANGED setting,
         \A n \in Nodes : Handling(n, Accepting)' => Handling(n, Accepting)
  PROVE  Counted' /\ estab' \in [Nodes -> Nat] /\ sta' \in [Pairs -> Station]
<1> DEFINE l == [sta[<<p, q>>] EXCEPT !.state = "BLOCKED"]
<1> USE DEF Sound
<1>1. sta[<<p, q>>] \in Station /\ estab \in [Nodes -> Nat]
  BY PairsFact DEF Typed
<1>2. l \in Station /\ l.state = "BLOCKED"
  BY <1>1, BlockedType
<1>3. sta' = [sta EXCEPT ![<<p, q>>] = l]
  BY DEF Deactivated
<1>4. sta' \in [Pairs -> Station]
  BY <1>2, <1>3, StationKept
<1> HIDE DEF l
<1>5. CASE sta[<<p, q>>].state = "ESTAB"
  <2>1. estab' = [estab EXCEPT ![p] = @ - 1]
    BY <1>5 DEF Deactivated
  <2> QED
    BY <1>2, <1>3, <1>4, <1>5, <2>1, CountDown
<1>6. CASE sta[<<p, q>>].state # "ESTAB"
  <2>1. estab' = estab
    BY <1>1, <1>6 DEF Deactivated
  <2> QED
    BY <1>1, <1>2, <1>3, <1>4, <1>6, <2>1, CountKept
<1> QED
  BY <1>5, <1>6

LEMMA UserBlockSound ==
  ASSUME Sound, NEW p \in Nodes, NEW q \in Near[p], UserBlock(p, q) PROVE Sound'
<1>1. UNCHANGED <<setting, mesh, timer, worker, air, crashes>> /\ Deactivated(p, q)
  BY DEF UserBlock
<1>2. \A x \in Nodes : Handling(x, Accepting)' => Handling(x, Accepting)
  BY <1>1 DEF Handling
<1> QED
  BY <1>1, <1>2, DeactivatedSound DEF Sound, Typed

LEMMA DestroySound ==
  ASSUME Sound, NEW p \in Nodes, NEW q \in Near[p], Destroy(p, q) PROVE Sound'
<1> DEFINE v == [op |-> "destroy", peer |-> q]
           f == FrameOf("CLOSE", p, sta[<<p, q>>])
<1> USE DEF Sound
<1>1. /\ Deactivated(p, q)
      /\ air' = Added(air, <<p, q>>, <<f>>)
      /\ worker' = [worker EXCEPT ![p] = v]
      /\ UNCHANGED <<setting, mesh, timer, crashes>>
  BY DEF Destroy, Sent
<1>2. v \in Jobs /\ v.op \notin {"store", "fsm"} /\ v.peer \in Near[p]
  BY PairsFact, JobsType
<1>3. \A x \in Nodes : Handling(x, Accepting)' => Handling(x, Accepting)
  BY <1>1, <1>2, NotHandling
<1>4. Counted' /\ estab' \in [Nodes -> Nat] /\ sta' \in [Pairs -> Station]
  BY <1>1, <1>3, DeactivatedSound
<1>5. f \in Frame
  BY PairsFact, FrameOfType DEF Typed, Kinds
<1>6. <<f>> \in Seq(Frame)
  BY <1>5
<1> HIDE DEF f
<1>7. air' \in [Pairs -> Seq(Frame)]
  BY <1>1, <1>6, PairsFact, AddedType DEF Typed
<1>8. /\ worker' \in [Nodes -> Jobs]
      /\ \A x \in Nodes : worker'[x].op # "idle" => worker'[x].peer \in Near[x]
  BY <1>1, <1>2, WorkerKept
<1> QED
  BY <1>1, <1>4, <1>7, <1>8 DEF Typed

(* Beacons and commands that open a link. *)
LEMMA OpenSound ==
  ASSUME Sound, NEW p \in Nodes, NEW q \in Near[p], NEW l \in Station, Open(p, q, l),
         l.state = "ESTAB" <=> sta[<<p, q>>].state = "ESTAB"
  PROVE  Sound'
<1> DEFINE opened == [l EXCEPT !.state = "OPN_SNT", !.llid = NewId(p)]
           renamed == [l EXCEPT !.llid = NewId(p)]
           v == [op |-> "send", peer |-> q, send |-> <<"OPEN">>]
<1> USE DEF Sound
<1>1. NewId(p) \in LinkIds
  BY NewIdType DEF Open, LinkIds
<1>2. /\ opened \in Station /\ renamed \in Station
      /\ opened.state = "OPN_SNT" /\ renamed.state = l.state
  BY <1>1 DEF Station, States, Halfway
<1>3. <<"OPEN">> \in Seq(Kinds)
  BY DEF Kinds
<1>4. v \in Jobs /\ v.op = "send" /\ v.peer \in Near[p]
  BY <1>3, PairsFact, JobsType
<1>5. UNCHANGED <<setting, mesh, estab, air, crashes>>
  BY DEF Open
<1>6. CASE l.state \in {"LISTEN", "BLOCKED"}
  <2>1. /\ sta' = [sta EXCEPT ![<<p, q>>] = opened]
        /\ timer' = [timer EXCEPT ![<<p, q>>].armed = TRUE]
        /\ worker' = [worker EXCEPT ![p] = v]
    BY <1>6 DEF Open
  <2>2. \A x \in Nodes : Handling(x, Accepting)' => Handling(x, Accepting)
    BY <1>4, <2>1, NotHandling
  <2>3. /\ worker' \in [Nodes -> Jobs]
        /\ \A x \in Nodes : worker'[x].op # "idle" => worker'[x].peer \in Near[x]
    BY <1>4, <2>1, WorkerKept
  <2>4. sta' \in [Pairs -> Station]
    BY <1>2, <2>1, StationKept
  <2>5. timer' \in [Pairs -> Timer]
    BY <2>1 DEF Typed, Timer
  <2> HIDE DEF opened
  <2>6. Counted'
    BY <1>2, <1>5, <1>6, <2>1, <2>2, CountKept
  <2> QED
    BY <1>5, <2>3, <2>4, <2>5, <2>6 DEF Typed
<1>7. CASE l.state \notin {"LISTEN", "BLOCKED"}
  <2>1. sta' = [sta EXCEPT ![<<p, q>>] = renamed] /\ UNCHANGED <<timer, worker>>
    BY <1>7 DEF Open
  <2>2. \A x \in Nodes : Handling(x, Accepting)' => Handling(x, Accepting)
    BY <2>1 DEF Handling
  <2>3. sta' \in [Pairs -> Station]
    BY <1>2, <2>1, StationKept
  <2> HIDE DEF renamed
  <2>4. Counted'
    BY <1>2, <1>5, <2>1, <2>2, CountKept
  <2> QED
    BY <1>5, <2>1, <2>3, <2>4 DEF Typed
<1> QED
  BY <1>6, <1>7

(* The station a beacon finds or makes. *)
Found(l) == IF l.state = "NONE" THEN [l EXCEPT !.state = "LISTEN"] ELSE l

LEMMA FoundType ==
  ASSUME NEW l \in Station
  PROVE  /\ Found(l) \in Station /\ Found(l).state # "NONE"
         /\ \A state \in States \ {"NONE", "LISTEN"} :
              Found(l).state = state <=> l.state = state
         /\ Found(l).state \notin {"NONE", "LISTEN"} => Found(l) = l
         /\ Found(l).llid = l.llid /\ Found(l).plid = l.plid
BY DEF Found, Station, States

LEMMA BeaconSound ==
  ASSUME Sound, NEW p \in Nodes, NEW q \in Near[p], Beacon(p, q) PROVE Sound'
<1> DEFINE m == Found(sta[<<p, q>>])
<1> USE DEF Sound
<1>1. m \in Station /\ (m.state = "ESTAB" <=> sta[<<p, q>>].state = "ESTAB")
  BY PairsFact, FoundType DEF Typed, States
<1>2. CASE Open(p, q, m)
  BY <1>1, <1>2, OpenSound
<1>3. CASE /\ sta' = [sta EXCEPT ![<<p, q>>] = m]
           /\ UNCHANGED <<setting, mesh, timer, estab, worker, air, crashes>>
  <2>1. sta' \in [Pairs -> Station]
    BY <1>1, <1>3, StationKept
  <2>2. \A x \in Nodes : Handling(x, Accepting)' => Handling(x, Accepting)
    BY <1>3 DEF Handling
  <2>3. Counted'
    BY <1>1, <1>3, <2>2, CountKept
  <2> QED
    BY <1>3, <2>1, <2>3 DEF Typed
<1> QED
  BY <1>2, <1>3 DEF Beacon, Found

LEMMA UserOpenSound ==
  ASSUME Sound, NEW p \in Nodes, NEW q \in Near[p], UserOpen(p, q) PROVE Sound'
BY PairsFact, OpenSound DEF UserOpen, Sound, Typed

(* What a frame makes a node do. *)
LEMMA EventFact ==
  ASSUME Sound, NEW p \in Nodes, NEW l \in Station, NEW f \in Frame
  PROVE  /\ Event(p, l, f) \in Events
         /\ Event(p, l, f) \in Accepting => estab[p] < setting.links[p]
         /\ Event(p, l, f) = "OPN_ACPT" /\ l.state # "NONE" /\ l.plid # None => l.plid = f.llid
         /\ Event(p, l, f) = "CNF_ACPT" => f.type = "CONFIRM" /\ l.llid = f.plid
<1>1. setting.links[p] \in Nat /\ estab[p] \in Nat /\ estab[p] <= setting.links[p]
  BY MeshPlinkAssumption DEF Sound, Typed, Counted
<1>2. FreeCount(p) # 0 => estab[p] < setting.links[p]
  BY <1>1 DEF FreeCount
<1>3. Event(p, l, f) \in Events
  BY DEF Event, Events
<1>4. Event(p, l, f) \in Accepting => FreeCount(p) # 0
  BY DEF Event, Accepting
<1>5. Event(p, l, f) = "OPN_ACPT" /\ l.state # "NONE" => ~Other(l, f)
  BY DEF Event
<1>6. Event(p, l, f) = "CNF_ACPT" => f.type = "CONFIRM" /\ ~AnswersOther(l, f)
  BY DEF Event
<1> QED
  BY <1>2, <1>3, <1>4, <1>5, <1>6 DEF Other, AnswersOther

LEMMA TakenType ==
  ASSUME Typed, NEW pq \in Pairs, air[pq] # <<>>
  PROVE  /\ Head(air[pq]) \in Frame
         /\ Head(air[pq]) = air[pq][1] /\ 1 \in DOMAIN air[pq]
         /\ [air EXCEPT ![pq] = Tail(@)] \in [Pairs -> Seq(Frame)]
<1>1. air[pq] \in Seq(Frame) /\ Len(air[pq]) > 0
  BY DEF Typed
<1>2. Tail(air[pq]) \in Seq(Frame) /\ Head(air[pq]) \in Frame
  BY <1>1
<1> QED
  BY <1>1, <1>2 DEF Typed

LEMMA DeliverSound ==
  ASSUME Sound, NEW p \in Nodes, NEW q \in Near[p], Deliver(p, q) PROVE Sound'
<1> DEFINE f == Head(air[<<q, p>>])
           l == sta[<<p, q>>]
           e == Event(p, l, f)
           taken == [air EXCEPT ![<<q, p>>] = Tail(@)]
           answer == [type |-> "CLOSE", llid |-> None, plid |-> f.llid, mesh |-> mesh[p]]
           job == [op |-> IF e \in {"OPN_ACPT", "CNF_ACPT"} THEN "store" ELSE "fsm",
                   peer |-> q, event |-> e, plid |-> f.llid]
<1> USE DEF Sound
<1>1. <<p, q>> \in Pairs /\ <<q, p>> \in Pairs /\ q \in Nodes
  BY PairsFact
<1>2. l \in Station /\ f \in Frame /\ taken \in [Pairs -> Seq(Frame)]
  BY <1>1, TakenType DEF Typed, Deliver
<1>3. e \in Events /\ (e \in Accepting => estab[p] < setting.links[p])
  BY <1>2, EventFact
<1>4. answer \in Frame
  BY <1>2 DEF Frame, LinkIds, Typed
<1>5. Added(taken, <<p, q>>, <<answer>>) \in [Pairs -> Seq(Frame)]
  <2>1. <<answer>> \in Seq(Frame)
    BY <1>4
  <2> HIDE DEF taken, answer
  <2> QED
    BY <1>1, <1>2, <2>1, AddedType DEF Typed
<1>6. job \in Jobs /\ job.op \in {"store", "fsm"} /\ job.event = e /\ job.peer = q
  <2>1. f.llid \in LinkIds
    BY <1>2 DEF Frame
  <2> HIDE DEF f, e
  <2> QED
    BY <1>1, <1>3, <2>1, JobsType
<1> HIDE DEF f, l, e, taken, answer, job
<1>7. UNCHANGED <<setting, mesh, sta, timer, estab, crashes>>
  BY DEF Deliver, Handle
<1>8. air' = Added(taken, <<p, q>>, <<answer>>) \/ air' = taken
  BY DEF Deliver, Handle, f, l, e, taken, answer
<1>9. UNCHANGED worker \/ worker' = [worker EXCEPT ![p] = job]
  BY DEF Deliver, Handle, f, l, e, job
<1>10. air' \in [Pairs -> Seq(Frame)]
  BY <1>2, <1>5, <1>8
<1>11. CASE UNCHANGED worker
  <2>1. Counted'
    BY <1>7, <1>11, CountSame DEF Handling
  <2> QED
    BY <1>7, <1>10, <1>11, <2>1 DEF Typed
<1>12. CASE worker' = [worker EXCEPT ![p] = job]
  <2>1. /\ worker' \in [Nodes -> Jobs]
        /\ \A x \in Nodes : worker'[x].op # "idle" => worker'[x].peer \in Near[x]
    BY <1>6, <1>12, WorkerKept
  <2>2. \A n \in Nodes : Handling(n, Accepting)' =>
          Handling(n, Accepting) \/ (n = p /\ estab[p] < setting.links[p])
    BY <1>3, <1>6, <1>12 DEF Handling, Typed
  <2>3. Counted'
    BY <1>7, <2>2 DEF Counted, Accepting, Up
  <2> QED
    BY <1>7, <1>10, <2>1, <2>3 DEF Typed
<1> QED
  BY <1>9, <1>11, <1>12

LEMMA LoseSound ==
  ASSUME Sound, NEW p \in Nodes, NEW q \in Near[p], Lose(p, q) PROVE Sound'
<1>1. air' \in [Pairs -> Seq(Frame)] /\ UNCHANGED <<setting, mesh, sta, timer, estab, worker, crashes>>
  BY PairsFact, TakenType DEF Lose, Sound
<1>2. Counted'
  BY <1>1, CountSame DEF Handling, Sound
<1> QED
  BY <1>1, <1>2 DEF Sound, Typed

(* The timer. *)
LEMMA ExpiresSound ==
  ASSUME Sound, NEW p \in Nodes, NEW q \in Near[p], Expires(p, q) PROVE Sound'
<1>1. UNCHANGED <<setting, mesh, sta, estab, worker, air, crashes>>
  BY DEF Expires
<1>2. timer' \in [Pairs -> Timer]
  BY DEF Expires, Sound, Typed, Timer
<1>3. Counted'
  BY <1>1, CountSame DEF Handling, Sound
<1> QED
  BY <1>1, <1>2, <1>3 DEF Sound, Typed

LEMMA TimerSendsSound ==
  ASSUME Sound, NEW p \in Nodes, NEW q \in Near[p], TimerSends(p, q) PROVE Sound'
<1> DEFINE f == FrameOf(timer[<<p, q>>].handler, p, sta[<<p, q>>])
<1> USE DEF Sound
<1>1. /\ UNCHANGED <<setting, mesh, sta, estab, worker, crashes>>
      /\ air' = Added(air, <<p, q>>, <<f>>)
      /\ timer' = [timer EXCEPT ![<<p, q>>].handler = "idle"]
      /\ timer[<<p, q>>].handler \in Kinds
  BY DEF TimerSends, Sent, Kinds
<1>2. timer' \in [Pairs -> Timer]
  BY <1>1 DEF Typed, Timer
<1>3. <<f>> \in Seq(Frame)
  <2>1. f \in Frame
    BY <1>1, PairsFact, FrameOfType DEF Typed
  <2> HIDE DEF f
  <2> QED
    BY <2>1
<1> HIDE DEF f
<1>4. air' \in [Pairs -> Seq(Frame)]
  BY <1>1, <1>3, PairsFact, AddedType DEF Typed
<1>5. Counted'
  BY <1>1, CountSame DEF Handling
<1> QED
  BY <1>1, <1>2, <1>4, <1>5 DEF Typed

(* What the handler does to the station. *)
FiredWays(l, m, armed, handler) ==
  \/ /\ m = l /\ handler = "idle"
     /\ "suspend" \in setting.commands \/ armed \/ l.state \notin Halfway
  \/ /\ l.state \in {"OPN_SNT", "OPN_RCVD"} /\ m = [l EXCEPT !.retries = @ + 1]
     /\ armed = TRUE /\ handler = "OPEN"
  \/ /\ l.state \in {"OPN_SNT", "OPN_RCVD", "CNF_RCVD"} /\ m = [l EXCEPT !.state = "HOLDING"]
     /\ armed = TRUE /\ handler = "CLOSE"
  \/ l.state = "HOLDING" /\ m = Restarted(l) /\ armed = FALSE /\ handler = "idle"

LEMMA FiresWays ==
  ASSUME Typed, TimerKept, NEW p \in Nodes, NEW q \in Near[p], Fires(p, q)
  PROVE  /\ sta[<<p, q>>] \in Station /\ sta[<<p, q>>].state # "NONE"
         /\ \E m \in Station, armed \in BOOLEAN, handler \in {"idle", "OPEN", "CLOSE"} :
              Leaves(<<p, q>>, m, armed, handler) /\ FiredWays(sta[<<p, q>>], m, armed, handler)
<1> DEFINE l == sta[<<p, q>>]
           t == timer[<<p, q>>]
<1>1. l \in Station /\ l.state # "NONE" /\ t.armed \in BOOLEAN /\ t.handler = "entered"
  <2>1. l \in Station /\ t \in Timer /\ <<p, q>> \in Pairs
    BY PairsFact DEF Typed
  <2>2. t.handler = "entered"
    BY DEF Fires
  <2>3. l.state # "NONE"
    BY <2>1, <2>2 DEF TimerKept
  <2> QED
    BY <2>1, <2>2, <2>3 DEF Timer
<1> HIDE DEF l, t
<1>2. /\ Restarted(l) \in Station
      /\ [l EXCEPT !.retries = @ + 1] \in Station
      /\ [l EXCEPT !.state = "HOLDING"] \in Station
  <2>1. l.retries \in Nat /\ l.retries + 1 \in Nat
    BY <1>1 DEF Station
  <2>2. Restarted(l) \in Station
    BY <1>1 DEF Restarted, Station, States, LinkIds
  <2>3. [l EXCEPT !.retries = @ + 1] \in Station
    BY <1>1, <2>1 DEF Station
  <2>4. [l EXCEPT !.state = "HOLDING"] \in Station
    BY <1>1 DEF Station, States, Halfway
  <2> QED
    BY <2>2, <2>3, <2>4
<1>3. CASE /\ t.armed \/ l.state \in {"LISTEN", "ESTAB", "BLOCKED"}
           /\ Leaves(<<p, q>>, l, t.armed, "idle")
  <2>1. FiredWays(l, l, t.armed, "idle")
    BY <1>3 DEF FiredWays, Halfway
  <2> QED
    BY <1>1, <1>3, <2>1 DEF l
<1>4. CASE /\ l.state \in {"OPN_SNT", "OPN_RCVD"}
           /\ Leaves(<<p, q>>, [l EXCEPT !.retries = @ + 1], TRUE, "OPEN")
  <2>1. FiredWays(l, [l EXCEPT !.retries = @ + 1], TRUE, "OPEN")
    BY <1>4 DEF FiredWays
  <2> QED
    BY <1>1, <1>2, <1>4, <2>1 DEF l
<1>5. CASE /\ l.state \in {"OPN_SNT", "OPN_RCVD", "CNF_RCVD"}
           /\ Leaves(<<p, q>>, [l EXCEPT !.state = "HOLDING"], TRUE, "CLOSE")
  <2>1. FiredWays(l, [l EXCEPT !.state = "HOLDING"], TRUE, "CLOSE")
    BY <1>5 DEF FiredWays
  <2> QED
    BY <1>1, <1>2, <1>5, <2>1 DEF l
<1>6. CASE l.state = "HOLDING" /\ Leaves(<<p, q>>, Restarted(l), FALSE, "idle")
  <2>1. FiredWays(l, Restarted(l), FALSE, "idle")
    BY <1>6 DEF FiredWays
  <2> QED
    BY <1>1, <1>2, <1>6, <2>1 DEF l
<1>7. l.state \in {"LISTEN", "ESTAB", "BLOCKED", "OPN_SNT", "OPN_RCVD", "CNF_RCVD", "HOLDING"}
  BY <1>1 DEF Station, States, Halfway
<1>8. CASE "suspend" \in setting.commands /\ Leaves(<<p, q>>, l, t.armed, "idle")
  <2>1. FiredWays(l, l, t.armed, "idle")
    BY <1>8 DEF FiredWays
  <2> QED
    BY <1>1, <1>8, <2>1 DEF l
<1> QED
  BY <1>3, <1>4, <1>5, <1>6, <1>7, <1>8 DEF Fires, l, t

LEMMA FiresSound ==
  ASSUME Sound, TimerKept, NEW p \in Nodes, NEW q \in Near[p], Fires(p, q) PROVE Sound'
<1> USE DEF Sound
<1>1. PICK m \in Station, armed \in BOOLEAN, handler \in {"idle", "OPEN", "CLOSE"} :
        Leaves(<<p, q>>, m, armed, handler) /\ FiredWays(sta[<<p, q>>], m, armed, handler)
  BY FiresWays
<1>2. m.state = "ESTAB" <=> sta[<<p, q>>].state = "ESTAB"
  BY <1>1, FiresWays DEF FiredWays, Restarted, Station
<1>3. UNCHANGED <<setting, mesh, estab, worker, air, crashes>>
  BY DEF Fires
<1>4. sta' \in [Pairs -> Station]
  BY <1>1, StationKept DEF Leaves
<1>5. timer' \in [Pairs -> Timer]
  <2>1. [armed |-> armed, handler |-> handler] \in Timer
    BY DEF Timer
  <2> QED
    BY <1>1, <2>1 DEF Leaves, Typed
<1>6. Counted'
  BY <1>1, <1>2, <1>3, CountKept DEF Leaves, Handling
<1> QED
  BY <1>3, <1>4, <1>5, <1>6 DEF Typed

(* A restart. *)
LEMMA CrashSound == ASSUME Sound, NEW p \in Nodes, Crash(p) PROVE Sound'
<1> USE DEF Sound
<1>1. /\ NoStation \in Station /\ NoStation.state = "NONE"
      /\ [armed |-> FALSE, handler |-> "idle"] \in Timer
      /\ <<>> \in Seq(Frame)
  BY DEF NoStation, Station, States, LinkIds, Timer
<1>2. /\ sta'   = [pq \in Pairs |-> IF pq[1] = p THEN NoStation ELSE sta[pq]]
      /\ timer' = [pq \in Pairs |-> IF pq[1] = p THEN [armed |-> FALSE, handler |-> "idle"]
                                    ELSE timer[pq]]
      /\ estab' = [estab EXCEPT ![p] = 0]
      /\ worker' = [worker EXCEPT ![p] = Idle]
      /\ air'   = [pq \in Pairs |-> IF pq[2] = p THEN <<>> ELSE air[pq]]
      /\ UNCHANGED setting
  BY DEF Crash
<1>3. sta' \in [Pairs -> Station] /\ timer' \in [Pairs -> Timer] /\ air' \in [Pairs -> Seq(Frame)]
  BY <1>1, <1>2 DEF Typed
<1>4. mesh' \in [Nodes -> Meshes] /\ crashes' \in 0 .. setting.crashes
  <2>1. setting.meshes \subseteq Meshes /\ setting.crashes \in Nat
    BY MeshPlinkAssumption DEF Typed
  <2>2. PICK m \in setting.meshes : mesh' = [mesh EXCEPT ![p] = m]
    BY DEF Crash
  <2>3. mesh' \in [Nodes -> Meshes]
    BY <2>1, <2>2 DEF Typed
  <2>4. crashes' \in 0 .. setting.crashes
    BY <2>1 DEF Typed, Crash
  <2> QED
    BY <2>3, <2>4
<1>5. /\ worker' \in [Nodes -> Jobs]
      /\ \A x \in Nodes : worker'[x].op # "idle" => worker'[x].peer \in Near[x]
  BY <1>2, JobsType, WorkerKept
<1>6. ~Handling(p, Accepting)' /\ \A x \in Nodes : Handling(x, Accepting)' => Handling(x, Accepting)
  BY <1>2, JobsType, NotHandling
<1>7. \A n \in Nodes \ {p} : Up(n)' = Up(n) /\ estab'[n] = estab[n]
  BY <1>2, PairsFact DEF Up, Typed
<1>8. Up(p)' = {} /\ estab'[p] = 0 /\ estab' \in [Nodes -> Nat]
  BY <1>1, <1>2, PairsFact DEF Up, Typed
<1>9. Cardinality(Up(p)') = 0
  BY <1>8, FS_EmptySet
<1>10. setting.links[p] \in Nat
  BY MeshPlinkAssumption DEF Typed
<1>11. Counted'
  <2> SUFFICES ASSUME NEW n \in Nodes
               PROVE  /\ estab'[n] = Cardinality(Up(n)')
                      /\ estab'[n] <= setting.links[n]
                      /\ Handling(n, Accepting)' => estab'[n] < setting.links[n]
    BY <1>2 DEF Counted, Accepting
  <2>1. CASE n = p
    BY <1>6, <1>8, <1>9, <1>10, <2>1
  <2>2. CASE n # p
    BY <1>6, <1>7, <2>2 DEF Counted, Accepting
  <2> QED
    BY <2>1, <2>2
<1> QED
  BY <1>2, <1>3, <1>4, <1>5, <1>11 DEF Typed

-----------------------------------------------------------------------------
(* Timers and the ends of stations, action by action. *)

LEMMA ClosedKept ==
  ASSUME Typed, Closed, NEW p \in Nodes, NEW q \in Near[p], NEW l \in Station,
         sta' = [sta EXCEPT ![<<p, q>>] = l] \/ sta' = sta,
         NEW w \in Jobs, worker' = [worker EXCEPT ![p] = w],
         w.op # "destroy" \/ (w.op = "destroy" /\ w.peer = q /\ l.state = "BLOCKED"
                                /\ sta' = [sta EXCEPT ![<<p, q>>] = l])
  PROVE  Closed'
<1> SUFFICES ASSUME NEW n \in Nodes, worker'[n].op = "destroy"
             PROVE  sta'[<<n, worker'[n].peer>>].state = "BLOCKED"
  BY DEF Closed
<1>1. CASE n = p
  <2>1. worker'[p] = w
    BY DEF Typed
  <2>2. w.op = "destroy"
    BY <1>1, <2>1
  <2>3. w.peer = q /\ l.state = "BLOCKED" /\ sta' = [sta EXCEPT ![<<p, q>>] = l]
    BY <2>2
  <2>4. sta'[<<p, q>>] = l
    BY <2>3, PairsFact DEF Typed
  <2> QED
    BY <1>1, <2>1, <2>3, <2>4
<1>2. CASE n # p
  <2>1. worker'[n] = worker[n] /\ worker[n].peer \in Near[n]
    BY <1>2 DEF Typed
  <2>2. <<n, worker[n].peer>> \in Pairs /\ <<n, worker[n].peer>> # <<p, q>>
    BY <1>2, <2>1, PairsFact
  <2>3. sta'[<<n, worker[n].peer>>] = sta[<<n, worker[n].peer>>]
    BY <2>2, StationKept
  <2> QED
    BY <2>1, <2>3 DEF Closed
<1> QED
  BY <1>1, <1>2

(* What TimerKept says of one station. *)
Fits(l, t) ==
  /\ "suspend" \notin setting.commands =>
       (l.state \in Halfway => t.armed \/ t.handler = "entered")
  /\ l.state = "NONE" => t = [armed |-> FALSE, handler |-> "idle"]

LEMMA TimerAt ==
  ASSUME Typed, TimerKept, NEW pq \in Pairs, NEW l, NEW t,
         sta' = [sta EXCEPT ![pq] = l], timer' = [timer EXCEPT ![pq] = t],
         UNCHANGED setting, Fits(sta[pq], timer[pq]) => Fits(l, t)
  PROVE  TimerKept'
<1>1. \A x \in Pairs : sta'[x] = IF x = pq THEN l ELSE sta[x]
  BY DEF Typed
<1>2. \A x \in Pairs : timer'[x] = IF x = pq THEN t ELSE timer[x]
  BY DEF Typed
<1>3. \A x \in Pairs : Fits(sta[x], timer[x])
  BY DEF TimerKept, HalfwayTimed, Fits
<1>4. \A x \in Pairs : Fits(sta'[x], timer'[x])
  BY <1>1, <1>2, <1>3
<1> QED
  BY <1>4 DEF TimerKept, HalfwayTimed, Fits

LEMMA StationAt ==
  ASSUME Typed, TimerKept, NEW pq \in Pairs, NEW l,
         sta' = [sta EXCEPT ![pq] = l], UNCHANGED <<setting, timer>>,
         l.state # "NONE", l.state \in Halfway => sta[pq].state \in Halfway
  PROVE  TimerKept'
<1>1. timer' = [timer EXCEPT ![pq] = timer[pq]]
  BY DEF Typed
<1>2. Fits(sta[pq], timer[pq]) => Fits(l, timer[pq])
  BY DEF Fits
<1> QED
  BY <1>1, <1>2, TimerAt

LEMMA StoreKept ==
  ASSUME Typed, Closed, TimerKept, NEW p \in Nodes, Store(p) PROVE Closed' /\ TimerKept'
<1> DEFINE w == worker[p]
           l == sta[<<p, w.peer>>]
           m == Found(l)
           n == IF w.event = "OPN_ACPT" \/ m.plid = None THEN [m EXCEPT !.plid = w.plid] ELSE m
           v == [op |-> "fsm", peer |-> w.peer, event |-> w.event, plid |-> w.plid]
<1>1. w \in Jobs /\ w.op = "store" /\ w.peer \in Near[p] /\ w.peer \in Nodes
        /\ <<p, w.peer>> \in Pairs
  BY PairsFact DEF Typed, Store
<1>2. /\ w.event \in Events /\ w.plid \in LinkIds
      /\ [w EXCEPT !.op = "fsm"] = v
  BY <1>1, JobsFact
<1>3. l \in Station /\ m \in Station
  BY <1>1, FoundType DEF Typed
<1>4. n \in Station /\ n.state = m.state
  BY <1>2, <1>3 DEF Station
<1>5. sta' = [sta EXCEPT ![<<p, w.peer>>] = n] /\ UNCHANGED <<setting, timer>>
  BY DEF Store, Found
<1>6. worker' = [worker EXCEPT ![p] = v] /\ v \in Jobs /\ v.op # "destroy"
  BY <1>1, <1>2, JobsType DEF Store
<1>7. n.state # "NONE" /\ (n.state \in Halfway => l.state \in Halfway)
  BY <1>3, <1>4, FoundType DEF States, Halfway
<1> HIDE DEF n, v
<1>8. Closed'
  BY <1>1, <1>4, <1>5, <1>6, ClosedKept
<1>9. TimerKept'
  BY <1>1, <1>5, <1>7, StationAt
<1> QED
  BY <1>8, <1>9

LEMMA WaysTimer ==
  ASSUME NEW p, NEW l \in Station, NEW t \in Timer, NEW event, NEW s,
         Ways(p, l, t.armed, event, s), Fits(l, t)
  PROVE  Fits(s.sta, [t EXCEPT !.armed = s.armed])
<1>1. \A a : [t EXCEPT !.armed = a].armed = a /\ [t EXCEPT !.armed = a].handler = t.handler
  BY DEF Timer
<1>2. [t EXCEPT !.armed = t.armed] = t
  BY DEF Timer
<1>3. \A state : [l EXCEPT !.state = state].state = state
                  /\ [[l EXCEPT !.llid = NewId(p)] EXCEPT !.state = state].state = state
  BY DEF Station
<1>4. Restarted(l).state = "LISTEN"
  BY DEF Restarted, Station
<1>5. CASE s.sta.state \in {"LISTEN", "ESTAB"}
  BY <1>5 DEF Fits, Halfway
<1>6. CASE s.armed /\ s.sta.state # "NONE"
  BY <1>1, <1>6 DEF Fits
<1>7. CASE s.sta = l /\ s.armed = t.armed
  BY <1>2, <1>7
<1>8. CASE l.state \in Halfway /\ s.armed = t.armed /\ s.sta.state \in Halfway
  BY <1>2, <1>8 DEF Fits, Halfway
<1> DEFINE Moves == \/ s.sta.state \in {"LISTEN", "ESTAB"} \/ (s.armed /\ s.sta.state # "NONE")
                    \/ s.sta = l /\ s.armed = t.armed
                    \/ l.state \in Halfway /\ s.armed = t.armed /\ s.sta.state \in Halfway
<1>9. Moves
  <2>1. CASE s = Stay(Restarted(l), l.state = "LISTEN" /\ t.armed, <<>>)
    BY <1>4, <2>1 DEF Stay
  <2>2. CASE s = Goto([l EXCEPT !.llid = NewId(p)], "OPN_RCVD", TRUE, <<"OPEN", "CONFIRM">>)
    <3>1. s.armed
      BY <2>2 DEF Goto, Stay
    <3>2. s.sta.state = "OPN_RCVD"
      BY <1>3, <2>2 DEF Goto, Stay
    <3> QED
      BY <3>1, <3>2
  <2>3. CASE s = Close(l)
    BY <1>3, <2>3 DEF Close, Goto, Stay
  <2>4. CASE l.state = "OPN_SNT" /\ s = Goto(l, "OPN_RCVD", t.armed, <<"CONFIRM">>)
    BY <1>3, <2>4 DEF Goto, Stay, Halfway
  <2>5. CASE s = Goto(l, "CNF_RCVD", TRUE, <<>>)
    BY <1>3, <2>5 DEF Goto, Stay
  <2>6. CASE s = Establish(l, <<>>) \/ s = Establish(l, <<"CONFIRM">>)
    BY <1>3, <2>6 DEF Establish, Goto, Stay
  <2>7. CASE s = LeaveEstab(l)
    BY <1>3, <2>7, ZenonT(30) DEF LeaveEstab, Close, Goto, Stay
  <2>8. CASE \E send : s = Stay(l, t.armed, send)
    BY <2>8 DEF Stay
  <2> HIDE DEF Moves
  <2> QED
    BY <2>1, <2>2, <2>3, <2>4, <2>5, <2>6, <2>7, <2>8 DEF Ways
<1> QED
  BY <1>5, <1>6, <1>7, <1>8, <1>9

LEMMA StepKept ==
  ASSUME Typed, Closed, TimerKept, NEW p \in Nodes, Step(p) PROVE Closed' /\ TimerKept'
<1> DEFINE w == worker[p]
           pq == <<p, w.peer>>
           s == Fsm(p, sta[pq], timer[pq].armed, w.event)
           v == IF s.send = <<>> THEN Idle
                ELSE [op |-> "send", peer |-> w.peer, send |-> s.send]
           t == [timer[pq] EXCEPT !.armed = s.armed]
<1>1. w.op = "fsm" /\ w.peer \in Near[p] /\ w.peer \in Nodes /\ pq \in Pairs
  BY PairsFact DEF Typed, Step
<1>2. sta[pq] \in Station /\ timer[pq] \in Timer /\ timer[pq].armed \in BOOLEAN
  BY <1>1 DEF Typed, Timer
<1>3. Ways(p, sta[pq], timer[pq].armed, w.event, s)
  BY <1>2, FsmWays
<1>4. sta[pq].state = "LISTEN" /\ w.event = "OPN_ACPT" => IdLeft(p)
  BY DEF Step
<1>5. /\ sta' = [sta EXCEPT ![pq] = s.sta]
      /\ timer' = [timer EXCEPT ![pq] = t]
      /\ worker' = [worker EXCEPT ![p] = v]
      /\ UNCHANGED setting
  BY DEF Step
<1> HIDE DEF s
<1>6. s.sta \in Station /\ s.send \in Seq(Kinds)
  BY <1>2, <1>3, <1>4, WaysType
<1>7. v \in Jobs /\ v.op # "destroy"
  BY <1>1, <1>6, JobsType
<1>8. Fits(sta[pq], timer[pq]) => Fits(s.sta, t)
  BY <1>2, <1>3, WaysTimer
<1> HIDE DEF v, t
<1>9. Closed'
  BY <1>1, <1>5, <1>6, <1>7, ClosedKept
<1>10. TimerKept'
  BY <1>1, <1>5, <1>8, TimerAt
<1> QED
  BY <1>9, <1>10

LEMMA SendKept ==
  ASSUME Typed, Closed, TimerKept, NEW p \in Nodes, Send(p) PROVE Closed' /\ TimerKept'
<1>1. worker' = [worker EXCEPT ![p] = Idle] /\ UNCHANGED <<setting, sta, timer>>
  BY DEF Send
<1>2. Closed'
  BY <1>1, JobsType DEF Closed, Typed
<1> QED
  BY <1>1, <1>2 DEF TimerKept, HalfwayTimed

LEMMA IdleTimer ==
  ASSUME NEW t \in Timer, t.handler = "idle"
  PROVE  [t EXCEPT !.armed = FALSE] = [armed |-> FALSE, handler |-> "idle"]
<1>1. \A u \in Timer : u = [armed |-> u.armed, handler |-> u.handler]
  BY DEF Timer
<1>2. /\ [t EXCEPT !.armed = FALSE] \in Timer
      /\ [t EXCEPT !.armed = FALSE].armed = FALSE /\ [t EXCEPT !.armed = FALSE].handler = "idle"
  BY DEF Timer
<1> QED
  BY <1>1, <1>2

LEMMA DelTimerSyncKept ==
  ASSUME Typed, Closed, TimerKept, NEW p \in Nodes, DelTimerSync(p)
  PROVE  Closed' /\ TimerKept'
<1> DEFINE q == worker[p].peer
           t == [timer[<<p, q>>] EXCEPT !.armed = FALSE]
<1>1. q \in Near[p] /\ <<p, q>> \in Pairs
  BY PairsFact DEF Typed, DelTimerSync
<1>2. /\ sta' = [sta EXCEPT ![<<p, q>>] = NoStation]
      /\ timer' = [timer EXCEPT ![<<p, q>>] = t]
      /\ worker' = [worker EXCEPT ![p] = Idle]
      /\ timer[<<p, q>>].handler = "idle" /\ UNCHANGED setting
  BY DEF DelTimerSync
<1>3. t = [armed |-> FALSE, handler |-> "idle"]
  <2>1. timer[<<p, q>>] \in Timer
    BY <1>1 DEF Typed
  <2> QED
    BY <1>2, <2>1, IdleTimer
<1>4. NoStation \in Station /\ NoStation.state = "NONE"
  BY DEF NoStation, Station, States, LinkIds
<1>5. Fits(NoStation, t)
  BY <1>3, <1>4 DEF Fits, Halfway
<1> HIDE DEF q, t
<1>6. Closed'
  BY <1>1, <1>2, <1>4, JobsType, ClosedKept
<1>7. TimerKept'
  BY <1>1, <1>2, <1>5, TimerAt
<1> QED
  BY <1>6, <1>7

LEMMA UserBlockKept ==
  ASSUME Typed, Closed, TimerKept, NEW p \in Nodes, NEW q \in Near[p], UserBlock(p, q)
  PROVE  Closed' /\ TimerKept'
<1> DEFINE l == [sta[<<p, q>>] EXCEPT !.state = "BLOCKED"]
<1>1. /\ sta' = [sta EXCEPT ![<<p, q>>] = l]
      /\ UNCHANGED <<setting, timer, worker>> /\ Ready(p)
  BY DEF UserBlock, Deactivated
<1>2. l \in Station /\ l.state = "BLOCKED"
  <2>1. sta[<<p, q>>] \in Station
    BY PairsFact DEF Typed
  <2> QED
    BY <2>1, BlockedType
<1>3. worker' = [worker EXCEPT ![p] = worker[p]] /\ worker[p] \in Jobs /\ worker[p].op # "destroy"
  BY <1>1 DEF Typed, Ready
<1> HIDE DEF l
<1>4. Closed'
  BY <1>1, <1>2, <1>3, ClosedKept
<1>5. TimerKept'
  BY <1>1, <1>2, PairsFact, StationAt DEF Halfway
<1> QED
  BY <1>4, <1>5

LEMMA DestroyKept ==
  ASSUME Typed, Closed, TimerKept, NEW p \in Nodes, NEW q \in Near[p], Destroy(p, q)
  PROVE  Closed' /\ TimerKept'
<1> DEFINE l == [sta[<<p, q>>] EXCEPT !.state = "BLOCKED"]
           v == [op |-> "destroy", peer |-> q]
<1>1. /\ sta' = [sta EXCEPT ![<<p, q>>] = l] /\ UNCHANGED <<setting, timer>>
      /\ worker' = [worker EXCEPT ![p] = v]
  BY DEF Destroy, Deactivated
<1>2. l \in Station /\ l.state = "BLOCKED"
  <2>1. sta[<<p, q>>] \in Station
    BY PairsFact DEF Typed
  <2> QED
    BY <2>1, BlockedType
<1>3. v \in Jobs /\ v.op = "destroy" /\ v.peer = q
  BY PairsFact, JobsType
<1> HIDE DEF l, v
<1>4. Closed'
  BY <1>1, <1>2, <1>3, ClosedKept
<1>5. TimerKept'
  BY <1>1, <1>2, PairsFact, StationAt DEF Halfway
<1> QED
  BY <1>4, <1>5

LEMMA OpenKept ==
  ASSUME Typed, Closed, TimerKept, NEW p \in Nodes, NEW q \in Near[p], NEW l \in Station,
         Ready(p), Open(p, q, l), l.state # "NONE",
         l.state \in Halfway => sta[<<p, q>>].state \in Halfway
  PROVE  Closed' /\ TimerKept'
<1> DEFINE opened == [l EXCEPT !.state = "OPN_SNT", !.llid = NewId(p)]
           renamed == [l EXCEPT !.llid = NewId(p)]
           v == [op |-> "send", peer |-> q, send |-> <<"OPEN">>]
           t == [timer[<<p, q>>] EXCEPT !.armed = TRUE]
<1>1. NewId(p) \in LinkIds
  BY NewIdType DEF Open, LinkIds
<1>2. /\ opened \in Station /\ renamed \in Station
      /\ opened.state = "OPN_SNT" /\ renamed.state = l.state
  BY <1>1 DEF Station, States, Halfway
<1>3. v \in Jobs /\ v.op = "send"
  <2>1. <<"OPEN">> \in Seq(Kinds)
    BY DEF Kinds
  <2> QED
    BY <2>1, PairsFact, JobsType
<1>4. CASE l.state \in {"LISTEN", "BLOCKED"}
  <2>1. /\ sta' = [sta EXCEPT ![<<p, q>>] = opened]
        /\ timer' = [timer EXCEPT ![<<p, q>>] = t]
        /\ worker' = [worker EXCEPT ![p] = v]
        /\ UNCHANGED setting
    BY <1>4 DEF Open
  <2>2. timer[<<p, q>>] \in Timer
    BY PairsFact DEF Typed
  <2>3. t.armed
    BY <2>2 DEF Timer
  <2>4. Fits(opened, t)
    BY <1>2, <2>3 DEF Fits
  <2> HIDE DEF opened, v, t
  <2>5. Closed'
    BY <1>2, <1>3, <2>1, ClosedKept
  <2>6. TimerKept'
    BY <2>1, <2>4, PairsFact, TimerAt
  <2> QED
    BY <2>5, <2>6
<1>5. CASE l.state \notin {"LISTEN", "BLOCKED"}
  <2>1. sta' = [sta EXCEPT ![<<p, q>>] = renamed] /\ UNCHANGED <<setting, timer, worker>>
    BY <1>5 DEF Open
  <2>2. worker' = [worker EXCEPT ![p] = worker[p]] /\ worker[p] \in Jobs /\ worker[p].op # "destroy"
    BY <2>1 DEF Typed, Ready
  <2> HIDE DEF renamed
  <2>3. Closed'
    BY <1>2, <2>1, <2>2, ClosedKept
  <2>4. TimerKept'
    BY <1>2, <2>1, PairsFact, StationAt
  <2> QED
    BY <2>3, <2>4
<1> QED
  BY <1>4, <1>5

LEMMA UserOpenKept ==
  ASSUME Typed, Closed, TimerKept, NEW p \in Nodes, NEW q \in Near[p], UserOpen(p, q)
  PROVE  Closed' /\ TimerKept'
BY PairsFact, OpenKept DEF UserOpen, Typed

LEMMA BeaconKept ==
  ASSUME Typed, Closed, TimerKept, NEW p \in Nodes, NEW q \in Near[p], Beacon(p, q)
  PROVE  Closed' /\ TimerKept'
<1> DEFINE l == sta[<<p, q>>]
           m == Found(l)
<1>1. l \in Station
  BY PairsFact DEF Typed
<1>2. m \in Station /\ m.state # "NONE" /\ (m.state \in Halfway => l.state \in Halfway)
  BY <1>1, FoundType DEF States, Halfway
<1>3. Ready(p) /\ (Open(p, q, m) \/ (/\ sta' = [sta EXCEPT ![<<p, q>>] = m]
                                      /\ UNCHANGED <<setting, timer, worker>>))
  BY DEF Beacon, Found
<1> HIDE DEF m
<1>4. CASE Open(p, q, m)
  BY <1>2, <1>3, <1>4, OpenKept
<1>5. CASE /\ sta' = [sta EXCEPT ![<<p, q>>] = m]
            /\ UNCHANGED <<setting, timer, worker>>
  <2>1. worker' = [worker EXCEPT ![p] = worker[p]] /\ worker[p] \in Jobs /\ worker[p].op # "destroy"
    BY <1>3, <1>5 DEF Typed, Ready
  <2>2. Closed'
    BY <1>2, <1>5, <2>1, ClosedKept
  <2>3. TimerKept'
    BY <1>2, <1>5, PairsFact, StationAt
  <2> QED
    BY <2>2, <2>3
<1> QED
  BY <1>3, <1>4, <1>5

LEMMA DeliverKept ==
  ASSUME Sound, Closed, TimerKept, NEW p \in Nodes, NEW q \in Near[p], Deliver(p, q)
  PROVE  Closed' /\ TimerKept'
<1>1. UNCHANGED <<setting, sta, timer>> /\ Typed'
  BY DeliverSound DEF Deliver, Handle, Sound
<1>2. \A n \in Nodes : worker'[n].op = "destroy" => worker'[n] = worker[n]
  <2> DEFINE e == Event(p, sta[<<p, q>>], Head(air[<<q, p>>]))
             job == [op |-> IF e \in {"OPN_ACPT", "CNF_ACPT"} THEN "store" ELSE "fsm",
                     peer |-> q, event |-> e, plid |-> Head(air[<<q, p>>]).llid]
  <2>1. UNCHANGED worker \/ worker' = [worker EXCEPT ![p] = job]
    BY DEF Deliver, Handle
  <2>2. job.op # "destroy"
    OBVIOUS
  <2> HIDE DEF job
  <2> QED
    BY <2>1, <2>2 DEF Sound, Typed
<1> QED
  BY <1>1, <1>2 DEF Closed, TimerKept, HalfwayTimed

LEMMA TimerSendsKept ==
  ASSUME Typed, Closed, TimerKept, NEW p \in Nodes, NEW q \in Near[p], TimerSends(p, q)
  PROVE  Closed' /\ TimerKept'
<1> DEFINE t == [timer[<<p, q>>] EXCEPT !.handler = "idle"]
<1>1. /\ timer' = [timer EXCEPT ![<<p, q>>] = t]
      /\ sta' = [sta EXCEPT ![<<p, q>>] = sta[<<p, q>>]] /\ UNCHANGED <<sta, worker>>
      /\ timer[<<p, q>>].handler \in {"OPEN", "CLOSE"} /\ UNCHANGED setting
  BY DEF TimerSends, Typed
<1>2. timer[<<p, q>>] \in Timer
  BY PairsFact DEF Typed
<1>3. t.armed = timer[<<p, q>>].armed
  BY <1>2 DEF Timer
<1>4. Fits(sta[<<p, q>>], timer[<<p, q>>]) => Fits(sta[<<p, q>>], t)
  BY <1>1, <1>3 DEF Fits
<1> HIDE DEF t
<1>5. TimerKept'
  BY <1>1, <1>4, PairsFact, TimerAt
<1> QED
  BY <1>1, <1>5 DEF Closed

LEMMA ExpiresKept ==
  ASSUME Typed, Closed, TimerKept, NEW p \in Nodes, NEW q \in Near[p], Expires(p, q)
  PROVE  Closed' /\ TimerKept'
<1> DEFINE t == [armed |-> FALSE, handler |-> "entered"]
<1>1. /\ timer' = [timer EXCEPT ![<<p, q>>] = t]
      /\ sta' = [sta EXCEPT ![<<p, q>>] = sta[<<p, q>>]] /\ UNCHANGED <<sta, worker>>
      /\ timer[<<p, q>>].armed /\ UNCHANGED setting
  BY DEF Expires, Typed
<1>2. Fits(sta[<<p, q>>], timer[<<p, q>>]) => Fits(sta[<<p, q>>], t)
  BY <1>1 DEF Fits
<1> HIDE DEF t
<1>3. TimerKept'
  BY <1>1, <1>2, PairsFact, TimerAt
<1> QED
  BY <1>1, <1>3 DEF Closed

LEMMA FiresKept ==
  ASSUME Typed, Closed, TimerKept, NEW p \in Nodes, NEW q \in Near[p], Fires(p, q)
  PROVE  Closed' /\ TimerKept'
<1> DEFINE l == sta[<<p, q>>]
<1>1. PICK m \in Station, armed \in BOOLEAN, handler \in {"idle", "OPEN", "CLOSE"} :
        Leaves(<<p, q>>, m, armed, handler) /\ FiredWays(l, m, armed, handler)
  BY FiresWays
<1>2. l \in Station /\ l.state # "NONE" /\ UNCHANGED <<setting, worker>>
  BY FiresWays DEF Fires
<1> DEFINE t == [armed |-> armed, handler |-> handler]
<1>3. /\ sta' = [sta EXCEPT ![<<p, q>>] = m]
      /\ timer' = [timer EXCEPT ![<<p, q>>] = t]
  BY <1>1 DEF Leaves
<1>4. t.armed = armed /\ t.handler = handler
  OBVIOUS
<1>5. /\ m.state # "NONE"
      /\ m.state \in Halfway => armed \/ "suspend" \in setting.commands
      /\ l.state = "BLOCKED" => m.state = "BLOCKED"
  BY <1>1, <1>2 DEF FiredWays, Restarted, Station, Halfway
<1>6. Fits(m, t)
  BY <1>4, <1>5 DEF Fits
<1> HIDE DEF t
<1>7. TimerKept'
  BY <1>2, <1>3, <1>6, PairsFact, TimerAt
<1>8. \A pq \in Pairs : sta'[pq] = IF pq = <<p, q>> THEN m ELSE sta[pq]
  BY <1>3 DEF Typed
<1>9. \A n \in Nodes : worker[n].op = "destroy" => <<n, worker[n].peer>> \in Pairs
  BY PairsFact DEF Typed
<1> QED
  BY <1>2, <1>5, <1>7, <1>8, <1>9 DEF Closed

LEMMA CrashKept ==
  ASSUME Typed, Closed, TimerKept, NEW p \in Nodes, Crash(p) PROVE Closed' /\ TimerKept'
<1>1. /\ sta'   = [pq \in Pairs |-> IF pq[1] = p THEN NoStation ELSE sta[pq]]
      /\ timer' = [pq \in Pairs |-> IF pq[1] = p THEN [armed |-> FALSE, handler |-> "idle"]
                                    ELSE timer[pq]]
      /\ worker' = [worker EXCEPT ![p] = Idle] /\ UNCHANGED setting
  BY DEF Crash
<1>2. NoStation.state = "NONE" /\ Idle.op = "idle"
  BY DEF NoStation, Idle
<1>3. TimerKept'
  BY <1>1, <1>2 DEF TimerKept, HalfwayTimed, Halfway
<1>4. \A n \in Nodes : worker'[n].op = "destroy" =>
        n # p /\ worker'[n] = worker[n] /\ <<n, worker[n].peer>> \in Pairs
  BY <1>1, <1>2, PairsFact DEF Typed
<1>5. Closed'
  BY <1>1, <1>4 DEF Closed
<1> QED
  BY <1>3, <1>5

-----------------------------------------------------------------------------
(* Types, the count of links, and the timers. *)

LEMMA InitBase == Init => Base
<1> SUFFICES ASSUME Init PROVE Base
  OBVIOUS
<1>1. Typed
  BY InitTyped
<1>2. \A pq \in Pairs : sta[pq].state = "NONE" /\ timer[pq] = [armed |-> FALSE, handler |-> "idle"]
  BY DEF Init, NoStation
<1>3. \A p \in Nodes : estab[p] = 0 /\ worker[p].op = "idle"
  BY DEF Init, Idle
<1>4. \A p \in Nodes : Up(p) = {}
  BY <1>2, PairsFact DEF Up
<1>5. \A p \in Nodes : setting.links[p] \in Nat
  BY <1>1, MeshPlinkAssumption DEF Typed
<1>6. Counted
  BY <1>3, <1>4, <1>5, FS_EmptySet DEF Counted, Handling
<1>7. Closed /\ TimerKept
  BY <1>2, <1>3 DEF Closed, TimerKept, HalfwayTimed, Halfway
<1> QED
  BY <1>1, <1>6, <1>7 DEF Base

LEMMA StutterBase == Base /\ UNCHANGED vars => Base'
<1> SUFFICES ASSUME Base, UNCHANGED vars PROVE Base'
  OBVIOUS
<1> USE DEF vars, Base
<1>1. Typed'
  BY DEF Typed
<1>2. Counted'
  BY CountSame DEF Handling
<1>3. Closed' /\ TimerKept'
  BY DEF Closed, TimerKept, HalfwayTimed
<1> QED
  BY <1>1, <1>2, <1>3

LEMMA NextBase == Base /\ Next => Base'
<1> SUFFICES ASSUME Base, Next PROVE Base'
  OBVIOUS
<1>1. Sound /\ Typed /\ Closed /\ TimerKept /\ setting \in Settings
  BY DEF Base, Sound, Typed
<1>2. SUFFICES Sound' /\ Closed' /\ TimerKept'
  BY DEF Base, Sound
<1>3. PICK p \in Nodes :
        \/ Store(p) \/ Step(p) \/ Send(p) \/ DelTimerSync(p) \/ Crash(p)
        \/ \E q \in Near[p] :
             \/ Fires(p, q) \/ TimerSends(p, q) \/ Deliver(p, q) \/ Lose(p, q)
             \/ Beacon(p, q) \/ Expires(p, q) \/ UserOpen(p, q) \/ UserBlock(p, q)
             \/ Destroy(p, q)
  BY <1>1, NextCases
<1>4. CASE Store(p)
  BY <1>1, <1>4, StoreSound, StoreKept
<1>5. CASE Step(p)
  BY <1>1, <1>5, StepSound, StepKept
<1>6. CASE Send(p)
  BY <1>1, <1>6, SendSound, SendKept
<1>7. CASE DelTimerSync(p)
  BY <1>1, <1>7, DelTimerSyncSound, DelTimerSyncKept
<1>8. CASE Crash(p)
  BY <1>1, <1>8, CrashSound, CrashKept
<1>9. ASSUME NEW q \in Near[p], Fires(p, q) PROVE Sound' /\ Closed' /\ TimerKept'
  BY <1>1, <1>9, FiresSound, FiresKept
<1>10. ASSUME NEW q \in Near[p], TimerSends(p, q) PROVE Sound' /\ Closed' /\ TimerKept'
  BY <1>1, <1>10, TimerSendsSound, TimerSendsKept
<1>11. ASSUME NEW q \in Near[p], Deliver(p, q) PROVE Sound' /\ Closed' /\ TimerKept'
  BY <1>1, <1>11, DeliverSound, DeliverKept
<1>12. ASSUME NEW q \in Near[p], Lose(p, q) PROVE Sound' /\ Closed' /\ TimerKept'
  BY <1>1, <1>12, LoseSound DEF Lose, Closed, TimerKept, HalfwayTimed
<1>13. ASSUME NEW q \in Near[p], Beacon(p, q) PROVE Sound' /\ Closed' /\ TimerKept'
  BY <1>1, <1>13, BeaconSound, BeaconKept
<1>14. ASSUME NEW q \in Near[p], Expires(p, q) PROVE Sound' /\ Closed' /\ TimerKept'
  BY <1>1, <1>14, ExpiresSound, ExpiresKept
<1>15. ASSUME NEW q \in Near[p], UserOpen(p, q) PROVE Sound' /\ Closed' /\ TimerKept'
  BY <1>1, <1>15, UserOpenSound, UserOpenKept
<1>16. ASSUME NEW q \in Near[p], UserBlock(p, q) PROVE Sound' /\ Closed' /\ TimerKept'
  BY <1>1, <1>16, UserBlockSound, UserBlockKept
<1>17. ASSUME NEW q \in Near[p], Destroy(p, q) PROVE Sound' /\ Closed' /\ TimerKept'
  BY <1>1, <1>17, DestroySound, DestroyKept
<1> QED
  BY <1>3, <1>4, <1>5, <1>6, <1>7, <1>8, <1>9, <1>10, <1>11, <1>12, <1>13, <1>14, <1>15,
     <1>16, <1>17

THEOREM BaseHolds == Spec => []Base
<1>1. Base /\ [Next]_vars => Base'
  BY NextBase, StutterBase
<1> QED
  BY <1>1, InitBase, PTL DEF Spec

(* Every variable keeps its type, and no count of links is ever negative.  *)
THEOREM TypeCorrect == Spec => []TypeOK
<1>1. Base => TypeOK
  <2> SUFFICES ASSUME Base PROVE TypeOK
    OBVIOUS
  <2>1. ASSUME NEW pq \in Pairs, NEW i \in DOMAIN air[pq] PROVE air[pq][i] \in Frame
    BY DEF Base, Typed
  <2> QED
    BY <2>1 DEF Base, Typed, TypeOK
<1> QED
  BY <1>1, BaseHolds, PTL

(* In any network estab_plinks is the number of established stations, and  *)
(* no node has more links than it may: the room that was found when the    *)
(* event was chosen is still there when the link is established.           *)
THEOREM LinksCounted == Spec => []EstabCounted
<1>1. Base => EstabCounted
  BY DEF Base, Counted, EstabCounted, Up
<1> QED
  BY <1>1, BaseHolds, PTL

(* However a timer's handler and the worker overtake one another, a station *)
(* that is half way has a timer, while no system is suspended, and one that *)
(* is gone has none.                                                        *)
THEOREM TimersKept == Spec => []TimerKept
<1>1. Base => TimerKept
  BY DEF Base
<1> QED
  BY <1>1, BaseHolds, PTL

-----------------------------------------------------------------------------
(* The ids of links. *)

LEMMA InitNamed == Init => Named /\ InHand
<1> SUFFICES ASSUME Init PROVE Named /\ InHand
  OBVIOUS
<1>1. \A pq \in Pairs : sta[pq].state = "NONE" /\ air[pq] = <<>>
  BY DEF Init, NoStation
<1>2. air \in [Pairs -> Seq(Whole)]
  BY DEF Init
<1>3. \A p \in Nodes : worker[p].op = "idle"
  BY DEF Init, Idle
<1> QED
  BY <1>1, <1>2, <1>3 DEF Named, NamedAt, InHand, Halfway

SameIds(l, m) ==
  l.state = "ESTAB" /\ m.state = "ESTAB" => m.llid = l.llid /\ m.plid = l.plid

IdsSame == \A pq \in Pairs : SameIds(sta[pq], sta'[pq])

(* A step that changes one station and the job of its node. *)
LEMMA LinkedAt ==
  ASSUME Typed, Named, InHand, NEW p \in Nodes, NEW q \in Near[p], NEW l \in Station, NEW w,
         sta' = [sta EXCEPT ![<<p, q>>] = l], worker' = [worker EXCEPT ![p] = w],
         air' \in [Pairs -> Seq(Whole)],
         NamedAt(l), SameIds(sta[<<p, q>>], l),
         w.op # "idle" => \/ w.peer = q /\ GoesWith(w, l)
                          \/ w = worker[p] /\ w.peer # q
  PROVE  Named' /\ InHand' /\ IdsSame
<1>1. \A pq \in Pairs : sta'[pq] = IF pq = <<p, q>> THEN l ELSE sta[pq]
  BY DEF Typed
<1>2. Named'
  BY <1>1 DEF Named
<1>3. IdsSame
  BY <1>1 DEF IdsSame, SameIds
<1>4. InHand'
  <2> SUFFICES ASSUME NEW n \in Nodes, worker'[n].op # "idle"
               PROVE  GoesWith(worker'[n], sta'[<<n, worker'[n].peer>>])
    BY DEF InHand
  <2>1. CASE n = p /\ w.peer = q
    BY <1>1, <2>1, PairsFact DEF Typed
  <2>2. CASE worker'[n] = worker[n] /\ <<n, worker[n].peer>> # <<p, q>>
    <3>1. <<n, worker[n].peer>> \in Pairs
      BY <2>2, PairsFact DEF Typed
    <3> QED
      BY <1>1, <2>2, <3>1 DEF InHand
  <2>3. worker'[n] = IF n = p THEN w ELSE worker[n]
    BY DEF Typed
  <2> QED
    BY <2>1, <2>2, <2>3
<1> QED
  BY <1>2, <1>3, <1>4

(* ... only its job ... *)
LEMMA JobAt ==
  ASSUME Typed, Named, InHand, NEW p \in Nodes, NEW q \in Near[p], NEW w,
         UNCHANGED sta, worker' = [worker EXCEPT ![p] = w],
         air' \in [Pairs -> Seq(Whole)],
         w.op # "idle" => w.peer = q /\ GoesWith(w, sta[<<p, q>>])
  PROVE  Named' /\ InHand' /\ IdsSame
<1>1. sta' = [sta EXCEPT ![<<p, q>>] = sta[<<p, q>>]] /\ sta[<<p, q>>] \in Station
  BY PairsFact DEF Typed
<1>2. NamedAt(sta[<<p, q>>]) /\ SameIds(sta[<<p, q>>], sta[<<p, q>>])
  BY PairsFact DEF Named, SameIds
<1> QED
  BY <1>1, <1>2, LinkedAt

(* ... or neither. *)
LEMMA AirAt ==
  ASSUME Named, InHand, UNCHANGED <<sta, worker>>, air' \in [Pairs -> Seq(Whole)]
  PROVE  Named' /\ InHand' /\ IdsSame
BY DEF Named, InHand, IdsSame, SameIds

LEMMA IdFact == \A id \in Ids : id # None
BY MeshPlinkAssumption DEF None

LEMMA StoreLinked ==
  ASSUME Typed, Named, InHand, NEW p \in Nodes, Store(p) PROVE Named' /\ InHand' /\ IdsSame
<1> DEFINE w == worker[p]
           l == sta[<<p, w.peer>>]
           m == Found(l)
           n == IF w.event = "OPN_ACPT" \/ m.plid = None THEN [m EXCEPT !.plid = w.plid] ELSE m
           v == [op |-> "fsm", peer |-> w.peer, event |-> w.event, plid |-> w.plid]
<1>1. w \in Jobs /\ w.op = "store" /\ w.peer \in Near[p] /\ <<p, w.peer>> \in Pairs
  BY PairsFact DEF Typed, Store
<1>2. /\ w.plid \in LinkIds
      /\ [w EXCEPT !.op = "fsm"] = v
  BY <1>1, JobsFact
<1>3. l \in Station /\ m \in Station
  BY <1>1, FoundType DEF Typed
<1>4. /\ n \in Station /\ n.state = m.state /\ n.llid = m.llid
      /\ n.plid = IF w.event = "OPN_ACPT" \/ m.plid = None THEN w.plid ELSE m.plid
  BY <1>2, <1>3 DEF Station
<1>5. NamedAt(l) /\ GoesWith(w, l)
  BY <1>1 DEF Named, InHand
<1>6. /\ m.llid = l.llid /\ m.plid = l.plid
      /\ m.state \in Halfway \cup {"ESTAB"} => m.state = l.state
  BY <1>3, FoundType DEF Halfway
<1>7. sta' = [sta EXCEPT ![<<p, w.peer>>] = n] /\ worker' = [worker EXCEPT ![p] = v]
  BY <1>2 DEF Store, Found
<1>8. UNCHANGED air
  BY DEF Store
<1> HIDE DEF l, m, n
<1>9. NamedAt(n)
  BY <1>1, <1>4, <1>5, <1>6 DEF NamedAt, GoesWith, Halfway
<1>10. SameIds(l, n)
  BY <1>1, <1>4, <1>5, <1>6 DEF NamedAt, GoesWith, SameIds
<1>11. GoesWith(v, n)
  BY <1>1, <1>4, <1>5, <1>6 DEF GoesWith, Halfway
<1> HIDE DEF v
<1>12. v.peer = w.peer
  BY DEF v
<1> QED
  BY <1>1, <1>4, <1>7, <1>8, <1>9, <1>10, <1>11, <1>12, LinkedAt DEF Named, l

(* A step of the state machine with the id stored. *)
LEMMA WaysNamed ==
  ASSUME NEW p \in Nodes, NEW l \in Station, NEW armed, NEW event, NEW s,
         Ways(p, l, armed, event, s), l.state = "LISTEN" /\ event = "OPN_ACPT" => IdLeft(p),
         NamedAt(l), event = "CNF_ACPT" /\ l.state \in {"OPN_SNT", "OPN_RCVD"} => l.plid # None
  PROVE  /\ NamedAt(s.sta) /\ SameIds(l, s.sta)
         /\ s.send # <<>> /\ s.sta.plid # None => s.sta.llid # None
<1>1. l.state = "LISTEN" /\ event = "OPN_ACPT" => NewId(p) # None
  BY NewIdType, IdFact
<1>2. \A state : /\ [l EXCEPT !.state = state].state = state
                 /\ [l EXCEPT !.state = state].llid = l.llid
                 /\ [l EXCEPT !.state = state].plid = l.plid
                 /\ [[l EXCEPT !.llid = NewId(p)] EXCEPT !.state = state].state = state
                 /\ [[l EXCEPT !.llid = NewId(p)] EXCEPT !.state = state].llid = NewId(p)
  BY DEF Station
<1>3. Restarted(l).state = "LISTEN" /\ Restarted(l).plid = None
  BY DEF Restarted, Station
<1> USE DEF NamedAt, SameIds, Halfway
<1>4. CASE /\ l.state \in {"LISTEN", "HOLDING"}
           /\ s = Stay(Restarted(l), l.state = "LISTEN" /\ armed, <<>>)
  BY <1>3, <1>4 DEF Stay
<1>5. CASE /\ l.state = "LISTEN" /\ event = "OPN_ACPT"
           /\ s = Goto([l EXCEPT !.llid = NewId(p)], "OPN_RCVD", TRUE, <<"OPEN", "CONFIRM">>)
  BY <1>1, <1>2, <1>5 DEF Goto, Stay
<1>6. CASE l.state \in {"OPN_SNT", "OPN_RCVD", "CNF_RCVD"} /\ s = Close(l)
  BY <1>2, <1>6 DEF Close, Goto, Stay
<1>7. CASE l.state = "OPN_SNT" /\ s = Goto(l, "OPN_RCVD", armed, <<"CONFIRM">>)
  BY <1>2, <1>7 DEF Goto, Stay
<1>8. CASE l.state = "OPN_SNT" /\ event = "CNF_ACPT" /\ s = Goto(l, "CNF_RCVD", TRUE, <<>>)
  BY <1>2, <1>8 DEF Goto, Stay
<1>9. CASE l.state = "OPN_RCVD" /\ event = "CNF_ACPT" /\ s = Establish(l, <<>>)
  BY <1>2, <1>9 DEF Establish, Goto, Stay
<1>10. CASE l.state = "CNF_RCVD" /\ s = Establish(l, <<"CONFIRM">>)
  BY <1>2, <1>10 DEF Establish, Goto, Stay
<1>11. CASE l.state = "ESTAB" /\ s = LeaveEstab(l)
  BY <1>2, <1>11 DEF LeaveEstab, Close, Goto, Stay
<1>12. CASE s = Stay(l, armed, <<>>)
  BY <1>12 DEF Stay
<1>13. CASE l.state \in Halfway \cup {"ESTAB"} /\ s = Stay(l, armed, <<"CONFIRM">>)
  BY <1>13 DEF Stay
<1>14. CASE l.state \in Halfway \cup {"ESTAB"} /\ s = Stay(l, armed, <<"CLOSE">>)
  BY <1>14 DEF Stay
<1> HIDE DEF NamedAt, SameIds, Halfway
<1> QED
  BY <1>4, <1>5, <1>6, <1>7, <1>8, <1>9, <1>10, <1>11, <1>12, <1>13, <1>14 DEF Ways

LEMMA StepLinked ==
  ASSUME Typed, Named, InHand, NEW p \in Nodes, Step(p) PROVE Named' /\ InHand' /\ IdsSame
<1> DEFINE w == worker[p]
           pq == <<p, w.peer>>
           s == Fsm(p, sta[pq], timer[pq].armed, w.event)
           v == IF s.send = <<>> THEN Idle
                ELSE [op |-> "send", peer |-> w.peer, send |-> s.send]
<1>1. w.op = "fsm" /\ w.peer \in Near[p] /\ w.peer \in Nodes /\ pq \in Pairs
  BY PairsFact DEF Typed, Step
<1>2. sta[pq] \in Station /\ timer[pq] \in Timer /\ timer[pq].armed \in BOOLEAN
  BY <1>1 DEF Typed, Timer
<1>3. Ways(p, sta[pq], timer[pq].armed, w.event, s)
  BY <1>2, FsmWays
<1>4. sta[pq].state = "LISTEN" /\ w.event = "OPN_ACPT" => IdLeft(p)
  BY DEF Step
<1>5. /\ sta' = [sta EXCEPT ![pq] = s.sta]
      /\ worker' = [worker EXCEPT ![p] = v]
      /\ UNCHANGED air
  BY DEF Step
<1> HIDE DEF s
<1>6. s.sta \in Station
  BY <1>2, <1>3, <1>4, WaysType
<1>7. NamedAt(sta[pq]) /\ GoesWith(w, sta[pq])
  BY <1>1 DEF Named, InHand
<1>8. w.event = "CNF_ACPT" /\ sta[pq].state \in {"OPN_SNT", "OPN_RCVD"} => sta[pq].plid # None
  BY <1>1, <1>7 DEF GoesWith
<1>9. /\ NamedAt(s.sta) /\ SameIds(sta[pq], s.sta)
      /\ s.send # <<>> /\ s.sta.plid # None => s.sta.llid # None
  BY <1>2, <1>3, <1>4, <1>7, <1>8, WaysNamed
<1>10. v.op # "idle" => v.peer = w.peer /\ GoesWith(v, s.sta)
  BY <1>9 DEF GoesWith, Idle
<1> HIDE DEF v
<1> QED
  BY <1>1, <1>5, <1>6, <1>9, <1>10, LinkedAt DEF Named

(* What goes into the air. *)
LEMMA WholeFact ==
  ASSUME NEW p, NEW l, NEW type, FrameOf(type, p, l) \in Frame,
         type # "CONFIRM" \/ (l.plid # None => l.llid # None)
  PROVE  FrameOf(type, p, l) \in Whole
BY DEF Whole, FrameOf

LEMMA WholeTaken ==
  ASSUME Named, NEW pq \in Pairs, air[pq] # <<>>
  PROVE  Head(air[pq]) \in Whole /\ [air EXCEPT ![pq] = Tail(@)] \in [Pairs -> Seq(Whole)]
<1>1. air[pq] \in Seq(Whole) /\ air \in [Pairs -> Seq(Whole)]
  BY DEF Named
<1>2. Tail(air[pq]) \in Seq(Whole) /\ Head(air[pq]) \in Whole
  BY <1>1
<1> QED
  BY <1>1, <1>2

LEMMA SendLinked ==
  ASSUME Typed, Named, InHand, NEW p \in Nodes, Send(p) PROVE Named' /\ InHand' /\ IdsSame
<1> DEFINE w == worker[p]
           pq == <<p, w.peer>>
           fs == [i \in DOMAIN w.send |-> FrameOf(w.send[i], p, sta[pq])]
<1>1. w \in Jobs /\ w.op = "send" /\ w.peer \in Near[p] /\ pq \in Pairs
  BY PairsFact DEF Typed, Send
<1>2. w.send \in Seq(Kinds) /\ sta[pq] \in Station
  BY <1>1, JobsFact DEF Typed
<1>3. sta[pq].plid # None => sta[pq].llid # None
  BY <1>1 DEF InHand, GoesWith
<1>4. ASSUME NEW i \in DOMAIN w.send PROVE FrameOf(w.send[i], p, sta[pq]) \in Whole
  <2>1. w.send[i] \in Kinds
    BY <1>2
  <2>2. FrameOf(w.send[i], p, sta[pq]) \in Frame
    BY <1>2, <2>1, FrameOfType
  <2> QED
    BY <1>3, <2>2, WholeFact
<1>5. fs \in Seq(Whole)
  <2>1. DOMAIN w.send = 1 .. Len(w.send) /\ Len(w.send) \in Nat
    BY <1>2
  <2> QED
    BY <1>4, <2>1
<1> HIDE DEF fs
<1>6. air' = Added(air, pq, fs) /\ worker' = [worker EXCEPT ![p] = Idle] /\ UNCHANGED sta
  BY DEF Send, Sent, fs
<1>7. air' \in [Pairs -> Seq(Whole)]
  BY <1>1, <1>5, <1>6, AddedType DEF Named, Typed
<1>8. Idle.op = "idle"
  BY DEF Idle
<1> QED
  BY <1>1, <1>6, <1>7, <1>8, JobAt

LEMMA DeliverLinked ==
  ASSUME Sound, Named, InHand, NEW p \in Nodes, NEW q \in Near[p], Deliver(p, q)
  PROVE  Named' /\ InHand' /\ IdsSame
<1> DEFINE f == Head(air[<<q, p>>])
           l == sta[<<p, q>>]
           e == Event(p, l, f)
           taken == [air EXCEPT ![<<q, p>>] = Tail(@)]
           answer == [type |-> "CLOSE", llid |-> None, plid |-> f.llid, mesh |-> mesh[p]]
           job == [op |-> IF e \in {"OPN_ACPT", "CNF_ACPT"} THEN "store" ELSE "fsm",
                   peer |-> q, event |-> e, plid |-> f.llid]
<1> USE DEF Sound
<1>1. <<p, q>> \in Pairs /\ <<q, p>> \in Pairs
  BY PairsFact
<1>2. l \in Station /\ f \in Whole /\ f \in Frame /\ taken \in [Pairs -> Seq(Whole)]
  BY <1>1, WholeTaken DEF Typed, Deliver, Whole
<1>3. answer \in Whole
  BY <1>2 DEF Frame, LinkIds, Typed, Whole
<1>4. Added(taken, <<p, q>>, <<answer>>) \in [Pairs -> Seq(Whole)]
  <2>1. <<answer>> \in Seq(Whole)
    BY <1>3
  <2> HIDE DEF taken, answer
  <2> QED
    BY <1>1, <1>2, <2>1, AddedType DEF Typed
<1> HIDE DEF f, l, e, taken, answer
<1>5. /\ e = "OPN_ACPT" /\ l.state # "NONE" /\ l.plid # None => l.plid = f.llid
      /\ e = "CNF_ACPT" => f.type = "CONFIRM" /\ l.llid = f.plid
  BY <1>2, EventFact DEF e
<1>6. NamedAt(l)
  BY <1>1 DEF Named, l
<1>7. job.op # "idle" => job.peer = q /\ GoesWith(job, l)
  BY <1>2, <1>5, <1>6 DEF GoesWith, NamedAt, Halfway, Whole
<1> HIDE DEF job
<1>8. UNCHANGED sta
  BY DEF Deliver, Handle
<1>9. air' = Added(taken, <<p, q>>, <<answer>>) \/ air' = taken
  BY DEF Deliver, Handle, f, l, e, taken, answer
<1>10. UNCHANGED worker \/ worker' = [worker EXCEPT ![p] = job]
  BY DEF Deliver, Handle, f, l, e, job
<1>11. air' \in [Pairs -> Seq(Whole)]
  BY <1>2, <1>4, <1>9
<1>12. CASE UNCHANGED worker
  BY <1>8, <1>11, <1>12, AirAt
<1>13. CASE worker' = [worker EXCEPT ![p] = job]
  BY <1>7, <1>8, <1>11, <1>13, JobAt DEF l
<1> QED
  BY <1>10, <1>12, <1>13

LEMMA DelTimerSyncLinked ==
  ASSUME Typed, Named, InHand, NEW p \in Nodes, DelTimerSync(p)
  PROVE  Named' /\ InHand' /\ IdsSame
<1> DEFINE q == worker[p].peer
<1>1. q \in Near[p]
  BY DEF Typed, DelTimerSync
<1>2. /\ sta' = [sta EXCEPT ![<<p, q>>] = NoStation]
      /\ worker' = [worker EXCEPT ![p] = Idle] /\ UNCHANGED air
  BY DEF DelTimerSync
<1>3. NoStation \in Station /\ NamedAt(NoStation) /\ SameIds(sta[<<p, q>>], NoStation)
  BY DEF NoStation, Station, States, LinkIds, NamedAt, SameIds, Halfway
<1>4. Idle.op = "idle"
  BY DEF Idle
<1> HIDE DEF q
<1> QED
  BY <1>1, <1>2, <1>3, <1>4, LinkedAt DEF Named

LEMMA BlockedNamed ==
  ASSUME Typed, Named, NEW p \in Nodes, NEW q \in Near[p], NEW l,
         l = [sta[<<p, q>>] EXCEPT !.state = "BLOCKED"]
  PROVE  l \in Station /\ NamedAt(l) /\ SameIds(sta[<<p, q>>], l)
<1>1. sta[<<p, q>>] \in Station
  BY PairsFact DEF Typed
<1>2. l \in Station /\ l.state = "BLOCKED"
  BY <1>1, BlockedType
<1> QED
  BY <1>2 DEF NamedAt, SameIds, Halfway

LEMMA UserBlockLinked ==
  ASSUME Typed, Named, InHand, NEW p \in Nodes, NEW q \in Near[p], UserBlock(p, q)
  PROVE  Named' /\ InHand' /\ IdsSame
<1> DEFINE l == [sta[<<p, q>>] EXCEPT !.state = "BLOCKED"]
<1>1. /\ sta' = [sta EXCEPT ![<<p, q>>] = l] /\ worker[p].op = "idle"
      /\ worker' = [worker EXCEPT ![p] = worker[p]] /\ UNCHANGED air
  BY DEF UserBlock, Deactivated, Ready, Typed
<1>2. l \in Station /\ NamedAt(l) /\ SameIds(sta[<<p, q>>], l)
  BY BlockedNamed
<1> HIDE DEF l
<1> QED
  BY <1>1, <1>2, LinkedAt DEF Named

LEMMA DestroyLinked ==
  ASSUME Typed, Named, InHand, NEW p \in Nodes, NEW q \in Near[p], Destroy(p, q)
  PROVE  Named' /\ InHand' /\ IdsSame
<1> DEFINE l == [sta[<<p, q>>] EXCEPT !.state = "BLOCKED"]
           v == [op |-> "destroy", peer |-> q]
           f == FrameOf("CLOSE", p, sta[<<p, q>>])
<1>1. /\ sta' = [sta EXCEPT ![<<p, q>>] = l]
      /\ worker' = [worker EXCEPT ![p] = v]
      /\ air' = Added(air, <<p, q>>, <<f>>)
  BY DEF Destroy, Deactivated, Sent
<1>2. l \in Station /\ NamedAt(l) /\ SameIds(sta[<<p, q>>], l)
  BY BlockedNamed
<1>3. v.peer = q /\ GoesWith(v, l)
  BY DEF GoesWith
<1>4. <<f>> \in Seq(Whole)
  <2>1. f \in Frame
    BY PairsFact, FrameOfType DEF Typed, Kinds
  <2>2. f \in Whole
    BY <2>1, WholeFact
  <2> HIDE DEF f
  <2> QED
    BY <2>2
<1> HIDE DEF l, v, f
<1>5. air' \in [Pairs -> Seq(Whole)]
  BY <1>1, <1>4, PairsFact, AddedType DEF Named, Typed
<1> QED
  BY <1>1, <1>2, <1>3, <1>5, LinkedAt

(* A link is opened, and an established one keeps its id unless the user's *)
(* command comes for it.                                                   *)
LEMMA OpenLinked ==
  ASSUME Typed, Named, InHand, NEW p \in Nodes, NEW q \in Near[p], NEW l \in Station,
         Ready(p), Open(p, q, l), NamedAt(l), l.state # "ESTAB"
  PROVE  Named' /\ InHand' /\ IdsSame
<1> DEFINE opened == [l EXCEPT !.state = "OPN_SNT", !.llid = NewId(p)]
           renamed == [l EXCEPT !.llid = NewId(p)]
           v == [op |-> "send", peer |-> q, send |-> <<"OPEN">>]
<1>1. NewId(p) \in LinkIds /\ NewId(p) # None
  BY NewIdType, IdFact DEF Open, LinkIds
<1>2. /\ opened \in Station /\ renamed \in Station
      /\ opened.state = "OPN_SNT" /\ renamed.state = l.state
      /\ opened.llid = NewId(p) /\ renamed.llid = NewId(p)
      /\ renamed.plid = l.plid
  BY <1>1 DEF Station, States, Halfway
<1>3. NamedAt(opened) /\ NamedAt(renamed)
  BY <1>1, <1>2 DEF NamedAt
<1>4. SameIds(sta[<<p, q>>], opened) /\ SameIds(sta[<<p, q>>], renamed)
  BY <1>2 DEF SameIds
<1>5. v.peer = q /\ GoesWith(v, opened)
  BY <1>1, <1>2 DEF GoesWith
<1>6. UNCHANGED air /\ air \in [Pairs -> Seq(Whole)]
  BY DEF Open, Named
<1>7. \/ sta' = [sta EXCEPT ![<<p, q>>] = opened] /\ worker' = [worker EXCEPT ![p] = v]
      \/ sta' = [sta EXCEPT ![<<p, q>>] = renamed] /\ UNCHANGED worker
  BY DEF Open
<1> HIDE DEF opened, renamed, v
<1>8. CASE sta' = [sta EXCEPT ![<<p, q>>] = opened] /\ worker' = [worker EXCEPT ![p] = v]
  BY <1>2, <1>3, <1>4, <1>5, <1>6, <1>8, LinkedAt
<1>9. CASE sta' = [sta EXCEPT ![<<p, q>>] = renamed] /\ UNCHANGED worker
  <2>1. worker' = [worker EXCEPT ![p] = worker[p]] /\ worker[p].op = "idle"
    BY <1>9 DEF Typed, Ready
  <2> QED
    BY <1>2, <1>3, <1>4, <1>6, <1>9, <2>1, LinkedAt
<1> QED
  BY <1>7, <1>8, <1>9

LEMMA BeaconLinked ==
  ASSUME Typed, Named, InHand, NEW p \in Nodes, NEW q \in Near[p], Beacon(p, q)
  PROVE  Named' /\ InHand' /\ IdsSame
<1> DEFINE l == sta[<<p, q>>]
           m == Found(l)
<1>1. l \in Station /\ NamedAt(l)
  BY PairsFact DEF Typed, Named
<1>2. m \in Station /\ NamedAt(m) /\ SameIds(l, m)
  BY <1>1, FoundType DEF NamedAt, SameIds, Halfway
<1>3. /\ Ready(p)
      /\ \/ m.state = "LISTEN" /\ Open(p, q, m)
         \/ sta' = [sta EXCEPT ![<<p, q>>] = m] /\ UNCHANGED <<worker, air>>
  BY DEF Beacon, Found
<1> HIDE DEF m
<1>4. CASE m.state = "LISTEN" /\ Open(p, q, m)
  BY <1>2, <1>3, <1>4, OpenLinked
<1>5. CASE sta' = [sta EXCEPT ![<<p, q>>] = m] /\ UNCHANGED <<worker, air>>
  <2>1. worker' = [worker EXCEPT ![p] = worker[p]] /\ worker[p].op = "idle"
    BY <1>3, <1>5 DEF Typed, Ready
  <2> QED
    BY <1>2, <1>5, <2>1, LinkedAt DEF Named
<1> QED
  BY <1>3, <1>4, <1>5

LEMMA UserOpenLinked ==
  ASSUME Typed, Named, InHand, "reopen" \notin setting.commands,
         NEW p \in Nodes, NEW q \in Near[p], UserOpen(p, q)
  PROVE  Named' /\ InHand' /\ IdsSame
<1>1. sta[<<p, q>>] \in Station /\ NamedAt(sta[<<p, q>>])
  BY PairsFact DEF Typed, Named
<1>2. sta[<<p, q>>].state \in {"LISTEN", "BLOCKED"} /\ Ready(p) /\ Open(p, q, sta[<<p, q>>])
  BY DEF UserOpen
<1> QED
  BY <1>1, <1>2, OpenLinked

(* The timer's handler. *)
LEMMA TimerSendsLinked ==
  ASSUME Typed, Named, InHand, NEW p \in Nodes, NEW q \in Near[p], TimerSends(p, q)
  PROVE  Named' /\ InHand' /\ IdsSame
<1> DEFINE f == FrameOf(timer[<<p, q>>].handler, p, sta[<<p, q>>])
<1>1. /\ UNCHANGED <<sta, worker>>
      /\ air' = Added(air, <<p, q>>, <<f>>)
      /\ timer[<<p, q>>].handler \in {"OPEN", "CLOSE"}
  BY DEF TimerSends, Sent
<1>2. <<f>> \in Seq(Whole)
  <2>1. f \in Frame
    BY <1>1, PairsFact, FrameOfType DEF Typed, Kinds
  <2>2. f \in Whole
    BY <1>1, <2>1, WholeFact
  <2> HIDE DEF f
  <2> QED
    BY <2>2
<1> HIDE DEF f
<1>3. air' \in [Pairs -> Seq(Whole)]
  BY <1>1, <1>2, PairsFact, AddedType DEF Named, Typed
<1> QED
  BY <1>1, <1>3, AirAt

LEMMA FiresLinked ==
  ASSUME Typed, TimerKept, Named, InHand, NEW p \in Nodes, NEW q \in Near[p], Fires(p, q)
  PROVE  Named' /\ InHand' /\ IdsSame
<1> DEFINE l == sta[<<p, q>>]
<1>1. PICK m \in Station, armed \in BOOLEAN, handler \in {"idle", "OPEN", "CLOSE"} :
        Leaves(<<p, q>>, m, armed, handler) /\ FiredWays(l, m, armed, handler)
  BY FiresWays
<1>2. l \in Station /\ UNCHANGED <<worker, air>> /\ NamedAt(l)
  BY FiresWays, PairsFact DEF Fires, Named
<1>3. sta' = [sta EXCEPT ![<<p, q>>] = m]
  BY <1>1 DEF Leaves
<1>4. \/ m.state = l.state /\ m.llid = l.llid /\ m.plid = l.plid
      \/ m.state = "HOLDING" /\ m.llid = l.llid /\ m.plid = l.plid /\ l.state \in Halfway
      \/ m.state = "LISTEN" /\ m.plid = None
  BY <1>1, <1>2 DEF FiredWays, Restarted, Station, Halfway
<1> HIDE DEF l
<1>5. NamedAt(m) /\ SameIds(l, m)
  BY <1>2, <1>4 DEF NamedAt, SameIds, Halfway
<1>6. \A w : GoesWith(w, l) => GoesWith(w, m)
  BY <1>4 DEF GoesWith
<1>7. worker[p].op # "idle" => \/ worker[p].peer = q /\ GoesWith(worker[p], m)
                               \/ worker[p].peer # q
  BY <1>6 DEF InHand, l
<1>8. worker' = [worker EXCEPT ![p] = worker[p]]
  BY <1>2 DEF Typed
<1> QED
  BY <1>2, <1>3, <1>5, <1>7, <1>8, LinkedAt DEF Named, l

LEMMA CrashLinked ==
  ASSUME Typed, Named, InHand, NEW p \in Nodes, Crash(p) PROVE Named' /\ InHand' /\ IdsSame
<1>1. /\ sta'   = [pq \in Pairs |-> IF pq[1] = p THEN NoStation ELSE sta[pq]]
      /\ worker' = [worker EXCEPT ![p] = Idle]
      /\ air'   = [pq \in Pairs |-> IF pq[2] = p THEN <<>> ELSE air[pq]]
  BY DEF Crash
<1>2. NoStation.state = "NONE" /\ Idle.op = "idle"
  BY DEF NoStation, Idle
<1>3. <<>> \in Seq(Whole) /\ air \in [Pairs -> Seq(Whole)]
  BY DEF Named
<1>4. air' \in [Pairs -> Seq(Whole)]
  BY <1>1, <1>3
<1>5. \A pq \in Pairs : NamedAt(sta'[pq])
  BY <1>1, <1>2 DEF NamedAt, Halfway, Named
<1>6. IdsSame
  BY <1>1, <1>2 DEF IdsSame, SameIds
<1>7. \A n \in Nodes : worker'[n].op # "idle" =>
        n # p /\ worker'[n] = worker[n] /\ <<n, worker[n].peer>> \in Pairs
  BY <1>1, <1>2, PairsFact DEF Typed
<1>8. InHand'
  BY <1>1, <1>7 DEF InHand
<1> QED
  BY <1>4, <1>5, <1>6, <1>8 DEF Named

LEMMA NextLinked ==
  ASSUME UsersLook, IInv, Next PROVE Named' /\ InHand' /\ IdsSame
<1> DEFINE Goal == Named' /\ InHand' /\ IdsSame
<1>1. Sound /\ Typed /\ TimerKept /\ Named /\ InHand /\ setting \in Settings
  BY DEF IInv, Base, Sound, Typed
<1>2. "reopen" \notin setting.commands
  BY <1>1 DEF UsersLook
<1>3. PICK p \in Nodes :
        \/ Store(p) \/ Step(p) \/ Send(p) \/ DelTimerSync(p) \/ Crash(p)
        \/ \E q \in Near[p] :
             \/ Fires(p, q) \/ TimerSends(p, q) \/ Deliver(p, q) \/ Lose(p, q)
             \/ Beacon(p, q) \/ Expires(p, q) \/ UserOpen(p, q) \/ UserBlock(p, q)
             \/ Destroy(p, q)
  BY <1>1, NextCases
<1>4. CASE Store(p)
  BY <1>1, <1>4, StoreLinked
<1>5. CASE Step(p)
  BY <1>1, <1>5, StepLinked
<1>6. CASE Send(p)
  BY <1>1, <1>6, SendLinked
<1>7. CASE DelTimerSync(p)
  BY <1>1, <1>7, DelTimerSyncLinked
<1>8. CASE Crash(p)
  BY <1>1, <1>8, CrashLinked
<1>9. ASSUME NEW q \in Near[p], Fires(p, q) PROVE Goal
  BY <1>1, <1>9, FiresLinked
<1>10. ASSUME NEW q \in Near[p], TimerSends(p, q) PROVE Goal
  BY <1>1, <1>10, TimerSendsLinked
<1>11. ASSUME NEW q \in Near[p], Deliver(p, q) PROVE Goal
  BY <1>1, <1>11, DeliverLinked
<1>12. ASSUME NEW q \in Near[p], Lose(p, q) PROVE Goal
  BY <1>1, <1>12, PairsFact, WholeTaken, AirAt DEF Lose
<1>13. ASSUME NEW q \in Near[p], Beacon(p, q) PROVE Goal
  BY <1>1, <1>13, BeaconLinked
<1>14. ASSUME NEW q \in Near[p], Expires(p, q) PROVE Goal
  BY <1>1, <1>14, AirAt DEF Expires, Named
<1>15. ASSUME NEW q \in Near[p], UserOpen(p, q) PROVE Goal
  BY <1>1, <1>2, <1>15, UserOpenLinked
<1>16. ASSUME NEW q \in Near[p], UserBlock(p, q) PROVE Goal
  BY <1>1, <1>16, UserBlockLinked
<1>17. ASSUME NEW q \in Near[p], Destroy(p, q) PROVE Goal
  BY <1>1, <1>17, DestroyLinked
<1> QED
  BY <1>3, <1>4, <1>5, <1>6, <1>7, <1>8, <1>9, <1>10, <1>11, <1>12, <1>13, <1>14, <1>15,
     <1>16, <1>17

LEMMA StutterLinked ==
  ASSUME IInv, UNCHANGED vars PROVE Named' /\ InHand' /\ IdsSame
<1>1. UNCHANGED <<sta, worker, air>> /\ air \in [Pairs -> Seq(Whole)] /\ Named /\ InHand
  BY DEF vars, IInv, Named
<1> QED
  BY <1>1, AirAt

THEOREM IInvHolds == ASSUME UsersLook PROVE Spec => []IInv
<1>1. Init => IInv
  BY InitBase, InitNamed DEF IInv
<1>2. IInv /\ [Next]_vars => IInv'
  BY NextBase, StutterBase, NextLinked, StutterLinked DEF IInv
<1> QED
  BY <1>1, <1>2, PTL DEF Spec

(* Unless a user opens a link that is there already, a link keeps the ids   *)
(* it was established with: no late OPEN or CONFIRM, and no race between    *)
(* the choice of an event and the timer's handler, changes them.            *)
THEOREM IdsStay == ASSUME UsersLook PROVE Spec => IdsKept
<1> DEFINE Kept == \A pq \in Pairs : sta[pq].state = "ESTAB" /\ sta'[pq].state = "ESTAB" =>
                     sta'[pq].llid = sta[pq].llid /\ sta'[pq].plid = sta[pq].plid
<1>1. IInv /\ [Next]_vars => [Kept]_vars
  <2>1. IInv /\ [Next]_vars => IdsSame
    BY NextLinked, StutterLinked
  <2>2. IdsSame => Kept
    BY DEF IdsSame, SameIds
  <2> QED
    BY <2>1, <2>2
<1>2. Spec => [][Kept]_vars
  BY <1>1, IInvHolds, PTL DEF Spec
<1> QED
  BY <1>2 DEF IdsKept

(* An established link has an id of both nodes, what LinksAgree starts from. *)
THEOREM LinksNamed ==
  ASSUME UsersLook
  PROVE  Spec => [](\A pq \in Pairs : sta[pq].state = "ESTAB" => /\ sta[pq].llid # None
                                                                 /\ sta[pq].plid # None)
<1>1. IInv => \A pq \in Pairs : sta[pq].state = "ESTAB" => /\ sta[pq].llid # None
                                                           /\ sta[pq].plid # None
  BY DEF IInv, Named, NamedAt
<1> QED
  BY <1>1, IInvHolds, PTL

-----------------------------------------------------------------------------
(* What two nodes know of each other. *)

(* What a node is about to do for one of its peers. *)
Job(w, q) == IF w.op # "idle" /\ w.peer = q THEN w ELSE Idle

(* One node is the speaker, with its station m and job v for the other,    *)
(* the listener, with its station l and job u; fs are the frames from the  *)
(* speaker to the listener, gs those on the way back.  The id of m has     *)
(* reached the listener if something shows that it has:                    *)
Reached(m, l, v, u, gs) ==
  \/ l.plid = m.llid
  \/ u.op = "store" /\ u.plid = m.llid
  \/ \E i \in DOMAIN gs : gs[i].plid = m.llid
  \/ m.state \in {"CNF_RCVD", "ESTAB"}
  \/ v.op \in {"store", "fsm"} /\ v.event = "CNF_ACPT"

(* An older id of the speaker is not with the listener or on the way to it. *)
Clean(x, l, u, fs) ==
  /\ l.plid \in {None, x}
  /\ u.op = "store" => u.plid \in {None, x}
  /\ \A i \in DOMAIN fs : fs[i].llid \in {None, x}

(* Frames with older ids are before those with the present one. *)
InTime(x, fs) ==
  \A i, j \in DOMAIN fs : i < j /\ fs[i].llid = x => fs[j].llid \in {None, x}

Told(m, l, v, u, fs, gs) ==
  m.llid # None => InTime(m.llid, fs) /\ (Reached(m, l, v, u, gs) => Clean(m.llid, l, u, fs))

TellsAt(p, q) ==
  Told(sta[<<q, p>>], sta[<<p, q>>], Job(worker[q], p), Job(worker[p], q),
       air[<<q, p>>], air[<<p, q>>])

Agreed ==
  /\ \A p \in Nodes : \A q \in Near[p] : TellsAt(p, q)
  /\ \A pq \in Pairs : sta[pq].state = "NONE" => sta[pq].plid = None

(* Some of the first frames have gone, and some of S have come.            *)
Late(fs, before, S) ==
  \E k \in Nat : \A i \in DOMAIN fs :
    IF i + k <= Len(before) THEN fs[i] = before[i + k] ELSE fs[i] \in S

LEMMA LateSame == ASSUME NEW fs \in Seq(Frame), NEW S PROVE Late(fs, fs, S)
<1>1. 0 \in Nat /\ \A i \in DOMAIN fs : i + 0 = i /\ i <= Len(fs)
  OBVIOUS
<1> QED
  BY <1>1 DEF Late

LEMMA LateTail ==
  ASSUME NEW fs \in Seq(Frame), fs # <<>>, NEW S PROVE Late(Tail(fs), fs, S)
<1>1. 1 \in Nat /\ \A i \in DOMAIN Tail(fs) : i + 1 <= Len(fs) /\ Tail(fs)[i] = fs[i + 1]
  OBVIOUS
<1> QED
  BY <1>1 DEF Late

LEMMA LateNone == ASSUME NEW fs, NEW S PROVE Late(<<>>, fs, S)
<1>1. 0 \in Nat /\ DOMAIN <<>> = {}
  OBVIOUS
<1> QED
  BY <1>1 DEF Late

LEMMA LateAdded ==
  ASSUME setting \in Settings, NEW frames \in [Pairs -> Seq(Frame)], NEW pq \in Pairs,
         NEW sent \in Seq(Frame), NEW S, \A i \in DOMAIN sent : sent[i] \in S
  PROVE  \E fs \in Seq(Frame) :
           Late(fs, frames[pq], S) /\ Added(frames, pq, sent) = [frames EXCEPT ![pq] = fs]
<1> DEFINE f == frames[pq]
           all == f \o sent
           n == setting.frames
           k == Len(all) - n
           part == SubSeq(all, k + 1, Len(all))
<1>1. n \in Nat
  BY MeshPlinkAssumption
<1>2. f \in Seq(Frame)
  OBVIOUS
<1> HIDE DEF f, n
<1>3. /\ all \in Seq(Frame) /\ Len(all) = Len(f) + Len(sent) /\ Len(f) \in Nat /\ Len(all) \in Nat
      /\ \A i \in DOMAIN all : IF i <= Len(f) THEN all[i] = f[i] ELSE all[i] = sent[i - Len(f)]
      /\ \A i \in DOMAIN all : i \in Nat /\ (~(i <= Len(f)) => i - Len(f) \in DOMAIN sent)
  BY <1>2
<1> HIDE DEF all
<1>4. \A i \in DOMAIN all : IF i <= Len(f) THEN all[i] = f[i] ELSE all[i] \in S
  BY <1>3
<1>5. CASE Len(all) <= n
  <2>1. 0 \in Nat /\ \A i \in DOMAIN all : i + 0 = i
    BY <1>3
  <2>2. Late(all, f, S)
    BY <1>4, <2>1 DEF Late
  <2>3. Added(frames, pq, sent) = [frames EXCEPT ![pq] = all]
    BY <1>5 DEF Added, all, f, n
  <2> QED
    BY <1>3, <2>2, <2>3 DEF f
<1>6. CASE ~(Len(all) <= n)
  <2>1. k \in Nat /\ k + 1 \in 1 .. Len(all) + 1
    BY <1>1, <1>3, <1>6
  <2> HIDE DEF k
  <2>2. /\ part \in Seq(Frame)
        /\ \A i \in DOMAIN part : i + k \in DOMAIN all /\ part[i] = all[i + k]
    BY <1>3, <2>1
  <2> HIDE DEF part
  <2>3. Late(part, f, S)
    BY <1>4, <2>1, <2>2 DEF Late
  <2>4. Added(frames, pq, sent) = [frames EXCEPT ![pq] = part]
    BY <1>6 DEF Added, all, f, n, part, k
  <2> QED
    BY <2>2, <2>3, <2>4 DEF f
<1> QED
  BY <1>5, <1>6

(* What is on the way to the listener stays in time, and clean.            *)
LEMMA LateInTime ==
  ASSUME NEW x, NEW before \in Seq(Frame), InTime(x, before), NEW fs \in Seq(Frame), NEW S,
         Late(fs, before, S), \A f \in S : f.llid \in {None, x}
  PROVE  /\ InTime(x, fs)
         /\ (\A i \in DOMAIN before : before[i].llid \in {None, x})
              => \A i \in DOMAIN fs : fs[i].llid \in {None, x}
<1>1. PICK k \in Nat : \A i \in DOMAIN fs :
        IF i + k <= Len(before) THEN fs[i] = before[i + k] ELSE fs[i] \in S
  BY DEF Late
<1>2. \A i \in DOMAIN fs : i \in Nat /\ i >= 1
  OBVIOUS
<1>3. ASSUME NEW i \in DOMAIN fs
      PROVE  \/ i + k \in DOMAIN before /\ fs[i] = before[i + k]
             \/ ~(i + k <= Len(before)) /\ fs[i].llid \in {None, x}
  BY <1>1, <1>2
<1>4. ASSUME NEW i \in DOMAIN fs, NEW j \in DOMAIN fs, i < j, fs[i].llid = x
      PROVE  fs[j].llid \in {None, x}
  <2>1. CASE /\ i + k \in DOMAIN before /\ fs[i] = before[i + k]
             /\ j + k \in DOMAIN before /\ fs[j] = before[j + k]
    <3>1. i + k < j + k
      BY <1>2, <1>4
    <3> QED
      BY <1>4, <2>1, <3>1 DEF InTime
  <2>2. j + k <= Len(before) => i + k <= Len(before)
    BY <1>2, <1>4
  <2> QED
    BY <1>3, <2>1, <2>2
<1> QED
  BY <1>3, <1>4 DEF InTime

LEMMA LateMember ==
  ASSUME NEW before \in Seq(Frame), NEW fs \in Seq(Frame), NEW S, Late(fs, before, S), NEW i \in DOMAIN fs
  PROVE  (\E j \in DOMAIN before : fs[i] = before[j]) \/ fs[i] \in S
<1>1. PICK k \in Nat : \A n \in DOMAIN fs :
        IF n + k <= Len(before) THEN fs[n] = before[n + k] ELSE fs[n] \in S
  BY DEF Late
<1>2. i \in Nat /\ i >= 1 /\ (i + k <= Len(before) => i + k \in DOMAIN before)
  OBVIOUS
<1> QED
  BY <1>1, <1>2

(* The listener forgets, and sends what it has. *)
LEMMA ListenerQuiet ==
  ASSUME NEW m, NEW l, NEW v, NEW u, NEW fs \in Seq(Frame), NEW gs \in Seq(Frame), Told(m, l, v, u, fs, gs),
         NEW l2, l2.plid \in {l.plid, None},
         NEW u2, u2 = u \/ u2.op # "store",
         NEW fs2 \in Seq(Frame), Late(fs2, fs, {}),
         NEW gs2 \in Seq(Frame), NEW S, Late(gs2, gs, S), \A f \in S : f.plid \in {l.plid, None}
  PROVE  Told(m, l2, v, u2, fs2, gs2)
<1> SUFFICES ASSUME m.llid # None
             PROVE  InTime(m.llid, fs2) /\ (Reached(m, l2, v, u2, gs2) => Clean(m.llid, l2, u2, fs2))
  BY DEF Told
<1> DEFINE x == m.llid
<1>1. InTime(x, fs) /\ (Reached(m, l, v, u, gs) => Clean(x, l, u, fs))
  BY DEF Told
<1>2. /\ InTime(x, fs2)
      /\ (\A i \in DOMAIN fs : fs[i].llid \in {None, x})
           => \A i \in DOMAIN fs2 : fs2[i].llid \in {None, x}
  BY <1>1, LateInTime
<1>3. ASSUME NEW i \in DOMAIN gs2, gs2[i].plid = x PROVE Reached(m, l, v, u, gs)
  <2>1. CASE \E j \in DOMAIN gs : gs2[i] = gs[j]
    BY <1>3, <2>1 DEF Reached
  <2>2. CASE gs2[i] \in S
    BY <1>3, <2>2 DEF Reached
  <2> QED
    BY <2>1, <2>2, LateMember
<1>4. ASSUME Reached(m, l2, v, u2, gs2) PROVE Reached(m, l, v, u, gs)
  BY <1>3, <1>4 DEF Reached
<1>5. Clean(x, l, u, fs) => Clean(x, l2, u2, fs2)
  BY <1>2 DEF Clean
<1> QED
  BY <1>1, <1>2, <1>4, <1>5

(* The speaker forgets its id, or keeps it and sends it.                   *)
LEMMA SpeakerQuiet ==
  ASSUME NEW m, NEW l, NEW v, NEW u, NEW fs \in Seq(Frame), NEW gs \in Seq(Frame), Told(m, l, v, u, fs, gs),
         NEW m2, m2.llid \in {m.llid, None},
         m2.state \in {"CNF_RCVD", "ESTAB"} =>
           \/ m.state \in {"CNF_RCVD", "ESTAB"}
           \/ v.op \in {"store", "fsm"} /\ v.event = "CNF_ACPT",
         NEW v2, v2.op \in {"store", "fsm"} /\ v2.event = "CNF_ACPT" =>
                   v.op \in {"store", "fsm"} /\ v.event = "CNF_ACPT",
         NEW fs2 \in Seq(Frame), NEW S, Late(fs2, fs, S), \A f \in S : f.llid \in {m.llid, None},
         NEW gs2 \in Seq(Frame), Late(gs2, gs, {})
  PROVE  Told(m2, l, v2, u, fs2, gs2)
<1> SUFFICES ASSUME m2.llid # None
             PROVE  InTime(m2.llid, fs2) /\ (Reached(m2, l, v2, u, gs2) => Clean(m2.llid, l, u, fs2))
  BY DEF Told
<1> DEFINE x == m.llid
<1>1. m2.llid = x /\ InTime(x, fs) /\ (Reached(m, l, v, u, gs) => Clean(x, l, u, fs))
  BY DEF Told
<1>2. /\ InTime(x, fs2)
      /\ (\A i \in DOMAIN fs : fs[i].llid \in {None, x})
           => \A i \in DOMAIN fs2 : fs2[i].llid \in {None, x}
  <2>1. InTime(x, fs) /\ \A f \in S : f.llid \in {None, x}
    BY <1>1
  <2> HIDE DEF x
  <2> QED
    BY <2>1, LateInTime
<1>3. ASSUME NEW i \in DOMAIN gs2, gs2[i].plid = x PROVE Reached(m, l, v, u, gs)
  BY <1>3, LateMember DEF Reached
<1>4. ASSUME Reached(m2, l, v2, u, gs2) PROVE Reached(m, l, v, u, gs)
  BY <1>1, <1>3, <1>4 DEF Reached
<1>5. Clean(x, l, u, fs) => Clean(x, l, u, fs2)
  BY <1>2 DEF Clean
<1> QED
  BY <1>1, <1>2, <1>4, <1>5

-----------------------------------------------------------------------------
(* Agreement, action by action. *)

Blank(l) == l.state = "NONE" => l.plid = None

(* Only the station, the job and the frames of one pair have changed.      *)
Between(p, q, l, w, fs, gs) ==
  /\ sta' = [sta EXCEPT ![<<p, q>>] = l]
  /\ worker' = [worker EXCEPT ![p] = w]
  /\ \/ w = worker[p]
     \/ /\ worker[p].op # "idle" => worker[p].peer = q
        /\ w.op # "idle" => w.peer = q
  /\ \A pr \in Pairs : air'[pr] = IF pr = <<q, p>> THEN fs
                                  ELSE IF pr = <<p, q>> THEN gs ELSE air[pr]

LEMMA PairAt ==
  ASSUME Typed, Agreed, NEW p \in Nodes, NEW q \in Near[p], NEW l, NEW w, NEW fs, NEW gs,
         Between(p, q, l, w, fs, gs), Blank(l),
         Told(sta[<<q, p>>], l, Job(worker[q], p), Job(w, q), fs, gs),
         Told(l, sta[<<q, p>>], Job(w, q), Job(worker[q], p), gs, fs)
  PROVE  Agreed'
<1>1. q \in Nodes /\ p \in Near[q] /\ p # q /\ <<p, q>> \in Pairs /\ <<q, p>> \in Pairs
  BY PairsFact
<1>2. \A pr \in Pairs : sta'[pr] = IF pr = <<p, q>> THEN l ELSE sta[pr]
  BY DEF Between, Typed
<1>3. \A n \in Nodes : worker'[n] = IF n = p THEN w ELSE worker[n]
  BY DEF Between, Typed
<1>4. ASSUME NEW n \in Nodes, NEW r \in Near[n], ~(n = p /\ r = q)
      PROVE  Job(worker'[n], r) = Job(worker[n], r)
  BY <1>3, <1>4 DEF Between, Job
<1>5. ASSUME NEW n \in Nodes, NEW r \in Near[n] PROVE TellsAt(n, r)'
  <2>1. r \in Nodes /\ n \in Near[r] /\ <<n, r>> \in Pairs /\ <<r, n>> \in Pairs
    BY PairsFact
  <2>2. CASE n = p /\ r = q
    <3>1. /\ sta'[<<r, n>>] = sta[<<q, p>>] /\ sta'[<<n, r>>] = l
          /\ air'[<<r, n>>] = fs /\ air'[<<n, r>>] = gs
      BY <1>1, <1>2, <2>2 DEF Between
    <3>2. Job(worker'[r], n) = Job(worker[q], p) /\ Job(worker'[n], r) = Job(w, q)
      BY <1>1, <1>3, <2>2
    <3> QED
      BY <3>1, <3>2 DEF TellsAt
  <2>3. CASE n = q /\ r = p
    <3>1. /\ sta'[<<r, n>>] = l /\ sta'[<<n, r>>] = sta[<<q, p>>]
          /\ air'[<<r, n>>] = gs /\ air'[<<n, r>>] = fs
      BY <1>1, <1>2, <2>3 DEF Between
    <3>2. Job(worker'[n], r) = Job(worker[q], p) /\ Job(worker'[r], n) = Job(w, q)
      BY <1>1, <1>3, <2>3
    <3> QED
      BY <3>1, <3>2 DEF TellsAt
  <2>4. CASE ~(n = p /\ r = q) /\ ~(n = q /\ r = p)
    <3>1. /\ sta'[<<r, n>>] = sta[<<r, n>>] /\ sta'[<<n, r>>] = sta[<<n, r>>]
          /\ air'[<<r, n>>] = air[<<r, n>>] /\ air'[<<n, r>>] = air[<<n, r>>]
      BY <1>1, <1>2, <2>1, <2>4 DEF Between
    <3>2. Job(worker'[n], r) = Job(worker[n], r) /\ Job(worker'[r], n) = Job(worker[r], n)
      BY <1>4, <2>1, <2>4
    <3> QED
      BY <3>1, <3>2 DEF TellsAt, Agreed
  <2> QED
    BY <2>2, <2>3, <2>4
<1>6. \A pr \in Pairs : sta'[pr].state = "NONE" => sta'[pr].plid = None
  BY <1>2 DEF Agreed, Blank
<1> QED
  BY <1>5, <1>6 DEF Agreed

Confirms(u) == u.op \in {"store", "fsm"} /\ u.event = "CNF_ACPT"

(* A station that keeps its ids or forgets them, and a job that has them   *)
(* from no frame.                                                          *)
Quiet(l, u, l2, u2) ==
  /\ l2.llid \in {l.llid, None} /\ l2.plid \in {l.plid, None}
  /\ Blank(l) => Blank(l2)
  /\ l2.state \in {"CNF_RCVD", "ESTAB"} => l.state \in {"CNF_RCVD", "ESTAB"} \/ Confirms(u)
  /\ u2 = u \/ u2.op \notin {"store", "fsm"}

Carried(l) == {f \in Frame : f.llid \in {l.llid, None} /\ f.plid \in {l.plid, None}}

LEMMA QuietAt ==
  ASSUME Typed, Agreed, NEW p \in Nodes, NEW q \in Near[p], NEW l, NEW w,
         NEW fs \in Seq(Frame), NEW gs \in Seq(Frame), Between(p, q, l, w, fs, gs),
         Quiet(sta[<<p, q>>], Job(worker[p], q), l, Job(w, q)),
         Late(fs, air[<<q, p>>], {}), Late(gs, air[<<p, q>>], Carried(sta[<<p, q>>]))
  PROVE  Agreed'
<1> DEFINE k == sta[<<p, q>>]
           m == sta[<<q, p>>]
           u == Job(worker[p], q)
           u2 == Job(w, q)
           v == Job(worker[q], p)
           f0 == air[<<q, p>>]
           g0 == air[<<p, q>>]
           S == Carried(k)
<1>1. q \in Nodes /\ p \in Near[q] /\ <<p, q>> \in Pairs /\ <<q, p>> \in Pairs
  BY PairsFact
<1>2. f0 \in Seq(Frame) /\ g0 \in Seq(Frame)
  BY <1>1 DEF Typed
<1>3. Told(m, k, v, u, f0, g0) /\ Told(k, m, u, v, g0, f0)
  BY <1>1 DEF Agreed, TellsAt
<1>4. \A f \in S : f.llid \in {k.llid, None} /\ f.plid \in {k.plid, None}
  BY DEF Carried
<1>5. Quiet(k, u, l, u2) /\ Late(fs, f0, {}) /\ Late(gs, g0, S)
  OBVIOUS
<1>6. Blank(k)
  BY <1>1 DEF Agreed, Blank
<1> HIDE DEF k, m, u, u2, v, f0, g0, S
<1>7. Told(m, l, v, u2, fs, gs)
  BY <1>2, <1>3, <1>4, <1>5, ListenerQuiet DEF Quiet
<1>8. Told(l, m, u2, v, gs, fs)
  <2>1. l.state \in {"CNF_RCVD", "ESTAB"} =>
          \/ k.state \in {"CNF_RCVD", "ESTAB"}
          \/ u.op \in {"store", "fsm"} /\ u.event = "CNF_ACPT"
    BY <1>5 DEF Quiet, Confirms
  <2>2. u2.op \in {"store", "fsm"} /\ u2.event = "CNF_ACPT" =>
          u.op \in {"store", "fsm"} /\ u.event = "CNF_ACPT"
    BY <1>5 DEF Quiet
  <2>3. l.llid \in {k.llid, None}
    BY <1>5 DEF Quiet
  <2> QED
    BY <1>2, <1>3, <1>4, <1>5, <2>1, <2>2, <2>3, SpeakerQuiet
<1>9. Blank(l)
  BY <1>5, <1>6 DEF Quiet
<1> QED
  BY <1>7, <1>8, <1>9, PairAt DEF m, v, u2

(* A new id is with no peer, in no frame and in no hand. *)
LEMMA FreshFact ==
  ASSUME Typed, NEW p \in Nodes, NEW q \in Near[p], IdLeft(p)
  PROVE  LET x == NewId(p) IN
         /\ x # None /\ sta[<<q, p>>].plid # x
         /\ \A i \in DOMAIN air[<<p, q>>] : air[<<p, q>>][i].llid # x
         /\ \A i \in DOMAIN air[<<q, p>>] : air[<<q, p>>][i].plid # x
         /\ Job(worker[q], p).op = "store" => Job(worker[q], p).plid # x
<1> DEFINE x == NewId(p)
           A == {{sta[<<p, n>>].llid, sta[<<n, p>>].plid} : n \in Near[p]}
           B == {{air[<<p, n>>][i].llid : i \in DOMAIN air[<<p, n>>]} : n \in Near[p]}
           C == {{air[<<n, p>>][i].plid : i \in DOMAIN air[<<n, p>>]} : n \in Near[p]}
           D == {worker[n].plid : n \in {r \in Near[p] : worker[r].op = "store" /\ worker[r].peer = p}}
<1>1. x \in Ids /\ x \notin UNION A /\ x \notin UNION B /\ x \notin UNION C /\ x \notin D
  <2>1. Remembered(p) = (UNION A) \cup (UNION B) \cup (UNION C) \cup D
    BY DEF Remembered
  <2>2. x \in Ids \ Remembered(p)
    BY DEF NewId, IdLeft
  <2> HIDE DEF A, B, C, D, x
  <2> QED
    BY <2>1, <2>2
<1>2. x # None
  BY <1>1, IdFact
<1> HIDE DEF x
<1>3. sta[<<q, p>>].plid # x
  <2>1. {sta[<<p, q>>].llid, sta[<<q, p>>].plid} \in A
    OBVIOUS
  <2> HIDE DEF A
  <2> QED
    BY <1>1, <2>1
<1>4. \A i \in DOMAIN air[<<p, q>>] : air[<<p, q>>][i].llid # x
  <2>1. {air[<<p, q>>][i].llid : i \in DOMAIN air[<<p, q>>]} \in B
    OBVIOUS
  <2> HIDE DEF B
  <2> QED
    BY <1>1, <2>1
<1>5. \A i \in DOMAIN air[<<q, p>>] : air[<<q, p>>][i].plid # x
  <2>1. {air[<<q, p>>][i].plid : i \in DOMAIN air[<<q, p>>]} \in C
    OBVIOUS
  <2> HIDE DEF C
  <2> QED
    BY <1>1, <2>1
<1>6. worker[q].op = "store" /\ worker[q].peer = p => worker[q].plid # x
  <2> SUFFICES ASSUME worker[q].op = "store", worker[q].peer = p PROVE worker[q].plid # x
    OBVIOUS
  <2>1. q \in {n \in Near[p] : worker[n].op = "store" /\ worker[n].peer = p}
    OBVIOUS
  <2>2. worker[q].plid \in D
    BY <2>1
  <2> QED
    BY <1>1, <2>2
<1>7. Job(worker[q], p).op = "store" => Job(worker[q], p).plid # x
  BY <1>6 DEF Job, Idle
<1> QED
  BY <1>2, <1>3, <1>4, <1>5, <1>7 DEF x

(* A link gets a new id of this node's. *)
LEMMA RenamedAt ==
  ASSUME Typed, Agreed, NEW p \in Nodes, NEW q \in Near[p], NEW l, NEW w, IdLeft(p),
         Between(p, q, l, w, air[<<q, p>>], air[<<p, q>>]),
         l.llid = NewId(p), l.plid = sta[<<p, q>>].plid, Blank(l),
         l.state \notin {"CNF_RCVD", "ESTAB"}, Job(w, q).op \notin {"store", "fsm"}
  PROVE  Agreed'
<1> DEFINE k == sta[<<p, q>>]
           m == sta[<<q, p>>]
           u == Job(worker[p], q)
           u2 == Job(w, q)
           v == Job(worker[q], p)
           f0 == air[<<q, p>>]
           g0 == air[<<p, q>>]
           x == NewId(p)
<1>1. q \in Nodes /\ p \in Near[q] /\ <<p, q>> \in Pairs /\ <<q, p>> \in Pairs
  BY PairsFact
<1>2. f0 \in Seq(Frame) /\ g0 \in Seq(Frame)
  BY <1>1 DEF Typed
<1>3. Told(m, k, v, u, f0, g0)
  BY <1>1 DEF Agreed, TellsAt
<1>4. /\ x # None /\ m.plid # x
      /\ \A i \in DOMAIN g0 : g0[i].llid # x
      /\ \A i \in DOMAIN f0 : f0[i].plid # x
      /\ v.op = "store" => v.plid # x
  BY FreshFact
<1>5. /\ l.llid = x /\ l.plid = k.plid /\ l.state \notin {"CNF_RCVD", "ESTAB"}
      /\ u2.op \notin {"store", "fsm"}
  OBVIOUS
<1> HIDE DEF k, m, u, u2, v, f0, g0, x
<1>6. Told(m, l, v, u2, f0, g0)
  BY <1>3, <1>5 DEF Told, Reached, Clean
<1>7. Told(l, m, u2, v, g0, f0)
  <2>1. ~Reached(l, m, u2, v, f0)
    BY <1>4, <1>5 DEF Reached
  <2>2. InTime(x, g0)
    BY <1>4 DEF InTime
  <2> QED
    BY <1>5, <2>1, <2>2 DEF Told
<1> QED
  BY <1>6, <1>7, PairAt DEF m, v, u2, f0, g0

(* Steps that leave the air alone. *)
LEMMA AirLeft ==
  ASSUME Typed, NEW p \in Nodes, NEW q \in Near[p], NEW l, NEW w, UNCHANGED air,
         sta' = [sta EXCEPT ![<<p, q>>] = l], worker' = [worker EXCEPT ![p] = w],
         \/ w = worker[p]
         \/ (worker[p].op # "idle" => worker[p].peer = q) /\ (w.op # "idle" => w.peer = q)
  PROVE  /\ Between(p, q, l, w, air[<<q, p>>], air[<<p, q>>])
         /\ air[<<q, p>>] \in Seq(Frame) /\ air[<<p, q>>] \in Seq(Frame)
         /\ \A S : Late(air[<<q, p>>], air[<<q, p>>], S) /\ Late(air[<<p, q>>], air[<<p, q>>], S)
<1>1. <<p, q>> \in Pairs /\ <<q, p>> \in Pairs
  BY PairsFact
<1>2. air[<<q, p>>] \in Seq(Frame) /\ air[<<p, q>>] \in Seq(Frame)
  BY <1>1 DEF Typed
<1> QED
  BY <1>2, LateSame DEF Between

(* Steps that send frames with the ids of the station. *)
LEMMA SentAt ==
  ASSUME Typed, NEW p \in Nodes, NEW q \in Near[p], NEW l, NEW w, NEW sent \in Seq(Frame),
         \A i \in DOMAIN sent : sent[i] \in Carried(sta[<<p, q>>]),
         air' = Added(air, <<p, q>>, sent),
         sta' = [sta EXCEPT ![<<p, q>>] = l], worker' = [worker EXCEPT ![p] = w],
         \/ w = worker[p]
         \/ (worker[p].op # "idle" => worker[p].peer = q) /\ (w.op # "idle" => w.peer = q)
  PROVE  \E gs \in Seq(Frame) :
           /\ Between(p, q, l, w, air[<<q, p>>], gs) /\ air[<<q, p>>] \in Seq(Frame)
           /\ Late(air[<<q, p>>], air[<<q, p>>], {})
           /\ Late(gs, air[<<p, q>>], Carried(sta[<<p, q>>]))
<1>1. <<p, q>> \in Pairs /\ <<q, p>> \in Pairs /\ <<p, q>> # <<q, p>>
  BY PairsFact
<1>2. air[<<q, p>>] \in Seq(Frame) /\ air \in [Pairs -> Seq(Frame)] /\ setting \in Settings
  BY <1>1 DEF Typed
<1> DEFINE S == Carried(sta[<<p, q>>])
           pq == <<p, q>>
<1>3. PICK gs \in Seq(Frame) : Late(gs, air[<<p, q>>], S) /\ air' = [air EXCEPT ![<<p, q>>] = gs]
  <2>1. pq \in Pairs /\ \A i \in DOMAIN sent : sent[i] \in S
    BY <1>1
  <2> HIDE DEF S, pq
  <2>2. \E gs \in Seq(Frame) :
          Late(gs, air[pq], S) /\ Added(air, pq, sent) = [air EXCEPT ![pq] = gs]
    BY <1>2, <2>1, LateAdded
  <2> QED
    BY <2>2 DEF pq
<1>4. Between(p, q, l, w, air[<<q, p>>], gs)
  BY <1>1, <1>2, <1>3 DEF Between
<1> QED
  BY <1>2, <1>3, <1>4, LateSame

LEMMA FrameOfCarried ==
  ASSUME Typed, NEW p \in Nodes, NEW l \in Station, NEW type \in Kinds
  PROVE  FrameOf(type, p, l) \in Carried(l)
<1>1. FrameOf(type, p, l) \in Frame
  BY FrameOfType
<1> QED
  BY <1>1 DEF Carried, FrameOf

(* The state machine leaves the ids, or gives a link a new one. *)
LEMMA WaysQuiet ==
  ASSUME NEW p, NEW l \in Station, NEW armed, NEW event, NEW s, Ways(p, l, armed, event, s)
  PROVE  \/ /\ l.state = "LISTEN" /\ event = "OPN_ACPT"
            /\ s.sta.llid = NewId(p) /\ s.sta.plid = l.plid /\ s.sta.state = "OPN_RCVD"
         \/ /\ s.sta.llid \in {l.llid, None} /\ s.sta.plid \in {l.plid, None}
            /\ Blank(l) => Blank(s.sta)
            /\ s.sta.state \in {"CNF_RCVD", "ESTAB"} =>
                 l.state \in {"CNF_RCVD", "ESTAB"} \/ event = "CNF_ACPT"
<1> DEFINE Goal ==
      \/ /\ l.state = "LISTEN" /\ event = "OPN_ACPT"
         /\ s.sta.llid = NewId(p) /\ s.sta.plid = l.plid /\ s.sta.state = "OPN_RCVD"
      \/ /\ s.sta.llid \in {l.llid, None} /\ s.sta.plid \in {l.plid, None}
         /\ Blank(l) => Blank(s.sta)
         /\ s.sta.state \in {"CNF_RCVD", "ESTAB"} =>
              l.state \in {"CNF_RCVD", "ESTAB"} \/ event = "CNF_ACPT"
<1> USE DEF Station, Blank
<1>1. CASE s = Stay(Restarted(l), l.state = "LISTEN" /\ armed, <<>>)
  BY <1>1 DEF Stay, Restarted
<1>2. CASE /\ l.state = "LISTEN" /\ event = "OPN_ACPT"
           /\ s = Goto([l EXCEPT !.llid = NewId(p)], "OPN_RCVD", TRUE, <<"OPEN", "CONFIRM">>)
  BY <1>2 DEF Goto, Stay
<1>3. CASE s = Close(l)
  BY <1>3 DEF Close, Goto, Stay
<1>4. CASE s = Goto(l, "OPN_RCVD", armed, <<"CONFIRM">>)
  BY <1>4 DEF Goto, Stay
<1>5. CASE event = "CNF_ACPT" /\ s = Goto(l, "CNF_RCVD", TRUE, <<>>)
  BY <1>5 DEF Goto, Stay
<1>6. CASE event = "CNF_ACPT" /\ s = Establish(l, <<>>)
  BY <1>6 DEF Establish, Goto, Stay
<1>7. CASE l.state = "CNF_RCVD" /\ s = Establish(l, <<"CONFIRM">>)
  BY <1>7 DEF Establish, Goto, Stay
<1>8. CASE s = LeaveEstab(l)
  BY <1>8 DEF LeaveEstab, Close, Goto, Stay
<1>9. ASSUME NEW send, s = Stay(l, armed, send) PROVE Goal
  BY <1>9 DEF Stay
<1> QED
  BY <1>1, <1>2, <1>3, <1>4, <1>5, <1>6, <1>7, <1>8, <1>9 DEF Ways

LEMMA StepAgreed ==
  ASSUME Typed, Agreed, NEW p \in Nodes, Step(p) PROVE Agreed'
<1> DEFINE w == worker[p]
           q == w.peer
           pq == <<p, q>>
           l == sta[pq]
           s == Fsm(p, l, timer[pq].armed, w.event)
           v == IF s.send = <<>> THEN Idle
                ELSE [op |-> "send", peer |-> q, send |-> s.send]
<1>1. w.op = "fsm" /\ q \in Near[p] /\ pq \in Pairs
  BY PairsFact DEF Typed, Step
<1>2. l \in Station /\ timer[pq].armed \in BOOLEAN
  BY <1>1 DEF Typed, Timer
<1>3. Ways(p, l, timer[pq].armed, w.event, s)
  BY <1>2, FsmWays
<1>4. /\ sta' = [sta EXCEPT ![<<p, q>>] = s.sta] /\ worker' = [worker EXCEPT ![p] = v]
      /\ UNCHANGED air
      /\ l.state = "LISTEN" /\ w.event = "OPN_ACPT" => IdLeft(p)
  BY DEF Step
<1>5. /\ v.op \in {"idle", "send"} /\ (v.op # "idle" => v.peer = q)
      /\ Job(v, q).op \notin {"store", "fsm"} /\ Job(w, q) = w
  BY <1>1 DEF Idle, Job
<1> HIDE DEF w, q, l, s, v, pq
<1>6. /\ Between(p, q, s.sta, v, air[<<q, p>>], air[<<p, q>>])
      /\ air[<<q, p>>] \in Seq(Frame) /\ air[<<p, q>>] \in Seq(Frame)
      /\ \A S : Late(air[<<q, p>>], air[<<q, p>>], S) /\ Late(air[<<p, q>>], air[<<p, q>>], S)
  BY <1>1, <1>4, <1>5, AirLeft DEF w, q
<1>7. Blank(l)
  BY <1>1 DEF Agreed, Blank, l
<1>8. CASE /\ l.state = "LISTEN" /\ w.event = "OPN_ACPT"
           /\ s.sta.llid = NewId(p) /\ s.sta.plid = l.plid /\ s.sta.state = "OPN_RCVD"
  BY <1>1, <1>4, <1>5, <1>6, <1>8, RenamedAt DEF Blank, l, pq
<1>9. CASE /\ s.sta.llid \in {l.llid, None} /\ s.sta.plid \in {l.plid, None}
           /\ Blank(l) => Blank(s.sta)
           /\ s.sta.state \in {"CNF_RCVD", "ESTAB"} =>
                l.state \in {"CNF_RCVD", "ESTAB"} \/ w.event = "CNF_ACPT"
  <2>1. Quiet(l, Job(w, q), s.sta, Job(v, q))
    BY <1>1, <1>5, <1>9 DEF Quiet, Confirms
  <2> QED
    BY <1>1, <1>6, <2>1, QuietAt DEF l, pq, w
<1> QED
  BY <1>2, <1>3, <1>8, <1>9, WaysQuiet

LEMMA SendAgreed ==
  ASSUME Typed, Agreed, NEW p \in Nodes, Send(p) PROVE Agreed'
<1> DEFINE w == worker[p]
           q == w.peer
           l == sta[<<p, q>>]
           sent == [i \in DOMAIN w.send |-> FrameOf(w.send[i], p, l)]
<1>1. w \in Jobs /\ w.op = "send" /\ q \in Near[p] /\ <<p, q>> \in Pairs
  BY PairsFact DEF Typed, Send
<1>2. w.send \in Seq(Kinds) /\ l \in Station
  BY <1>1, JobsFact DEF Typed
<1>3. sent \in Seq(Frame) /\ \A i \in DOMAIN sent : sent[i] \in Carried(l)
  <2>1. \A i \in DOMAIN w.send : w.send[i] \in Kinds
    BY <1>2
  <2> QED
    BY <1>2, <2>1, FramesType, FrameOfCarried
<1>4. /\ air' = Added(air, <<p, q>>, sent) /\ worker' = [worker EXCEPT ![p] = Idle]
      /\ sta' = [sta EXCEPT ![<<p, q>>] = l]
  BY DEF Send, Sent, Typed
<1>5. Idle.op = "idle" /\ (w.op # "idle" => w.peer = q) /\ Job(Idle, q) = Idle
  BY DEF Idle, Job
<1>6. Quiet(l, Job(w, q), l, Job(Idle, q))
  <2>1. Job(Idle, q).op = "idle"
    BY <1>5
  <2> QED
    BY <2>1 DEF Quiet
<1> HIDE DEF w, q, l, sent
<1>7. PICK gs \in Seq(Frame) :
        /\ Between(p, q, l, Idle, air[<<q, p>>], gs) /\ air[<<q, p>>] \in Seq(Frame)
        /\ Late(air[<<q, p>>], air[<<q, p>>], {})
        /\ Late(gs, air[<<p, q>>], Carried(l))
  BY <1>1, <1>3, <1>4, <1>5, SentAt DEF l, w
<1> QED
  BY <1>1, <1>6, <1>7, QuietAt DEF l, w

LEMMA TimerSendsAgreed ==
  ASSUME Typed, Agreed, NEW p \in Nodes, NEW q \in Near[p], TimerSends(p, q) PROVE Agreed'
<1> DEFINE l == sta[<<p, q>>]
           f == FrameOf(timer[<<p, q>>].handler, p, l)
<1>1. l \in Station
  BY PairsFact DEF Typed
<1>2. /\ air' = Added(air, <<p, q>>, <<f>>) /\ timer[<<p, q>>].handler \in Kinds
      /\ sta' = [sta EXCEPT ![<<p, q>>] = l] /\ worker' = [worker EXCEPT ![p] = worker[p]]
  BY DEF TimerSends, Sent, Typed, Kinds
<1>3. f \in Carried(l)
  BY <1>1, <1>2, FrameOfCarried
<1> HIDE DEF l, f
<1>4. <<f>> \in Seq(Frame) /\ \A i \in DOMAIN <<f>> : <<f>>[i] \in Carried(l)
  BY <1>3 DEF Carried
<1>5. PICK gs \in Seq(Frame) :
        /\ Between(p, q, l, worker[p], air[<<q, p>>], gs) /\ air[<<q, p>>] \in Seq(Frame)
        /\ Late(air[<<q, p>>], air[<<q, p>>], {})
        /\ Late(gs, air[<<p, q>>], Carried(l))
  BY <1>2, <1>4, SentAt DEF l
<1>6. Quiet(l, Job(worker[p], q), l, Job(worker[p], q))
  BY DEF Quiet
<1> QED
  BY <1>5, <1>6, QuietAt DEF l

LEMMA DestroyAgreed ==
  ASSUME Typed, Agreed, NEW p \in Nodes, NEW q \in Near[p], Destroy(p, q) PROVE Agreed'
<1> DEFINE l == sta[<<p, q>>]
           m == [l EXCEPT !.state = "BLOCKED"]
           v == [op |-> "destroy", peer |-> q]
           f == FrameOf("CLOSE", p, l)
<1>1. l \in Station
  BY PairsFact DEF Typed
<1>2. /\ air' = Added(air, <<p, q>>, <<f>>) /\ worker[p].op = "idle"
      /\ sta' = [sta EXCEPT ![<<p, q>>] = m] /\ worker' = [worker EXCEPT ![p] = v]
  BY DEF Destroy, Deactivated, Sent, Ready
<1>3. f \in Carried(l)
  BY <1>1, FrameOfCarried DEF Kinds
<1>4. v.op = "destroy" /\ v.peer = q /\ Job(v, q) = v
  BY DEF Job
<1>5. m.llid = l.llid /\ m.plid = l.plid /\ m.state = "BLOCKED"
  BY <1>1 DEF Station
<1>6. Quiet(l, Job(worker[p], q), m, Job(v, q))
  <2>1. Job(v, q).op = "destroy"
    BY <1>4
  <2> HIDE DEF m
  <2> QED
    BY <1>5, <2>1 DEF Quiet, Blank
<1> HIDE DEF l, f, m, v
<1>7. <<f>> \in Seq(Frame) /\ \A i \in DOMAIN <<f>> : <<f>>[i] \in Carried(l)
  BY <1>3 DEF Carried
<1>8. PICK gs \in Seq(Frame) :
        /\ Between(p, q, m, v, air[<<q, p>>], gs) /\ air[<<q, p>>] \in Seq(Frame)
        /\ Late(air[<<q, p>>], air[<<q, p>>], {})
        /\ Late(gs, air[<<p, q>>], Carried(l))
  BY <1>2, <1>4, <1>7, SentAt DEF l
<1> QED
  BY <1>6, <1>8, QuietAt DEF l

(* Steps of one station that leave the air alone and give no id. *)
LEMMA StationQuiet ==
  ASSUME Typed, Agreed, NEW p \in Nodes, NEW q \in Near[p], NEW l, NEW w, UNCHANGED air,
         sta' = [sta EXCEPT ![<<p, q>>] = l], worker' = [worker EXCEPT ![p] = w],
         \/ w = worker[p]
         \/ (worker[p].op # "idle" => worker[p].peer = q) /\ (w.op # "idle" => w.peer = q),
         Quiet(sta[<<p, q>>], Job(worker[p], q), l, Job(w, q))
  PROVE  Agreed'
<1>1. /\ Between(p, q, l, w, air[<<q, p>>], air[<<p, q>>])
      /\ air[<<q, p>>] \in Seq(Frame) /\ air[<<p, q>>] \in Seq(Frame)
      /\ \A S : Late(air[<<q, p>>], air[<<q, p>>], S) /\ Late(air[<<p, q>>], air[<<p, q>>], S)
  BY AirLeft
<1> QED
  BY <1>1, QuietAt

LEMMA DelTimerSyncAgreed ==
  ASSUME Typed, Agreed, NEW p \in Nodes, DelTimerSync(p) PROVE Agreed'
<1> DEFINE q == worker[p].peer
<1>1. q \in Near[p]
  BY DEF Typed, DelTimerSync
<1>2. /\ sta' = [sta EXCEPT ![<<p, q>>] = NoStation]
      /\ worker' = [worker EXCEPT ![p] = Idle] /\ UNCHANGED air
  BY DEF DelTimerSync
<1>3. Idle.op = "idle" /\ Job(Idle, q).op = "idle"
  BY DEF Idle, Job
<1>4. Quiet(sta[<<p, q>>], Job(worker[p], q), NoStation, Job(Idle, q))
  BY <1>3 DEF Quiet, NoStation, Blank
<1> HIDE DEF q
<1>5. worker[p].op # "idle" => worker[p].peer = q
  BY DEF q
<1> QED
  BY <1>1, <1>2, <1>3, <1>4, <1>5, StationQuiet

LEMMA UserBlockAgreed ==
  ASSUME Typed, Agreed, NEW p \in Nodes, NEW q \in Near[p], UserBlock(p, q) PROVE Agreed'
<1> DEFINE l == sta[<<p, q>>]
           m == [l EXCEPT !.state = "BLOCKED"]
<1>1. sta' = [sta EXCEPT ![<<p, q>>] = m] /\ worker' = [worker EXCEPT ![p] = worker[p]]
      /\ UNCHANGED air
  BY DEF UserBlock, Deactivated, Typed
<1>2. l \in Station
  BY PairsFact DEF Typed
<1>3. m.llid = l.llid /\ m.plid = l.plid /\ m.state = "BLOCKED"
  BY <1>2 DEF Station
<1> HIDE DEF m
<1>4. Quiet(l, Job(worker[p], q), m, Job(worker[p], q))
  BY <1>3 DEF Quiet, Blank
<1> HIDE DEF l
<1> QED
  BY <1>1, <1>4, StationQuiet DEF l

(* The timer's handler. *)
LEMMA FiresAgreed ==
  ASSUME Typed, TimerKept, Agreed, NEW p \in Nodes, NEW q \in Near[p], Fires(p, q)
  PROVE  Agreed'
<1> DEFINE l == sta[<<p, q>>]
<1>1. PICK m \in Station, armed \in BOOLEAN, handler \in {"idle", "OPEN", "CLOSE"} :
        Leaves(<<p, q>>, m, armed, handler) /\ FiredWays(l, m, armed, handler)
  BY FiresWays
<1>2. l \in Station /\ l.state # "NONE" /\ UNCHANGED <<worker, air>>
  BY FiresWays DEF Fires
<1>3. sta' = [sta EXCEPT ![<<p, q>>] = m] /\ worker' = [worker EXCEPT ![p] = worker[p]]
  BY <1>1, <1>2 DEF Leaves, Typed
<1>4. /\ m.llid \in {l.llid, None} /\ m.plid \in {l.plid, None}
      /\ m.state = l.state \/ m.state \in {"HOLDING", "LISTEN"}
  BY <1>1, <1>2 DEF FiredWays, Restarted, Station
<1>5. Quiet(l, Job(worker[p], q), m, Job(worker[p], q))
  BY <1>2, <1>4 DEF Quiet, Blank
<1> HIDE DEF l
<1> QED
  BY <1>2, <1>3, <1>5, StationQuiet DEF l

(* A link is opened. *)
LEMMA OpenAgreed ==
  ASSUME Typed, Agreed, NEW p \in Nodes, NEW q \in Near[p], NEW l \in Station,
         Ready(p), Open(p, q, l), l.state \in {"LISTEN", "BLOCKED"}, l.plid = sta[<<p, q>>].plid
  PROVE  Agreed'
<1> DEFINE opened == [l EXCEPT !.state = "OPN_SNT", !.llid = NewId(p)]
           v == [op |-> "send", peer |-> q, send |-> <<"OPEN">>]
<1>1. /\ IdLeft(p) /\ UNCHANGED air
      /\ sta' = [sta EXCEPT ![<<p, q>>] = opened] /\ worker' = [worker EXCEPT ![p] = v]
  BY DEF Open
<1>2. opened.state = "OPN_SNT" /\ opened.llid = NewId(p) /\ opened.plid = sta[<<p, q>>].plid
  BY DEF Station
<1>3. v.op = "send" /\ v.peer = q /\ Job(v, q).op = "send" /\ worker[p].op = "idle"
  BY DEF Job, Ready
<1> HIDE DEF opened, v
<1>4. Between(p, q, opened, v, air[<<q, p>>], air[<<p, q>>])
  BY <1>1, <1>3, AirLeft
<1> QED
  BY <1>1, <1>2, <1>3, <1>4, RenamedAt DEF Blank

LEMMA BeaconAgreed ==
  ASSUME Typed, Agreed, NEW p \in Nodes, NEW q \in Near[p], Beacon(p, q) PROVE Agreed'
<1> DEFINE l == sta[<<p, q>>]
           m == Found(l)
<1>1. l \in Station
  BY PairsFact DEF Typed
<1>2. m \in Station /\ m.state # "NONE" /\ m.llid = l.llid /\ m.plid = l.plid
  BY <1>1, FoundType
<1>3. m.state \in {"CNF_RCVD", "ESTAB"} => l.state = m.state
  BY DEF Found
<1>4. /\ Ready(p)
      /\ \/ m.state = "LISTEN" /\ Open(p, q, m)
         \/ sta' = [sta EXCEPT ![<<p, q>>] = m] /\ UNCHANGED <<worker, air>>
  BY DEF Beacon, Found
<1> HIDE DEF m, l
<1>5. CASE m.state = "LISTEN" /\ Open(p, q, m)
  BY <1>2, <1>4, <1>5, OpenAgreed DEF l
<1>6. CASE sta' = [sta EXCEPT ![<<p, q>>] = m] /\ UNCHANGED <<worker, air>>
  <2>1. worker' = [worker EXCEPT ![p] = worker[p]]
    BY <1>6 DEF Typed
  <2>2. Quiet(l, Job(worker[p], q), m, Job(worker[p], q))
    BY <1>2, <1>3 DEF Quiet, Blank
  <2> QED
    BY <1>6, <2>1, <2>2, StationQuiet DEF l
<1> QED
  BY <1>4, <1>5, <1>6

LEMMA UserOpenAgreed ==
  ASSUME Typed, Agreed, "reopen" \notin setting.commands,
         NEW p \in Nodes, NEW q \in Near[p], UserOpen(p, q)
  PROVE  Agreed'
<1>1. sta[<<p, q>>] \in Station
  BY PairsFact DEF Typed
<1>2. sta[<<p, q>>].state \in {"LISTEN", "BLOCKED"} /\ Ready(p) /\ Open(p, q, sta[<<p, q>>])
  BY DEF UserOpen
<1> QED
  BY <1>1, <1>2, OpenAgreed

(* A frame is lost. *)
LEMMA LoseAgreed ==
  ASSUME Typed, Agreed, NEW p \in Nodes, NEW q \in Near[p], Lose(q, p) PROVE Agreed'
<1>1. <<p, q>> \in Pairs /\ <<q, p>> \in Pairs /\ <<p, q>> # <<q, p>>
  BY PairsFact
<1> DEFINE l == sta[<<p, q>>]
           f0 == air[<<q, p>>]
           g0 == air[<<p, q>>]
<1>2. f0 \in Seq(Frame) /\ g0 \in Seq(Frame) /\ f0 # <<>>
  BY <1>1 DEF Typed, Lose
<1>3. Tail(f0) \in Seq(Frame) /\ Late(Tail(f0), f0, {}) /\ Late(g0, g0, Carried(l))
  BY <1>2, LateTail, LateSame
<1>4. /\ air' = [air EXCEPT ![<<q, p>>] = Tail(f0)]
      /\ sta' = [sta EXCEPT ![<<p, q>>] = l] /\ worker' = [worker EXCEPT ![p] = worker[p]]
  BY DEF Lose, Typed
<1> HIDE DEF l
<1>5. Between(p, q, l, worker[p], Tail(f0), g0)
  BY <1>1, <1>4 DEF Between, Typed
<1>6. Quiet(l, Job(worker[p], q), l, Job(worker[p], q))
  BY DEF Quiet
<1> QED
  BY <1>2, <1>3, <1>5, <1>6, QuietAt DEF l

(* The id of a frame is stored. *)
LEMMA StoreAgreed ==
  ASSUME Typed, Agreed, NEW p \in Nodes, Store(p) PROVE Agreed'
<1> DEFINE w == worker[p]
           q == w.peer
           k == sta[<<p, q>>]
           m == sta[<<q, p>>]
           v == Job(worker[q], p)
           f0 == air[<<q, p>>]
           g0 == air[<<p, q>>]
           n == Found(k)
           l == IF w.event = "OPN_ACPT" \/ n.plid = None THEN [n EXCEPT !.plid = w.plid] ELSE n
           x == [w EXCEPT !.op = "fsm"]
<1>1. /\ w.op = "store" /\ w \in Jobs /\ q \in Near[p] /\ q \in Nodes /\ p \in Near[q]
      /\ <<p, q>> \in Pairs /\ <<q, p>> \in Pairs
  BY PairsFact DEF Typed, Store
<1>2. k \in Station /\ f0 \in Seq(Frame) /\ g0 \in Seq(Frame)
  BY <1>1 DEF Typed
<1>3. /\ sta' = [sta EXCEPT ![<<p, q>>] = l] /\ worker' = [worker EXCEPT ![p] = x]
      /\ UNCHANGED air
  BY DEF Store, Found
<1>4. x = [op |-> "fsm", peer |-> w.peer, event |-> w.event, plid |-> w.plid]
  BY <1>1, JobsFact
<1>5. x.op = "fsm" /\ x.peer = q /\ x.event = w.event /\ Job(x, q) = x /\ Job(w, q) = w
  BY <1>1, <1>4 DEF Job
<1>6. /\ l.llid = k.llid /\ l.plid \in {k.plid, w.plid}
      /\ l.state # "NONE" /\ (l.state \in {"CNF_RCVD", "ESTAB"} => k.state = l.state)
  BY <1>2 DEF Found, Station
<1>7. Told(m, k, v, w, f0, g0) /\ Told(k, m, w, v, g0, f0)
  BY <1>1, <1>5 DEF Agreed, TellsAt
<1>8. Late(f0, f0, {}) /\ Late(g0, g0, {})
  BY <1>2, LateSame
<1> HIDE DEF w, q, k, m, v, f0, g0, n, l, x
<1>9. Told(m, l, v, x, f0, g0)
  BY <1>1, <1>5, <1>6, <1>7 DEF Told, Reached, Clean
<1>10. Told(l, m, x, v, g0, f0)
  BY <1>1, <1>5, <1>6, <1>7 DEF Told, Reached
<1>11. Between(p, q, l, x, f0, g0)
  BY <1>1, <1>3, <1>5, AirLeft DEF w, q, f0, g0
<1>12. Blank(l)
  BY <1>6 DEF Blank
<1> QED
  BY <1>1, <1>5, <1>9, <1>10, <1>11, <1>12, PairAt DEF m, v, f0, g0

(* The frame that an accepted event came from has the peer's id. *)
LEMMA AcceptFact ==
  ASSUME Sound, NEW p \in Nodes, NEW l \in Station, Blank(l), NEW f \in Frame,
         Event(p, l, f) \in Accepting
  PROVE  l.plid \in {None, f.llid}
<1>1. Event(p, l, f) = "CNF_ACPT" => ~Other(l, f)
  BY DEF Event
<1>2. CASE Event(p, l, f) = "CNF_ACPT"
  BY <1>1, <1>2 DEF Other
<1>3. CASE Event(p, l, f) = "OPN_ACPT"
  BY <1>3, EventFact DEF Blank
<1> QED
  BY <1>2, <1>3 DEF Accepting

(* What is known of the frames that a node has still to get, and of the one *)
(* it takes.                                                               *)
LEMMA TakenFact ==
  ASSUME NEW x, NEW fs \in Seq(Frame), fs # <<>>, InTime(x, fs)
  PROVE  /\ Tail(fs) \in Seq(Frame) /\ InTime(x, Tail(fs))
         /\ Head(fs) = fs[1] /\ 1 \in DOMAIN fs
         /\ \A i \in DOMAIN Tail(fs) : \E j \in DOMAIN fs : Tail(fs)[i] = fs[j]
         /\ Head(fs).llid = x => \A i \in DOMAIN Tail(fs) : Tail(fs)[i].llid \in {None, x}
<1>1. /\ Tail(fs) \in Seq(Frame) /\ Head(fs) = fs[1] /\ 1 \in DOMAIN fs
      /\ \A i \in DOMAIN Tail(fs) : /\ i \in Nat /\ i + 1 \in DOMAIN fs /\ 1 < i + 1
                                    /\ Tail(fs)[i] = fs[i + 1]
  OBVIOUS
<1>2. InTime(x, Tail(fs))
  <2> SUFFICES ASSUME NEW i \in DOMAIN Tail(fs), NEW j \in DOMAIN Tail(fs), i < j, Tail(fs)[i].llid = x
               PROVE  Tail(fs)[j].llid \in {None, x}
    BY DEF InTime
  <2>1. i + 1 < j + 1
    BY <1>1
  <2> QED
    BY <1>1, <2>1 DEF InTime
<1> QED
  BY <1>1, <1>2 DEF InTime

(* The listener takes a frame: it stores the id later. *)
LEMMA ListenerTakes ==
  ASSUME NEW m, NEW l, NEW v, NEW u, NEW fs \in Seq(Frame), NEW gs, fs # <<>>,
         Told(m, l, v, u, fs, gs),
         NEW u2, u2.op = "store" => /\ u2.plid = Head(fs).llid
                                    /\ l.plid \in {None, Head(fs).llid}
  PROVE  Told(m, l, v, u2, Tail(fs), gs)
<1> SUFFICES ASSUME m.llid # None
             PROVE  /\ InTime(m.llid, Tail(fs))
                    /\ Reached(m, l, v, u2, gs) => Clean(m.llid, l, u2, Tail(fs))
  BY DEF Told
<1> DEFINE x == m.llid
<1>1. InTime(x, fs) /\ (Reached(m, l, v, u, gs) => Clean(x, l, u, fs))
  BY DEF Told
<1>2. /\ InTime(x, Tail(fs)) /\ Head(fs) = fs[1] /\ 1 \in DOMAIN fs
      /\ \A i \in DOMAIN Tail(fs) : \E j \in DOMAIN fs : Tail(fs)[i] = fs[j]
      /\ Head(fs).llid = x => \A i \in DOMAIN Tail(fs) : Tail(fs)[i].llid \in {None, x}
  BY <1>1, TakenFact
<1>3. CASE Reached(m, l, v, u, gs)
  <2>1. Clean(x, l, u, fs)
    BY <1>1, <1>3
  <2>2. u2.op = "store" => u2.plid \in {None, x}
    BY <1>2, <2>1 DEF Clean
  <2>3. \A i \in DOMAIN Tail(fs) : Tail(fs)[i].llid \in {None, x}
    BY <1>2, <2>1 DEF Clean
  <2> QED
    BY <1>2, <2>1, <2>2, <2>3 DEF Clean
<1>4. CASE ~Reached(m, l, v, u, gs) /\ Reached(m, l, v, u2, gs)
  <2>1. u2.op = "store" /\ u2.plid = x
    BY <1>4 DEF Reached
  <2> QED
    BY <1>2, <2>1 DEF Clean
<1> QED
  BY <1>2, <1>3, <1>4

(* It answers that it does not take the frame, and knows nothing of it. *)
LEMMA ListenerRefuses ==
  ASSUME NEW m, NEW l, NEW v, NEW u, NEW fs \in Seq(Frame), NEW gs \in Seq(Frame), fs # <<>>,
         Told(m, l, v, u, fs, gs), l.plid = None, u.op # "store",
         NEW gs2 \in Seq(Frame), NEW f, f.plid = Head(fs).llid, Late(gs2, gs, {f})
  PROVE  Told(m, l, v, u, Tail(fs), gs2)
<1> SUFFICES ASSUME m.llid # None
             PROVE  /\ InTime(m.llid, Tail(fs))
                    /\ Reached(m, l, v, u, gs2) => Clean(m.llid, l, u, Tail(fs))
  BY DEF Told
<1> DEFINE x == m.llid
<1>1. InTime(x, fs) /\ (Reached(m, l, v, u, gs) => Clean(x, l, u, fs))
  BY DEF Told
<1>2. /\ InTime(x, Tail(fs))
      /\ \A i \in DOMAIN Tail(fs) : \E j \in DOMAIN fs : Tail(fs)[i] = fs[j]
      /\ Head(fs).llid = x => \A i \in DOMAIN Tail(fs) : Tail(fs)[i].llid \in {None, x}
  BY <1>1, TakenFact
<1>3. CASE Reached(m, l, v, u, gs)
  <2>1. Clean(x, l, u, fs)
    BY <1>1, <1>3
  <2> QED
    BY <1>2, <2>1 DEF Clean
<1>4. CASE ~Reached(m, l, v, u, gs) /\ Reached(m, l, v, u, gs2)
  <2>1. PICK i \in DOMAIN gs2 : gs2[i].plid = x
    BY <1>4 DEF Reached
  <2>2. ~(\E j \in DOMAIN gs : gs2[i] = gs[j])
    BY <1>4, <2>1 DEF Reached
  <2>3. gs2[i] = f
    BY <2>2, LateMember
  <2> QED
    BY <1>2, <2>1, <2>3 DEF Clean
<1> QED
  BY <1>2, <1>3, <1>4

(* The node that takes a frame is a speaker too. *)
LEMMA SpeakerTakes ==
  ASSUME NEW m, NEW l, NEW v, NEW u, NEW fs, NEW gs \in Seq(Frame), gs # <<>>,
         Told(m, l, v, u, fs, gs),
         NEW v2, Confirms(v2) => Head(gs).plid = m.llid
  PROVE  Told(m, l, v2, u, fs, Tail(gs))
<1>1. /\ Head(gs) = gs[1] /\ 1 \in DOMAIN gs
      /\ \A i \in DOMAIN Tail(gs) : i + 1 \in DOMAIN gs /\ Tail(gs)[i] = gs[i + 1]
  OBVIOUS
<1>2. Reached(m, l, v2, u, Tail(gs)) => Reached(m, l, v, u, gs)
  BY <1>1 DEF Reached, Confirms
<1> QED
  BY <1>2 DEF Told

LEMMA DeliverAgreed ==
  ASSUME Sound, Agreed, NEW p \in Nodes, NEW q \in Near[p], Deliver(p, q) PROVE Agreed'
<1> USE DEF Sound
<1> DEFINE f0 == air[<<q, p>>]
           g0 == air[<<p, q>>]
           f == Head(f0)
           l == sta[<<p, q>>]
           m == sta[<<q, p>>]
           u == worker[p]
           v == Job(worker[q], p)
           e == Event(p, l, f)
           taken == [air EXCEPT ![<<q, p>>] = Tail(@)]
           answer == [type |-> "CLOSE", llid |-> None, plid |-> f.llid, mesh |-> mesh[p]]
           job == [op |-> IF e \in Accepting THEN "store" ELSE "fsm",
                   peer |-> q, event |-> e, plid |-> f.llid]
<1>1. /\ <<p, q>> \in Pairs /\ <<q, p>> \in Pairs /\ <<p, q>> # <<q, p>>
      /\ q \in Nodes /\ p \in Near[q]
  BY PairsFact
<1>2. f0 \in Seq(Frame) /\ g0 \in Seq(Frame) /\ f0 # <<>> /\ l \in Station
  BY <1>1 DEF Typed, Deliver
<1>3. f \in Frame /\ Tail(f0) \in Seq(Frame)
  BY <1>2
<1>4. u.op = "idle" /\ Job(u, q).op = "idle"
  BY DEF Deliver, Ready, Job, Idle
<1>5. Told(m, l, v, Job(u, q), f0, g0) /\ Told(l, m, Job(u, q), v, g0, f0) /\ Blank(l)
  BY <1>1 DEF Agreed, TellsAt, Blank
<1>6. sta' = [sta EXCEPT ![<<p, q>>] = l]
  BY DEF Deliver, Handle, Typed
<1>7. \/ l.state = "NONE" /\ air' = Added(taken, <<p, q>>, <<answer>>) /\ UNCHANGED worker
      \/ air' = taken /\ UNCHANGED worker
      \/ air' = taken /\ worker' = [worker EXCEPT ![p] = job]
  BY DEF Deliver, Handle, Accepting
<1>8. taken \in [Pairs -> Seq(Frame)]
      /\ \A pr \in Pairs : taken[pr] = IF pr = <<q, p>> THEN Tail(f0) ELSE air[pr]
  BY <1>1, <1>3 DEF Typed
<1>9. job.op \in {"store", "fsm"} /\ job.peer = q /\ Job(job, q) = job
      /\ (job.op = "store" => job.plid = f.llid /\ e \in Accepting) /\ job.event = e
  BY DEF Job
<1>10. answer \in Frame /\ answer.llid = None /\ answer.plid = f.llid
  BY <1>1, <1>3 DEF Frame, LinkIds, Typed
<1> HIDE DEF f0, g0, f, l, m, u, v, e, taken, answer, job
<1>11. CASE l.state = "NONE" /\ air' = Added(taken, <<p, q>>, <<answer>>) /\ UNCHANGED worker
  <2>1. <<answer>> \in Seq(Frame) /\ \A i \in DOMAIN <<answer>> : <<answer>>[i] \in {answer}
    BY <1>10
  <2> DEFINE pq == <<p, q>>
             S == {answer}
             sent == <<answer>>
  <2>2. PICK gs \in Seq(Frame) : Late(gs, taken[pq], S) /\ Added(taken, pq, sent) = [taken EXCEPT ![pq] = gs]
    <3>1. pq \in Pairs /\ setting \in Settings /\ sent \in Seq(Frame)
            /\ \A i \in DOMAIN sent : sent[i] \in S
      BY <1>1, <2>1 DEF Typed
    <3> HIDE DEF pq, S, sent
    <3> QED
      BY <1>8, <3>1, LateAdded
  <2>3. Late(gs, g0, {answer})
    BY <1>1, <1>8, <2>2 DEF g0
  <2>4. Between(p, q, l, u, Tail(f0), gs)
    <3>1. \A pr \in Pairs : air'[pr] = IF pr = <<q, p>> THEN Tail(f0)
                                      ELSE IF pr = <<p, q>> THEN gs ELSE air[pr]
      BY <1>1, <1>8, <1>11, <2>2
    <3>2. worker' = [worker EXCEPT ![p] = u]
      BY <1>11 DEF u, Typed
    <3> QED
      BY <1>6, <3>1, <3>2 DEF Between, u
  <2>5. Told(m, l, v, Job(u, q), Tail(f0), gs)
    BY <1>2, <1>4, <1>5, <1>10, <1>11, <2>3, ListenerRefuses DEF Blank, f
  <2>6. Told(l, m, Job(u, q), v, gs, Tail(f0))
    <3>1. Late(Tail(f0), f0, {})
      BY <1>2, LateTail
    <3>2. \A x \in {answer} : x.llid \in {l.llid, None}
      BY <1>10
    <3> DEFINE j == Job(u, q)
               s == {answer}
               ft == Tail(f0)
    <3>3. /\ f0 \in Seq(Frame) /\ g0 \in Seq(Frame) /\ ft \in Seq(Frame)
          /\ Told(l, m, j, v, g0, f0) /\ Late(ft, f0, {}) /\ Late(gs, g0, s)
          /\ \A x \in s : x.llid \in {l.llid, None}
      BY <1>2, <1>3, <1>5, <2>3, <3>1, <3>2
    <3> HIDE DEF j, s, ft
    <3>4. Told(l, m, j, v, gs, ft)
      BY <3>3, SpeakerQuiet
    <3> QED
      BY <3>4 DEF j, ft
  <2> QED
    BY <1>5, <2>4, <2>5, <2>6, PairAt DEF m, v
<1>12. CASE air' = taken /\ UNCHANGED worker
  <2>1. Between(p, q, l, u, Tail(f0), g0)
    <3>1. \A pr \in Pairs : air'[pr] = IF pr = <<q, p>> THEN Tail(f0)
                                      ELSE IF pr = <<p, q>> THEN g0 ELSE air[pr]
      BY <1>8, <1>12 DEF g0
    <3>2. worker' = [worker EXCEPT ![p] = u]
      BY <1>12 DEF u, Typed
    <3> QED
      BY <1>6, <3>1, <3>2 DEF Between, u
  <2>2. Late(Tail(f0), f0, {}) /\ Late(g0, g0, Carried(l))
    BY <1>2, LateTail, LateSame
  <2>3. Quiet(l, Job(u, q), l, Job(u, q))
    BY DEF Quiet
  <2> QED
    BY <1>2, <1>3, <2>1, <2>2, <2>3, QuietAt DEF l, u, f0, g0
<1>13. CASE air' = taken /\ worker' = [worker EXCEPT ![p] = job]
  <2>1. Between(p, q, l, job, Tail(f0), g0)
    <3>1. \A pr \in Pairs : air'[pr] = IF pr = <<q, p>> THEN Tail(f0)
                                      ELSE IF pr = <<p, q>> THEN g0 ELSE air[pr]
      BY <1>8, <1>13 DEF g0
    <3> QED
      BY <1>4, <1>6, <1>9, <1>13, <3>1 DEF Between, u
  <2>2. e \in Accepting => l.plid \in {None, f.llid}
    BY <1>2, <1>3, <1>5, AcceptFact DEF e
  <2>3. e = "CNF_ACPT" => f.plid = l.llid
    BY <1>2, <1>3, EventFact DEF e
  <2>4. Told(m, l, v, job, Tail(f0), g0)
    BY <1>2, <1>5, <1>9, <2>2, ListenerTakes DEF f
  <2>5. Told(l, m, job, v, g0, Tail(f0))
    BY <1>2, <1>5, <1>9, <2>3, SpeakerTakes DEF f, Confirms
  <2> QED
    BY <1>5, <1>9, <2>1, <2>4, <2>5, PairAt DEF m, v
<1> QED
  BY <1>7, <1>11, <1>12, <1>13

(* A node is restarted: it has forgotten everything. *)
LEMMA CrashAgreed ==
  ASSUME Typed, Agreed, NEW p \in Nodes, Crash(p) PROVE Agreed'
<1>1. /\ sta'   = [pq \in Pairs |-> IF pq[1] = p THEN NoStation ELSE sta[pq]]
      /\ worker' = [worker EXCEPT ![p] = Idle]
      /\ air'   = [pq \in Pairs |-> IF pq[2] = p THEN <<>> ELSE air[pq]]
  BY DEF Crash
<1>2. /\ NoStation.state = "NONE" /\ NoStation.plid = None /\ NoStation.llid = None
      /\ Idle.op = "idle"
  BY DEF NoStation, Idle
<1>3. \A pq \in Pairs : sta'[pq].state = "NONE" => sta'[pq].plid = None
  BY <1>1, <1>2 DEF Agreed
<1>4. ASSUME NEW n \in Nodes, NEW r \in Near[n] PROVE TellsAt(n, r)'
  <2> DEFINE m == sta[<<r, n>>]
             l == sta[<<n, r>>]
             v == Job(worker[r], n)
             u == Job(worker[n], r)
             fs == air[<<r, n>>]
             gs == air[<<n, r>>]
  <2>1. r \in Nodes /\ n \in Near[r] /\ n # r /\ <<n, r>> \in Pairs /\ <<r, n>> \in Pairs
    BY PairsFact
  <2>2. fs \in Seq(Frame) /\ gs \in Seq(Frame) /\ Told(m, l, v, u, fs, gs)
    BY <2>1 DEF Typed, Agreed, TellsAt
  <2>3. \A i \in Nodes : worker'[i] = IF i = p THEN Idle ELSE worker[i]
    BY <1>1 DEF Typed
  <2>4. CASE r = p
    <3>1. sta'[<<r, n>>].llid = None
      BY <1>1, <1>2, <2>1, <2>4
    <3> QED
      BY <3>1 DEF TellsAt, Told
  <2>5. CASE n = p
    <3>1. /\ sta'[<<r, n>>] = m /\ sta'[<<n, r>>] = NoStation
          /\ air'[<<r, n>>] = <<>> /\ air'[<<n, r>>] = gs
      BY <1>1, <2>1, <2>5
    <3>2. Job(worker'[r], n) = v /\ Job(worker'[n], r).op = "idle"
      BY <1>2, <2>1, <2>3, <2>5 DEF Job
    <3> DEFINE u2 == Job(worker'[n], r)
    <3>3. Late(<<>>, fs, {}) /\ Late(gs, gs, {}) /\ <<>> \in Seq(Frame)
      BY <2>2, LateNone, LateSame
    <3> HIDE DEF m, l, v, u, fs, gs, u2
    <3>4. u2.op # "store"
      BY <3>2 DEF u2
    <3> DEFINE l2 == NoStation
               none == <<>>
               s == {}
    <3>5. l2.plid = None /\ none \in Seq(Frame) /\ Late(none, fs, s) /\ Late(gs, gs, s) /\ s = {}
      BY <1>2, <3>3
    <3> HIDE DEF l2, none, s
    <3>6. Told(m, l2, v, u2, none, gs)
      BY <2>2, <3>4, <3>5, ListenerQuiet
    <3>7. Told(m, NoStation, v, u2, <<>>, gs)
      BY <3>6 DEF l2, none
    <3> QED
      BY <3>1, <3>2, <3>7 DEF TellsAt, u2
  <2>6. CASE r # p /\ n # p
    <3>1. /\ sta'[<<r, n>>] = m /\ sta'[<<n, r>>] = l
          /\ air'[<<r, n>>] = fs /\ air'[<<n, r>>] = gs
          /\ worker'[r] = worker[r] /\ worker'[n] = worker[n]
      BY <1>1, <2>1, <2>3, <2>6
    <3> QED
      BY <2>2, <3>1 DEF TellsAt
  <2> QED
    BY <2>4, <2>5, <2>6
<1> QED
  BY <1>3, <1>4 DEF Agreed

LEMMA InitAgreed == Init => Agreed
<1> SUFFICES ASSUME Init PROVE Agreed
  OBVIOUS
<1>1. \A pq \in Pairs : sta[pq].llid = None /\ sta[pq].plid = None
  BY DEF Init, NoStation
<1>2. \A p \in Nodes : \A q \in Near[p] : TellsAt(p, q)
  BY <1>1, PairsFact DEF TellsAt, Told
<1> QED
  BY <1>1, <1>2 DEF Agreed

LEMMA SameAgreed ==
  ASSUME Agreed, UNCHANGED <<sta, worker, air>> PROVE Agreed'
BY DEF Agreed, TellsAt

LEMMA NextAgreed ==
  ASSUME UsersLook, IInv, Agreed, Next PROVE Agreed'
<1>1. Sound /\ Typed /\ TimerKept /\ setting \in Settings
  BY DEF IInv, Base, Sound, Typed
<1>2. "reopen" \notin setting.commands
  BY <1>1 DEF UsersLook
<1>3. PICK p \in Nodes :
        \/ Store(p) \/ Step(p) \/ Send(p) \/ DelTimerSync(p) \/ Crash(p)
        \/ \E q \in Near[p] :
             \/ Fires(p, q) \/ TimerSends(p, q) \/ Deliver(p, q) \/ Lose(p, q)
             \/ Beacon(p, q) \/ Expires(p, q) \/ UserOpen(p, q) \/ UserBlock(p, q)
             \/ Destroy(p, q)
  BY <1>1, NextCases
<1>4. CASE Store(p)
  BY <1>1, <1>4, StoreAgreed
<1>5. CASE Step(p)
  BY <1>1, <1>5, StepAgreed
<1>6. CASE Send(p)
  BY <1>1, <1>6, SendAgreed
<1>7. CASE DelTimerSync(p)
  BY <1>1, <1>7, DelTimerSyncAgreed
<1>8. CASE Crash(p)
  BY <1>1, <1>8, CrashAgreed
<1>9. ASSUME NEW q \in Near[p], Fires(p, q) PROVE Agreed'
  BY <1>1, <1>9, FiresAgreed
<1>10. ASSUME NEW q \in Near[p], TimerSends(p, q) PROVE Agreed'
  BY <1>1, <1>10, TimerSendsAgreed
<1>11. ASSUME NEW q \in Near[p], Deliver(p, q) PROVE Agreed'
  BY <1>1, <1>11, DeliverAgreed
<1>12. ASSUME NEW q \in Near[p], Lose(p, q) PROVE Agreed'
  BY <1>1, <1>12, PairsFact, LoseAgreed
<1>13. ASSUME NEW q \in Near[p], Beacon(p, q) PROVE Agreed'
  BY <1>1, <1>13, BeaconAgreed
<1>14. ASSUME NEW q \in Near[p], Expires(p, q) PROVE Agreed'
  BY <1>14, SameAgreed DEF Expires
<1>15. ASSUME NEW q \in Near[p], UserOpen(p, q) PROVE Agreed'
  BY <1>1, <1>2, <1>15, UserOpenAgreed
<1>16. ASSUME NEW q \in Near[p], UserBlock(p, q) PROVE Agreed'
  BY <1>1, <1>16, UserBlockAgreed
<1>17. ASSUME NEW q \in Near[p], Destroy(p, q) PROVE Agreed'
  BY <1>1, <1>17, DestroyAgreed
<1> QED
  BY <1>3, <1>4, <1>5, <1>6, <1>7, <1>8, <1>9, <1>10, <1>11, <1>12, <1>13, <1>14, <1>15,
     <1>16, <1>17

(* Two nodes that both have the link up mean the same one: an established   *)
(* end shows that each id has reached the other node, after which nothing   *)
(* older is with it or on the way to it, in spite of restarts, losses and   *)
(* the timer's handler.                                                    *)
THEOREM BothAgree == ASSUME UsersLook PROVE Spec => []LinksAgree
<1>1. Init => Agreed
  BY InitAgreed
<1>2. IInv /\ Agreed /\ [Next]_vars => Agreed'
  <2>1. Agreed /\ UNCHANGED vars => Agreed'
    BY SameAgreed DEF vars
  <2> QED
    BY <2>1, NextAgreed
<1>3. IInv /\ Agreed => LinksAgree
  <2> SUFFICES ASSUME IInv, Agreed, NEW pq \in Pairs, sta[pq].state = "ESTAB"
               PROVE  LET m == sta[<<pq[2], pq[1]>>]
                      IN  /\ sta[pq].llid # None /\ sta[pq].plid # None
                          /\ m.state = "ESTAB" => sta[pq].llid = m.plid /\ sta[pq].plid = m.llid
    BY DEF LinksAgree
  <2>1. PICK p \in Nodes, q \in Nodes : pq = <<p, q>> /\ q \in Near[p]
    BY DEF Pairs
  <2>2. q \in Nodes /\ p \in Near[q] /\ <<p, q>> \in Pairs /\ <<q, p>> \in Pairs
    BY <2>1, PairsFact
  <2> DEFINE l == sta[<<p, q>>]
             m == sta[<<q, p>>]
  <2>3. TellsAt(p, q) /\ TellsAt(q, p)
    BY <2>1, <2>2 DEF Agreed
  <2>4. l.state = "ESTAB" => l.llid # None /\ l.plid # None
    BY <2>2 DEF IInv, Named, NamedAt
  <2>5. m.state = "ESTAB" => m.llid # None /\ m.plid # None
    BY <2>2 DEF IInv, Named, NamedAt
  <2>6. l.state = "ESTAB"
    BY <2>1
  <2>7. ASSUME m.state = "ESTAB" PROVE l.llid = m.plid /\ l.plid = m.llid
    <3> HIDE DEF l, m
    <3>1. l.llid # None => m.plid \in {None, l.llid}
      BY <2>3, <2>6 DEF TellsAt, Told, Reached, Clean, l, m
    <3>2. m.llid # None => l.plid \in {None, m.llid}
      BY <2>3, <2>7 DEF TellsAt, Told, Reached, Clean, l, m
    <3> QED
      BY <2>4, <2>5, <2>6, <2>7, <3>1, <3>2
  <2> QED
    BY <2>1, <2>4, <2>6, <2>7
<1> QED
  BY <1>1, <1>2, <1>3, IInvHolds, PTL DEF Spec
=============================================================================
