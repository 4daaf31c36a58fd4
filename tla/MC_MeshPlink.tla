---------------------------- MODULE MC_MeshPlink ----------------------------
(* Instances of MeshPlink for TLC: two nodes, or node a between two nodes  *)
(* that do not hear one another.                                           *)
EXTENDS MeshPlink, TLC

CONSTANTS a, b, c

MCNear == (a :> {b, c}) @@ (b :> {a}) @@ (c :> {a})

MCPair == (a :> {b}) @@ (b :> {a})

Both == {<<a, b>>, <<b, a>>}

(* Room for both links, one retry, and one frame in each direction. *)
Plain == [hears |-> Both, racy |-> {}, early |-> TRUE, links |-> [p \in Nodes |-> 2],
          retries |-> 1, commands |-> {}, meshes |-> {1}, frames |-> 1, crashes |-> 0]

(* Users open, block and delete stations, b being the one that waits. *)
Commanded == [Plain EXCEPT !.hears = {<<a, b>>}, !.commands = {"open", "block", "delete"}]

(* The timer's handler of a and its worker overtake one another. *)
Racy == [Plain EXCEPT !.hears = {<<a, b>>}, !.racy = {a}, !.commands = {"delete"}]

(* Nodes that differ in their mesh configuration, and a restart. *)
Mixed == [Plain EXCEPT !.meshes = {1, 2}, !.crashes = 1]

(* Two frames on the way in each direction, and a restart. *)
Queued == [Plain EXCEPT !.frames = 2, !.retries = 0, !.crashes = 1]

(* a opens to b and c, and has room for one link. *)
Star == [Plain EXCEPT !.hears = {<<a, b>>, <<a, c>>}, !.early = FALSE,
                      !.links = [p \in Nodes |-> 1], !.retries = 0]

(* The system is suspended while a link is on its way. *)
Suspended == [Plain EXCEPT !.hears = {<<a, b>>}, !.commands = {"suspend"}, !.retries = 0]

MCSafety == {Commanded, Racy, Mixed, Queued, Star, Suspended}

MCSuspended == {Suspended}

(* A restart between two nodes with room, and with the last link taken. *)
MCRestart == {[Plain EXCEPT !.crashes = 1, !.early = FALSE, !.frames = 2]}
MCFull    == {[Plain EXCEPT !.crashes = 1, !.early = FALSE, !.links = [p \in Nodes |-> 1]]}
=============================================================================
