---------------------------- MODULE MC_OffChannel ----------------------------
(* Instances of OffChannel for TLC. *)
EXTENDS OffChannel

CONSTANTS i1, i2, c0, c1, r1, r2, r3

(* Two ROCs that can be combined and one that cannot. *)
MCIfaceOf == [r \in Rocs |-> IF r = r3 THEN i2 ELSE i1]
MCChanOf  == [r \in Rocs |-> IF r = r3 THEN c0 ELSE c1]

(* A scan of another channel, and one of the operating channel that        *)
(* mac80211 asks for itself.                                               *)
MCRequests ==
  {[user |-> TRUE, iface |-> i1, channels |-> <<c1>>],
   [user |-> FALSE, iface |-> i2, channels |-> <<c0>>]}

(* The same with a scan of two channels. *)
MCLongRequests ==
  {[user |-> TRUE, iface |-> i1, channels |-> <<c1, c0>>],
   [user |-> FALSE, iface |-> i2, channels |-> <<c0>>]}

(* All in software, all in hardware, and one of the two in hardware. *)
Soft(events)    == [scan |-> FALSE, roc |-> FALSE, emulate |-> TRUE, events |-> events]
Hard(events)    == [scan |-> TRUE, roc |-> TRUE, emulate |-> FALSE, events |-> events]
HwScan(events)  == [Soft(events) EXCEPT !.scan = TRUE]
HwRocs(events)  == [Soft(events) EXCEPT !.roc = TRUE]

MCDrivers ==
  {Soft({"poll", "delay"}), Soft({"restart"}), Soft({"race"}), Soft({"purge", "hasty"}),
   Hard({"restart"}), Hard({"delay"}), Hard({"hasty"}), Hard({"purge"}),
   HwScan({"poll"}), HwRocs({"poll"})}

MCCalmDrivers ==
  {Soft({"poll"}), Soft({"delay"}), Soft({"restart"}), Hard({"restart"}), HwRocs({})}

MCPurged  == {Soft({"purge"})}
MCDelayed == {Hard({"delay"})}
=============================================================================
