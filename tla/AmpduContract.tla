---------------------------- MODULE AmpduContract ----------------------------
(***************************************************************************)
(* What mac80211 promises a driver about one TID (the documentation of TX  *)
(* A-MPDU aggregation, agg-tx.c lines 13-57): sessions one after the       *)
(* other, each started, then made operational at most once and only when   *)
(* the driver is ready, then stopped, with aggregated frames in between    *)
(* and at no other time.                                                   *)
(***************************************************************************)

VARIABLES
  phase,      \* how far the driver's session has come
  inflight    \* an aggregated frame is on its way into the driver

contractVars == <<phase, inflight>>

ContractInit == phase = "idle" /\ inflight = FALSE

(* IEEE80211_AMPDU_TX_START, accepted: ready at once or later. *)
Start ==
  /\ phase = "idle" /\ phase' \in {"starting", "ready"}
  /\ UNCHANGED inflight

(* The driver reports that it is ready. *)
Ready == phase = "starting" /\ phase' = "ready" /\ UNCHANGED inflight

(* IEEE80211_AMPDU_TX_OPERATIONAL *)
Operational == phase = "ready" /\ phase' = "operational" /\ UNCHANGED inflight

(* An aggregated frame is passed down; it arrives. *)
PassFrame == phase = "operational" /\ ~inflight /\ inflight' = TRUE /\ UNCHANGED phase
Arrive    == inflight /\ inflight' = FALSE /\ UNCHANGED phase

(* IEEE80211_AMPDU_TX_STOP_CONT or _FLUSH, at any time of a session but    *)
(* never with an aggregated frame under way.                               *)
Stop ==
  /\ phase \in {"starting", "ready", "operational"} /\ ~inflight
  /\ phase' \in {"stopping", "flushed"}
  /\ UNCHANGED inflight

(* IEEE80211_AMPDU_TX_STOP_FLUSH_CONT: what is being stopped is flushed. *)
Flush == phase = "stopping" /\ phase' = "flushed" /\ UNCHANGED inflight

(* The driver reports that the session is over. *)
Finished == phase \in {"stopping", "flushed"} /\ phase' = "idle" /\ UNCHANGED inflight

ContractNext ==
  Start \/ Ready \/ Operational \/ PassFrame \/ Arrive \/ Stop \/ Flush \/ Finished

ContractSpec == ContractInit /\ [][ContractNext]_contractVars
=============================================================================
