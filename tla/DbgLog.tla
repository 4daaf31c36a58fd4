------------------------------- MODULE DbgLog -------------------------------
(***************************************************************************)
(* What the chdbg debug device promises to its user: it keeps the most     *)
(* recent Capacity messages in the order in which they were logged, and an *)
(* older message goes only because a newer one needed its place.           *)
(***************************************************************************)
EXTENDS Naturals, Sequences

CONSTANTS Capacity, Messages

VARIABLE log        \* the messages kept, the oldest first

(* Nothing has been logged when the module is loaded. *)
LogInit == log = <<>>

(* The sequence s cut down to its last Capacity elements. *)
Newest(s) == IF Len(s) > Capacity THEN Tail(s) ELSE s

(* A message is logged; the oldest one makes room when the log is full. *)
LogMessage == \E m \in Messages : log' = Newest(Append(log, m))

LogSpec == LogInit /\ [][LogMessage]_log
=============================================================================
