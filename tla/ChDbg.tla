-------------------------------- MODULE ChDbg --------------------------------
(***************************************************************************)
(* The ring of debug lines behind /dev/chdbg (chdbg/chdev_drv.c).          *)
(*                                                                         *)
(* wifi_dbg() may be called from any kernel thread.  It formats its line   *)
(* straight into dbg_arr[i] and then advances i, with no lock around       *)
(* either, so a call is four steps that other callers interleave with: the *)
(* index is read for the slot, the line is copied in, the index is read    *)
(* again, and its successor is stored.  A line is Garbled from the first   *)
(* byte copied to the last, and may stay so when two callers copied into   *)
(* one slot at the same time and their bytes mixed.                        *)
(*                                                                         *)
(* The text of a line is abstracted to the call that wrote it and to its   *)
(* length, which my_device_read() depends on.                              *)
(***************************************************************************)
EXTENDS Naturals, Sequences, FiniteSets

CONSTANTS
  Writers,       \* the threads that call wifi_dbg()
  MAX_LINES,     \* number of lines in the ring
  MAX_LINE_LEN,  \* size of a line, its terminating NUL included
  MaxCalls       \* bound: calls one writer makes

ASSUME ChDbgAssumption ==
  MAX_LINES \in Nat \ {0, 1} /\ MAX_LINE_LEN \in Nat \ {0, 1} /\ MaxCalls \in Nat

Slots == 0 .. MAX_LINES - 1

(* snprintf() cuts a line to MAX_LINE_LEN - 1 characters. *)
Messages == [by : Writers, call : 1 .. MaxCalls, len : 1 .. MAX_LINE_LEN - 1]
Empty    == [by |-> "nobody", call |-> 0, len |-> 0]
Garbled  == [by |-> "several", call |-> 0, len |-> MAX_LINE_LEN - 1]

VARIABLES
  dbg_arr,      \* the ring
  i,            \* the global index of the next line to write
  pc,           \* where each writer is in wifi_dbg()
  msg,          \* the line each writer is logging
  slot,         \* the slot each writer formats it into
  tmp,          \* the value of i each writer loaded before storing i + 1
  mixed         \* the slots that several writers have been copying into at once

vars == <<dbg_arr, i, pc, msg, slot, tmp, mixed>>

TypeOK ==
  /\ dbg_arr \in [Slots -> Messages \cup {Empty, Garbled}]
  /\ i \in Slots
  /\ pc \in [Writers -> {"idle", "copying", "copied", "loaded"}]
  /\ msg \in [Writers -> Messages \cup {Empty}]
  /\ slot \in [Writers -> Slots] /\ tmp \in [Writers -> Slots]
  /\ mixed \subseteq Slots

(* The module as it is loaded: zeroed static storage, nobody inside. *)
Init ==
  /\ dbg_arr = [s \in Slots |-> Empty]
  /\ i = 0
  /\ pc = [w \in Writers |-> "idle"]
  /\ msg = [w \in Writers |-> Empty]
  /\ slot = [w \in Writers |-> 0] /\ tmp = [w \in Writers |-> 0]
  /\ mixed = {}

(* A mutant of the code: the wrap forgotten. *)
MutFollowingNoWrap(k) == k + 1

(* A mutant: one slot skipped at every step. *)
MutFollowing(k) == (k + 2) % MAX_LINES

(* The slot that follows slot k in the ring. *)
Following(k) == (k + 1) % MAX_LINES

(* The other writers that are copying into slot s. *)
Rivals(w, s) == {v \in Writers \ {w} : pc[v] = "copying" /\ slot[v] = s}

(* wifi_dbg() evaluates dbg_arr[i] and snprintf() starts to fill it. *)
BeginLine(w) ==
  /\ pc[w] = "idle" /\ msg[w].call < MaxCalls
  /\ \E n \in 1 .. MAX_LINE_LEN - 1 :
       msg' = [msg EXCEPT ![w] = [by |-> w, call |-> @.call + 1, len |-> n]]
  /\ pc' = [pc EXCEPT ![w] = "copying"]
  /\ slot' = [slot EXCEPT ![w] = i]
  /\ dbg_arr' = [dbg_arr EXCEPT ![i] = Garbled]
  /\ mixed' = IF Rivals(w, i) = {} THEN mixed \ {i} ELSE mixed \cup {i}
  /\ UNCHANGED <<i, tmp>>

(* snprintf() returns.  A slot that was shared holds this line, what the   *)
(* other writer has left there, or bytes of both.                          *)
EndLine(w) ==
  /\ pc[w] = "copying"
  /\ pc' = [pc EXCEPT ![w] = "copied"]
  /\ \E line \in {msg[w]} \cup (IF slot[w] \in mixed THEN {dbg_arr[slot[w]], Garbled} ELSE {}) :
       dbg_arr' = [dbg_arr EXCEPT ![slot[w]] = line]
  /\ UNCHANGED <<i, msg, slot, tmp, mixed>>

(* i = (i + 1) % MAX_LINES: the load of i ... *)
LoadIndex(w) ==
  /\ pc[w] = "copied"
  /\ pc' = [pc EXCEPT ![w] = "loaded"]
  /\ tmp' = [tmp EXCEPT ![w] = i]
  /\ UNCHANGED <<dbg_arr, i, msg, slot, mixed>>

(* ... and the store; the call returns. *)
StoreIndex(w) ==
  /\ pc[w] = "loaded"
  /\ pc' = [pc EXCEPT ![w] = "idle"]
  /\ i' = Following(tmp[w])
  /\ UNCHANGED <<dbg_arr, msg, slot, tmp, mixed>>

Next == \E w \in Writers :
  BeginLine(w) \/ EndLine(w) \/ LoadIndex(w) \/ StoreIndex(w)

Spec == Init /\ [][Next]_vars

-----------------------------------------------------------------------------
(* A mutant: no room for the newlines of the lines. *)
MutBufChars == MAX_LINES * (MAX_LINE_LEN - 1)

(* my_device_read(): strlcat() never fills the last byte of buf. *)
BufChars == MAX_LINES * MAX_LINE_LEN - 1

(* How many characters the lines before slot s take, newlines included. *)
CharsBefore[s \in 0 .. MAX_LINES] ==
  IF s = 0 THEN 0 ELSE CharsBefore[s - 1] + dbg_arr[s - 1].len + 1

(* A read returns the text of every line in full: the buffer is just large *)
(* enough for it, and what is cut off when all lines have their full       *)
(* length is the last newline only (lines 60-70).                          *)
ReadKeepsEveryLine ==
  \A s \in Slots : CharsBefore[s] + dbg_arr[s].len <= BufChars

-----------------------------------------------------------------------------
(* With a single writer the ring is a log of the newest messages: all its  *)
(* lines but the one that is or will next be written, the oldest first.    *)
LastWritten ==
  IF \E w \in Writers : pc[w] \in {"copied", "loaded"} THEN i ELSE i + MAX_LINES - 1

NewestLines ==
  [k \in 1 .. MAX_LINES - 1 |-> dbg_arr[(LastWritten + 1 + k) % MAX_LINES]]

\* those that are still empty come first
RingLog ==
  LET empty == {k \in DOMAIN NewestLines : NewestLines[k] = Empty}
  IN  SubSeq(NewestLines, Cardinality(empty) + 1, MAX_LINES - 1)

Log == INSTANCE DbgLog WITH Capacity <- MAX_LINES - 1, log <- RingLog

(* Only one writer has called so far. *)
Single == \E w \in Writers : \A v \in Writers \ {w} : msg[v] = Empty

(* As long as there is a single writer its calls implement the log of the  *)
(* MAX_LINES - 1 newest messages: none is lost, doubled or reordered at    *)
(* any point of a call, the wrap of i included (lines 31-32).              *)
KeepsNewest == Log!LogInit /\ [][Single' => Log!LogMessage]_RingLog
=============================================================================
