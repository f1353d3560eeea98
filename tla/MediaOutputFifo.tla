--------------------------- MODULE MediaOutputFifo ---------------------------
(***************************************************************************)
(* A media output FIFO (media_output_fifo.c): the ring of samples between  *)
(* the 1722 listener, which writes it and obeys the media clock, and the   *)
(* audio thread, which reads it without a lock.                            *)
(*                                                                         *)
(* Pointers are offsets into buf, timestamps are kept as set or not set,   *)
(* of a sample its value is kept, 0 being silence; zeroMarker is forgotten *)
(* when ZEROING ends.  sample_count and last_notification_time are         *)
(* words of CountMod values, and so is their difference.                   *)
(***************************************************************************)
EXTENDS Integers, Sequences

CONSTANTS Size,       \* MEDIA_OUTPUT_FIFO_WORD_SIZE
          Packet,     \* samples of a channel in a packet
          CountMod,   \* 2^32
          Period      \* NOTIFICATION_PERIOD

ASSUME FifoAssumption ==
  /\ Size \in Nat /\ Packet \in Nat \ {0} /\ 2 * Packet <= Size
  /\ CountMod \in Nat \ {0} /\ Period \in Nat

Offset == 0 .. Size - 1
NoMark == Size
Silence == 0

\* A sample is told from the others of its packet, and from one that was played
\* already and is played again.
Played == Packet + 1
Sample == 0 .. Played

Fifo == [state : {"DISABLED", "ZEROING", "LOCKING", "LOCKED"}, zeroFlag : BOOLEAN,
         dptr : Offset, wrptr : Offset, marker : Offset \union {NoMark},
         localTs : BOOLEAN, ptpTs : BOOLEAN, count : 0 .. CountMod - 1,
         last : 0 .. CountMod - 1, zeroMarker : Offset, pending : BOOLEAN,
         buf : [Offset -> Sample]]

\* media_output_fifo_init leaves the zero_flag as it finds it.
Initial(flag) ==
  [state |-> "DISABLED", zeroFlag |-> flag, dptr |-> 0, wrptr |-> 0,
   marker |-> NoMark, localTs |-> FALSE, ptpTs |-> FALSE, count |-> 0,
   last |-> 0, zeroMarker |-> 0, pending |-> FALSE,
   buf |-> [o \in Offset |-> 0]]

Wrapped(o) == o % Size

FillOf(f) == Wrapped(f.wrptr - f.dptr)

Unmarked(f) == [f EXCEPT !.marker = NoMark, !.localTs = FALSE, !.ptpTs = FALSE]

Disable(f) == [f EXCEPT !.state = "DISABLED", !.zeroFlag = TRUE, !.zeroMarker = 0]

\* Everything starts again, except the time of the last notification.
Enable(f) ==
  [Unmarked(f) EXCEPT
     !.state = "ZEROING", !.dptr = 0, !.wrptr = 0, !.zeroMarker = Size - 1,
     !.zeroFlag = TRUE, !.buf[Size - 1] = 1, !.count = 0, !.pending = TRUE]

\* The end of media_output_fifo_pull_sample, which read the place o.
Consume(f, o) ==
  [f EXCEPT !.dptr = Wrapped(o + 1),
            !.buf[o] = IF f.state = "ZEROING" /\ o = f.zeroMarker THEN @ ELSE Played]

SetTimestamp(f, k) ==
  IF f.marker # NoMark THEN f
  ELSE [f EXCEPT !.marker = Wrapped(f.wrptr + k), !.ptpTs = TRUE, !.localTs = FALSE]

-----------------------------------------------------------------------------
(***************************************************************************)
(* media_output_fifo_maintain: what it asks the media clock to look at,    *)
(* and the end of ZEROING, which leaves the ring half full.                *)
(***************************************************************************)
\* Mutant: the count is compared with the time the report is due.
IsDueByOrder(f) ==
  /\ f.state \in {"LOCKING", "LOCKED"} /\ f.ptpTs /\ f.localTs
  /\ f.last = 0 \/ f.count > (f.last + Period) % CountMod

\* time_since_last_notification is unsigned: from a last report in the future, kept
\* from before the FIFO was enabled again, more than the period has gone by.
IsDue(f) ==
  /\ f.state \in {"LOCKING", "LOCKED"} /\ f.ptpTs /\ f.localTs
  /\ f.last = 0 \/ (f.count - f.last) % CountMod > Period

Zeroed(f) == f.state = "ZEROING" /\ f.buf[f.zeroMarker] = 0

\* Mutant: the mark of a sample that was pushed while zeroing stays.
BeginLockingMarked(f) ==
  [f EXCEPT !.state = "LOCKING", !.wrptr = Wrapped(f.dptr + Size \div 2),
            !.zeroFlag = TRUE, !.zeroMarker = 0]

BeginLocking(f) ==
  [Unmarked(f) EXCEPT !.state = "LOCKING", !.wrptr = Wrapped(f.dptr + Size \div 2),
                      !.zeroFlag = TRUE, !.zeroMarker = 0]

\* The listener unit has one flag, notified, for all its FIFOs: a message that
\* has to wait is sent at a later packet.
Notification(f, notified) ==
  IF notified THEN "none"
  ELSE IF f.pending THEN "new"
  ELSE IF IsDue(f) THEN "info" ELSE "none"

Maintain(f, notified) ==
  LET sent == Notification(f, notified)
      g == [f EXCEPT !.pending = @ /\ sent # "new",
                     !.last = IF sent = "info" THEN f.count ELSE @]
  IN  IF Zeroed(f) THEN BeginLocking(g) ELSE g

\* media_output_fifo_strided_push writes with a pointer of its own, a sample at
\* a time, and publishes it at the end.
Volume(f, sample) == IF f.state = "ZEROING" THEN 0 ELSE sample

\* Mutant: the ring is full at the mark, not at the read pointer.
HasRoomToMark(f, w) == Wrapped(w + 1) # f.marker

HasRoom(f, w) == Wrapped(w + 1) # f.dptr

Publish(f, w) == [f EXCEPT !.wrptr = w, !.count = (@ + Packet) % CountMod]

-----------------------------------------------------------------------------
\* media_output_fifo_handle_buf_ctl: the three requests of the media clock
\* that change the FIFO.
AdjustFill(f, diff) ==
  [Unmarked(f) EXCEPT !.wrptr = Wrapped(f.wrptr - diff), !.state = "LOCKED",
                      !.zeroFlag = FALSE, !.zeroMarker = 0]

Reset(f) ==
  LET z == Wrapped(f.wrptr - 1)
  IN  [f EXCEPT !.state = "ZEROING", !.zeroMarker = z, !.zeroFlag = TRUE, !.buf[z] = 1]

=============================================================================
