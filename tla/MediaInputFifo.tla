--------------------------- MODULE MediaInputFifo ---------------------------
(***************************************************************************)
(* A media input FIFO (media_input_fifo.c): the ring of words in shared    *)
(* memory by which the audio thread hands packets of samples to the talker *)
(* thread.  Pure operators: every one maps the fields of an ififo_t to     *)
(* those the C function leaves.  Pointers are offsets into buf.            *)
(*                                                                         *)
(* Of a word only the packet it belongs to matters: buf holds for each the *)
(* data block count of the packet it was last written for, or Stale for    *)
(* what was written before the FIFO was last emptied.                      *)
(***************************************************************************)
EXTENDS Integers

CONSTANTS Size,     \* MEDIA_INPUT_FIFO_SAMPLE_FIFO_SIZE
          Samples,  \* samples in a packet of the FIFO
          DbcMod    \* bound on the data block count, where the code has 2^32

ASSUME FifoAssumption ==
  /\ Size \in Nat /\ Samples \in Nat \ {0} /\ DbcMod \in Nat \ {0}
  /\ Samples + 2 < Size

FifoEnd == Size - 1
Word == 0 .. FifoEnd
Dbc == 0 .. DbcMod - 1
Stale == -1

\* Two words for the timestamp and the data block count.
PacketSize == Samples + 2

Fifo == [rd : Word, wr : Word, start : Word, count : 0 .. PacketSize - 1,
         size : {0, PacketSize}, dbc : Dbc, buf : [Word -> Dbc \union {Stale}]]

\* What the audio thread's first pass leaves of the zeroed statics.
Flushed == [rd |-> 0, wr |-> 0, start |-> 0, count |-> 0, size |-> 0, dbc |-> 0,
            buf |-> [w \in Word |-> Stale]]

-----------------------------------------------------------------------------
(***************************************************************************)
(* The audio thread.                                                       *)
(***************************************************************************)
\* Mutant: the data block count runs on over a stop.
FlushKeepsDbc(f) == [f EXCEPT !.rd = 0, !.wr = 0, !.start = 0, !.count = 0,
                              !.buf = [w \in Word |-> Stale]]

\* Without `ptr', which the talker sets before it reads by it.
Flush(f) == [f EXCEPT !.rd = 0, !.wr = 0, !.start = 0, !.dbc = 0, !.count = 0,
                      !.buf = [w \in Word |-> Stale]]

Enable(f) == [Flush(f) EXCEPT !.size = PacketSize]

\* Mutant: the next packet may be cut off by the end of the buffer.
AfterPacketCut(f, at) == IF at > FifoEnd THEN 0 ELSE at

\* A packet is never split: one that would not fit before fifoEnd starts at 0.
AfterPacket(f, at) == IF at + f.size > FifoEnd THEN 0 ELSE at

\* The words left before the packets not yet read; 0 is taken for all of them.
SpaceLeft(f) == (f.rd - f.start) % Size
Refused(f) == f.count = 0 /\ SpaceLeft(f) # 0 /\ SpaceLeft(f) < f.size

BeginPacket(f) ==
  [f EXCEPT !.buf = [w \in Word |-> IF w \in f.start .. f.start + 2 THEN f.dbc ELSE @[w]],
            !.wr = f.start + 3, !.count = 3]

AddSample(f) == [f EXCEPT !.buf[f.wr] = f.dbc, !.wr = @ + 1, !.count = @ + 1]

\* Mutant: the timestamp and the data block count are taken for samples.
EndPacketCountsWords(f) ==
  LET next == AfterPacket(f, f.wr) IN
  [f EXCEPT !.wr = next, !.start = next, !.dbc = (@ + f.size) % DbcMod, !.count = 0]

EndPacket(f) ==
  LET next == AfterPacket(f, f.wr) IN
  [f EXCEPT !.wr = next, !.start = next, !.dbc = (@ + f.size - 2) % DbcMod, !.count = 0]

PushSample(f) ==
  LET g == IF f.count = 0 THEN BeginPacket(f) ELSE AddSample(f) IN
  IF Refused(f) THEN f ELSE IF g.count = f.size THEN EndPacket(g) ELSE g

-----------------------------------------------------------------------------
(***************************************************************************)
(* The talker thread.                                                      *)
(***************************************************************************)
FillLevel(f) ==
  LET from[rd \in Word] ==
        IF rd = f.start THEN 0 ELSE f.size - 2 + from[AfterPacket(f, rd + f.size)]
  IN  from[f.rd]

Empty(f) == f.rd = f.start

\* What media_input_fifo_get_packet hands out for *dbc.
PacketDbc(f) == f.buf[f.rd + 1]

ReleasePacket(f) == [f EXCEPT !.rd = AfterPacket(f, f.rd + f.size)]

\* The words of the packet the talker reads.
HeldWords(f) == f.rd .. f.rd + f.size - 1
=============================================================================
