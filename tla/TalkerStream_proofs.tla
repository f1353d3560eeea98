------------------------ MODULE TalkerStream_proofs ------------------------
(***************************************************************************)
(* For every size of buffer, packet and period: types are kept, which for  *)
(* a ring means that every pointer stays where a whole packet fits, and    *)
(* the guard against a full ring never holds, because the read pointer and *)
(* the start of the packet being written lie on a grid of packets.         *)
(*                                                                         *)
(* For every size with which the talker keeps up (KeepsUp): the packet it  *)
(* reads is whole, it never waits for one, the packets follow one another, *)
(* and a stream starts with its first sample, because the ring is whole    *)
(* packets in a row (Ring) and the samples in it are those the stream was  *)
(* started with and those it was held up for (Flowing).                    *)
(***************************************************************************)
EXTENDS TalkerStream, WellFoundedInduction, TLAPS

USE DEF FifoEnd, Word, PacketSize

OnGrid(p) == \E k \in Nat : p = k * PacketSize

\* A packet of the FIFO can begin at p.
Slot(p) == p \in Word /\ p + PacketSize <= FifoEnd /\ OnGrid(p)

Pointers(f) ==
  /\ f \in Fifo
  /\ Slot(f.rd) /\ Slot(f.start)
  /\ f.wr = f.start + f.count

\* Nothing is pushed or sent before the FIFO was configured.
Unconfigured ==
  fifo.size = 0 => source = "DISABLED" /\ ~req /\ ~audio.active /\ stream.active = 0

IInv == TypeOK /\ Pointers(fifo) /\ Unconfigured

-----------------------------------------------------------------------------
(***************************************************************************)
(* The operators of the ring.                                              *)
(***************************************************************************)
LEMMA ZeroIsSlot == Slot(0)
<1>1. 0 = 0 * PacketSize
  BY FifoAssumption
<1>2. OnGrid(0)
  BY <1>1 DEF OnGrid
<1> QED
  BY <1>2, FifoAssumption DEF Slot

LEMMA GridStep ==
  ASSUME NEW p \in Nat, OnGrid(p) PROVE OnGrid(p + PacketSize)
<1>1. PICK k \in Nat : p = k * PacketSize
  BY DEF OnGrid
<1>2. p + PacketSize = (k + 1) * PacketSize
  BY <1>1, FifoAssumption
<1> QED
  BY <1>2 DEF OnGrid

\* The pointer after a packet is again one at which a packet fits.
LEMMA AfterPacketIsSlot ==
  ASSUME NEW f \in Fifo, f.size = PacketSize, NEW p, Slot(p)
  PROVE  Slot(AfterPacket(f, p + PacketSize))
<1>1. CASE p + PacketSize + PacketSize > FifoEnd
  BY <1>1, ZeroIsSlot, FifoAssumption DEF AfterPacket
<1>2. CASE ~(p + PacketSize + PacketSize > FifoEnd)
  <2>1. OnGrid(p + PacketSize)
    BY GridStep, FifoAssumption DEF Slot
  <2>2. AfterPacket(f, p + PacketSize) = p + PacketSize
    BY <1>2 DEF AfterPacket
  <2> QED
    BY <1>2, <2>1, <2>2, FifoAssumption DEF Slot
<1> QED
  BY <1>1, <1>2

\* Two places of the grid are the same or a packet apart.
LEMMA GridGap ==
  ASSUME NEW p \in Nat, NEW q \in Nat, OnGrid(p), OnGrid(q), p > q
  PROVE  p - q >= PacketSize
<1> DEFINE P == PacketSize
<1>0. P \in Nat /\ P >= 2
  BY FifoAssumption
<1>1. PICK i \in Nat : p = i * P
  BY DEF OnGrid
<1>2. PICK j \in Nat : q = j * P
  BY DEF OnGrid
<1> HIDE DEF P
<1>3. i >= j + 1
  <2>1. SUFFICES ASSUME i <= j PROVE FALSE
    OBVIOUS
  <2>2. PICK d \in Nat : j = i + d
    <3>1. j - i \in Nat /\ j = i + (j - i)
      BY <2>1
    <3> QED
      BY <3>1
  <2>3. q = p + d * P
    BY <2>2, <1>0, <1>1, <1>2
  <2>4. d * P \in Nat
    BY <2>2, <1>0
  <2> QED
    BY <2>3, <2>4
<1>4. PICK d \in Nat : i = j + 1 + d
  <2>1. i - j - 1 \in Nat /\ i = j + 1 + (i - j - 1)
    BY <1>3
  <2> QED
    BY <2>1
<1>5. p = q + P + d * P
  BY <1>4, <1>0, <1>1, <1>2
<1>6. d * P \in Nat
  BY <1>4, <1>0
<1>7. p - q >= P
  BY <1>5, <1>6, <1>0
<1> QED
  BY <1>7 DEF P

\* The test of media_input_fifo_push_sample for a full ring never holds.
LEMMA NeverRefused ==
  ASSUME NEW f, Pointers(f), f.size = PacketSize
  PROVE  ~Refused(f)
<1>1. /\ f.rd \in 0 .. Size - 1 /\ f.start \in 0 .. Size - 1
      /\ f.start + PacketSize <= Size - 1
  BY DEF Pointers, Slot, Fifo
<1>2. CASE f.rd = f.start
  BY <1>1, <1>2, FifoAssumption DEF Refused, SpaceLeft
<1>3. CASE f.rd > f.start
  <2>1. f.rd - f.start >= PacketSize
    BY <1>1, <1>3, GridGap DEF Pointers, Slot
  <2>2. SpaceLeft(f) = f.rd - f.start
    BY <1>1, <1>3, FifoAssumption DEF SpaceLeft
  <2> QED
    BY <1>1, <2>1, <2>2, FifoAssumption DEF Refused
<1>4. CASE f.rd < f.start
  <2>1. SpaceLeft(f) = f.rd - f.start + Size
    BY <1>1, <1>4, FifoAssumption DEF SpaceLeft
  <2> QED
    BY <1>1, <2>1, FifoAssumption DEF Refused
<1> QED
  BY <1>1, <1>2, <1>3, <1>4

LEMMA FlushKeeps ==
  ASSUME NEW f \in Fifo
  PROVE  Pointers(Flush(f)) /\ Flush(f).size = f.size
<1> DEFINE empty == [w \in Word |-> Stale]
<1>1. Flush(f) = [rd |-> 0, wr |-> 0, start |-> 0, count |-> 0, size |-> f.size,
                  dbc |-> 0, buf |-> empty]
  <2> HIDE DEF empty
  <2>1. Flush(f) = [f EXCEPT !.rd = 0, !.wr = 0, !.start = 0, !.dbc = 0, !.count = 0,
                             !.buf = empty]
    BY Zenon DEF Flush, empty
  <2> QED
    BY <2>1 DEF Fifo
<1>2. empty \in [Word -> Dbc \union {Stale}]
  OBVIOUS
<1>3. 0 \in Word /\ 0 \in Dbc /\ 0 \in 0 .. PacketSize - 1 /\ f.size \in {0, PacketSize}
  BY FifoAssumption DEF Dbc, Fifo
<1> HIDE DEF empty
<1>4. Flush(f) \in Fifo
  BY <1>1, <1>2, <1>3 DEF Fifo
<1> QED
  BY <1>1, <1>4, ZeroIsSlot DEF Pointers

LEMMA EnableReadies ==
  ASSUME NEW f \in Fifo
  PROVE  Pointers(Enable(f)) /\ Enable(f).size = PacketSize
<1>1. Pointers(Flush(f))
  BY FlushKeeps
<1> QED
  BY <1>1 DEF Enable, Pointers, Fifo

\* A FIFO within media_input_fifo_push_sample: the packet may be complete.
Written == [rd : Word, wr : Word, start : Word, count : 0 .. PacketSize,
            size : {0, PacketSize}, dbc : Dbc, buf : [Word -> Dbc \union {Stale}]]

\* A packet that is complete: the next one has its place.
LEMMA EndPacketKeeps ==
  ASSUME NEW f \in Written, Slot(f.start), Slot(f.rd), f.size = PacketSize,
         f.wr = f.start + PacketSize
  PROVE  Pointers(EndPacket(f)) /\ EndPacket(f).size = PacketSize
<1> DEFINE next == AfterPacket(f, f.wr)
<1>1. Slot(next)
  <2>1. CASE f.wr + PacketSize > FifoEnd
    BY <2>1, ZeroIsSlot DEF AfterPacket
  <2>2. CASE ~(f.wr + PacketSize > FifoEnd)
    <3>1. OnGrid(f.wr)
      BY GridStep DEF Slot
    <3> QED
      BY <2>2, <3>1, FifoAssumption DEF AfterPacket, Slot
  <2> QED
    BY <2>1, <2>2
<1>2. (f.dbc + f.size - 2) % DbcMod \in Dbc
  <2>1. f.dbc + f.size - 2 \in Int
    BY FifoAssumption DEF Dbc, Written
  <2> QED
    BY <2>1, FifoAssumption DEF Dbc
<1>3. EndPacket(f) = [rd |-> f.rd, wr |-> next, start |-> next, count |-> 0,
                      size |-> f.size, dbc |-> (f.dbc + f.size - 2) % DbcMod,
                      buf |-> f.buf]
  <2> HIDE DEF next
  <2>1. EndPacket(f) = [f EXCEPT !.wr = next, !.start = next,
                                 !.dbc = (@ + f.size - 2) % DbcMod, !.count = 0]
    BY Zenon DEF EndPacket, next
  <2> QED
    BY <2>1 DEF Written
<1> HIDE DEF next
<1> QED
  BY <1>1, <1>2, <1>3, FifoAssumption DEF Pointers, Fifo, Slot, Written

\* One sample, wherever in a packet it falls.
LEMMA PushSampleKeeps ==
  ASSUME NEW f, Pointers(f), f.size = PacketSize
  PROVE  Pointers(PushSample(f)) /\ PushSample(f).size = PacketSize
<1> DEFINE g == IF f.count = 0 THEN BeginPacket(f) ELSE AddSample(f)
<1>1. ~Refused(f)
  BY NeverRefused
<1>2. /\ f \in Fifo /\ Slot(f.rd) /\ Slot(f.start) /\ f.wr = f.start + f.count
      /\ f.rd \in Word /\ f.start \in Word /\ f.count \in 0 .. PacketSize - 1
      /\ f.dbc \in Dbc /\ f.buf \in [Word -> Dbc \union {Stale}]
      /\ f.start + PacketSize <= FifoEnd
  BY DEF Pointers, Fifo, Slot
<1>3. /\ g.rd = f.rd /\ g.start = f.start /\ g.size = PacketSize /\ g.dbc = f.dbc
      /\ g.count \in 1 .. PacketSize /\ g.wr = f.start + g.count
      /\ g \in Written
  <2>1. CASE f.count = 0
    <3> DEFINE buf == [w \in Word |-> IF w \in f.start .. f.start + 2 THEN f.dbc ELSE f.buf[w]]
    <3>1. g = [rd |-> f.rd, wr |-> f.start + 3, start |-> f.start, count |-> 3,
               size |-> f.size, dbc |-> f.dbc, buf |-> buf]
      BY <2>1, <1>2 DEF BeginPacket, Fifo
    <3>2. buf \in [Word -> Dbc \union {Stale}]
      BY <1>2
    <3>3. 3 \in 0 .. PacketSize /\ 3 \in 1 .. PacketSize /\ f.start + 3 \in Word
      BY <1>2, FifoAssumption
    <3> HIDE DEF buf, g
    <3> QED
      BY <3>1, <3>2, <3>3, <1>2 DEF Written
  <2>2. CASE f.count # 0
    <3> DEFINE buf == [f.buf EXCEPT ![f.wr] = f.dbc]
    <3>1. g = [rd |-> f.rd, wr |-> f.wr + 1, start |-> f.start, count |-> f.count + 1,
               size |-> f.size, dbc |-> f.dbc, buf |-> buf]
      BY <2>2, <1>2 DEF AddSample, Fifo
    <3>2. buf \in [Word -> Dbc \union {Stale}]
      BY <1>2
    <3> HIDE DEF buf, g
    <3> QED
      BY <3>1, <3>2, <2>2, <1>2, FifoAssumption DEF Written
  <2> QED
    BY <2>1, <2>2
<1>4. PushSample(f) = IF g.count = f.size THEN EndPacket(g) ELSE g
  BY <1>1 DEF PushSample
<1> HIDE DEF g
<1>5. CASE g.count = PacketSize
  <2>1. Pointers(EndPacket(g)) /\ EndPacket(g).size = PacketSize
    BY <1>2, <1>3, <1>5, EndPacketKeeps
  <2> QED
    BY <1>4, <1>5, <2>1
<1>6. CASE g.count # PacketSize
  <2>1. g.wr \in Word /\ g.count \in 0 .. PacketSize - 1
    BY <1>2, <1>3, <1>6, FifoAssumption
  <2>2. Pointers(g)
    BY <1>2, <1>3, <2>1 DEF Pointers, Fifo, Written
  <2> QED
    BY <1>3, <1>4, <1>6, <2>2
<1> QED
  BY <1>5, <1>6

LEMMA ReleasePacketKeeps ==
  ASSUME NEW f, Pointers(f), f.size = PacketSize
  PROVE  Pointers(ReleasePacket(f)) /\ ReleasePacket(f).size = PacketSize
<1>1. Slot(AfterPacket(f, f.rd + PacketSize))
  BY AfterPacketIsSlot DEF Pointers
<1> QED
  BY <1>1 DEF ReleasePacket, Pointers, Fifo, Slot

\* What get_packet reads lies in the buffer.
LEMMA PacketDbcType ==
  ASSUME NEW f, Pointers(f) PROVE PacketDbc(f) \in Dbc \union {Stale}
<1>1. f.rd + 1 \in Word
  BY FifoAssumption DEF Pointers, Slot
<1> QED
  BY <1>1 DEF PacketDbc, Pointers, Fifo

-----------------------------------------------------------------------------
(***************************************************************************)
(* The stream.                                                             *)
(***************************************************************************)
LEMMA IInvInit == Init => IInv
<1> SUFFICES ASSUME Init PROVE IInv
  OBVIOUS
<1> DEFINE empty == [w \in Word |-> Stale]
<1>1. /\ fifo = [rd |-> 0, wr |-> 0, start |-> 0, count |-> 0, size |-> 0, dbc |-> 0,
                 buf |-> empty]
      /\ empty \in [Word -> Dbc \union {Stale}]
  BY DEF Init, Flushed
<1>2. 0 \in Word /\ 0 \in Dbc /\ 0 \in 0 .. PacketSize - 1
  BY FifoAssumption DEF Dbc
<1> HIDE DEF empty
<1>3. Pointers(fifo)
  BY <1>1, <1>2, ZeroIsSlot DEF Pointers, Fifo
<1>4. TypeOK
  <2>1. stream \in Stream
    BY <1>2, FifoAssumption DEF Init, Stream
  <2>2. wait \in 0 .. Period /\ late \in 0 .. MaxLate
    BY StreamAssumption DEF Init
  <2>3. audio \in [at : {"read", "sample", "indicate"}, active : BOOLEAN]
    BY DEF Init
  <2> QED
    BY <1>3, <2>1, <2>2, <2>3 DEF Init, TypeOK, Pointers
<1> QED
  BY <1>3, <1>4 DEF Init, IInv, Unconfigured

LEMMA SendKeeps ==
  ASSUME IInv, NEW n \in WireSamples, Send(n) PROVE IInv'
<1>1. n \in 1 .. Samples /\ Samples \in Nat /\ Period - 1 \in 0 .. Period
  BY StreamAssumption, FifoAssumption
<1>2. fifo.size = PacketSize
  BY FifoAssumption DEF IInv, TypeOK, Fifo, Unconfigured, Send, CanSend
<1>3. stream \in Stream /\ Pointers(fifo)
  BY DEF IInv, TypeOK
<1>4. Pointers(fifo') /\ fifo'.size = PacketSize /\ stream' \in Stream
      /\ stream'.active = stream.active
  <2>1. CASE stream.initial
    <3>1. /\ fifo' = fifo
          /\ stream' = [stream EXCEPT !.initial = FALSE, !.left = Samples - n,
                                      !.dbc = PacketDbc(fifo)]
      BY <2>1 DEF Send
    <3>2. PacketDbc(fifo) \in Dbc \union {Stale} /\ Samples - n \in 0 .. Samples
      BY <1>1, <1>3, PacketDbcType
    <3> QED
      BY <1>2, <1>3, <3>1, <3>2 DEF Stream
  <2>2. CASE ~stream.initial /\ stream.left >= n
    <3>1. fifo' = fifo /\ stream' = [stream EXCEPT !.left = @ - n]
      BY <2>2, <1>1, <1>3 DEF Send, Stream
    <3>2. stream.left - n \in 0 .. Samples
      BY <1>1, <1>3, <2>2 DEF Stream
    <3> QED
      BY <1>2, <1>3, <3>1, <3>2 DEF Stream
  <2>3. CASE ~stream.initial /\ ~(stream.left >= n)
    <3>1. /\ fifo' = ReleasePacket(fifo)
          /\ stream' = [stream EXCEPT !.left = Samples - (n - @),
                                      !.dbc = PacketDbc(fifo')]
      BY <2>3, <1>1, <1>3 DEF Send, Stream
    <3>2. Pointers(fifo') /\ fifo'.size = PacketSize
      BY <1>2, <1>3, <3>1, ReleasePacketKeeps
    <3>3. PacketDbc(fifo') \in Dbc \union {Stale}
      BY <3>2, PacketDbcType
    <3>4. Samples - (n - stream.left) \in 0 .. Samples
      BY <1>1, <1>3, <2>3 DEF Stream
    <3> QED
      BY <1>3, <3>1, <3>2, <3>3, <3>4 DEF Stream
  <2> QED
    BY <2>1, <2>2, <2>3
<1>5. wait' \in 0 .. Period
  <2>1. wait' \in {Period - 1, Period}
    BY Zenon DEF Send
  <2> QED
    BY <2>1, StreamAssumption
<1>6. TypeOK'
  BY <1>4, <1>5 DEF IInv, TypeOK, Send, Pointers
<1> QED
  BY <1>2, <1>4, <1>6, FifoAssumption DEF IInv, Unconfigured

LEMMA SampleKeeps ==
  ASSUME IInv, Sample PROVE IInv'
<1>1. Pointers(fifo') /\ fifo'.size = fifo.size
  <2>1. CASE audio.active
    <3>1. fifo.size = PacketSize
      BY <2>1, FifoAssumption DEF IInv, TypeOK, Fifo, Unconfigured
    <3> QED
      BY <2>1, <3>1, PushSampleKeeps DEF Sample, IInv
  <2>2. CASE ~audio.active
    BY <2>2, FlushKeeps DEF Sample, IInv, TypeOK
  <2> QED
    BY <2>1, <2>2
<1>2. audio' \in [at : {"read", "sample", "indicate"}, active : BOOLEAN]
      /\ audio'.active = audio.active
  BY DEF Sample, IInv, TypeOK
<1>3. TypeOK'
  BY <1>1, <1>2 DEF IInv, TypeOK, Sample, Pointers
<1> QED
  BY <1>1, <1>2, <1>3 DEF IInv, Unconfigured, Sample

LEMMA ControlKeeps ==
  ASSUME IInv, Configure \/ Go \/ Stop("POTENTIAL") \/ Stop("DISABLED") PROVE IInv'
<1>0. fifo \in Fifo /\ Pointers(fifo) /\ stream \in Stream /\ Period \in Nat
  BY StreamAssumption DEF IInv, TypeOK
<1>1. CASE Configure
  <2>1. Pointers(fifo') /\ fifo'.size = PacketSize
    BY <1>0, <1>1, EnableReadies DEF Configure
  <2>2. stream' \in Stream
    BY <1>1, FifoAssumption DEF Configure, Stream, Dbc
  <2>3. hasty' \in BOOLEAN /\ wait' \in 0 .. Period
    BY <1>0, <1>1 DEF Configure
  <2>4. TypeOK'
    BY <1>1, <2>1, <2>2, <2>3 DEF IInv, TypeOK, Configure, Pointers
  <2> QED
    BY <2>1, <2>4, FifoAssumption DEF IInv, Unconfigured
<1>2. CASE Go
  <2>1. stream' \in Stream
    <3>1. stream' = [stream EXCEPT !.active = 2, !.initial = TRUE, !.left = 0]
      BY <1>2 DEF Go
    <3>2. 0 \in 0 .. Samples /\ 2 \in 0 .. 2
      BY FifoAssumption
    <3> QED
      BY <1>0, <3>1, <3>2 DEF Stream
  <2>2. hasty' \in BOOLEAN /\ late' \in 0 .. MaxLate
    BY <1>2, StreamAssumption DEF Go
  <2>3. TypeOK'
    BY <1>2, <2>1, <2>2 DEF IInv, TypeOK, Go
  <2>4. fifo.size # 0
    BY <1>2 DEF IInv, Unconfigured, Go
  <2> QED
    BY <1>2, <2>3, <2>4 DEF IInv, Unconfigured, Go
<1>3. CASE Stop("POTENTIAL") \/ Stop("DISABLED")
  <2>1. stream' \in Stream
    BY <1>0, <1>3 DEF Stop, Stream
  <2>2. TypeOK'
    BY <1>3, <2>1 DEF IInv, TypeOK, Stop
  <2>3. fifo.size # 0
    BY <1>3 DEF IInv, Unconfigured, Stop
  <2> QED
    BY <1>3, <2>2, <2>3 DEF IInv, Unconfigured, Stop
<1> QED
  BY <1>1, <1>2, <1>3

LEMMA IInvNext == IInv /\ [Next]_vars => IInv'
<1> SUFFICES ASSUME IInv, [Next]_vars PROVE IInv'
  OBVIOUS
<1>1. CASE Configure \/ Go \/ Stop("POTENTIAL") \/ Stop("DISABLED")
  BY <1>1, ControlKeeps
<1>2. CASE \E n \in WireSamples : Send(n)
  BY <1>2, SendKeeps
<1>3. CASE ReadRequest
  <2>1. audio' = [at |-> "sample", active |-> req] /\ req \in BOOLEAN
    BY <1>3 DEF ReadRequest, Requested, IInv, TypeOK
  <2>2. wait' \in 0 .. Period
    BY <1>3, StreamAssumption DEF ReadRequest, IInv, TypeOK
  <2>3. late' \in 0 .. MaxLate
    <3>1. Held => late < MaxLate
      BY <1>3, StreamAssumption DEF ReadRequest, Bound, IInv, TypeOK
    <3> QED
      BY <1>3, <3>1, StreamAssumption DEF ReadRequest, IInv, TypeOK
  <2>4. TypeOK'
    BY <1>3, <2>1, <2>2, <2>3 DEF ReadRequest, IInv, TypeOK
  <2> QED
    BY <1>3, <2>1, <2>4 DEF ReadRequest, IInv, Unconfigured
<1>4. CASE Sample
  BY <1>4, SampleKeeps
<1>5. CASE Indicate
  <2>1. /\ audio' = [audio EXCEPT !.at = "read"]
        /\ audio' \in [at : {"read", "sample", "indicate"}, active : BOOLEAN]
        /\ audio'.active = audio.active /\ ind' \in BOOLEAN
    BY <1>5 DEF Indicate, IInv, TypeOK
  <2>2. TypeOK'
    BY <1>5, <2>1 DEF Indicate, IInv, TypeOK
  <2> QED
    BY <1>5, <2>1, <2>2 DEF Indicate, IInv, Unconfigured
<1>6. CASE UNCHANGED vars
  BY <1>6 DEF vars, IInv, TypeOK, Unconfigured, Pointers
<1> QED
  BY <1>1, <1>2, <1>3, <1>4, <1>5, <1>6 DEF Next

LEMMA Invariant == Spec => []IInv
BY IInvInit, IInvNext, PTL DEF Spec

-----------------------------------------------------------------------------
\* Types hold in every reachable state: with any sizes, however late the talker
\* and however hasty the control thread, every pointer of the ring
\* (media_input_fifo.c) stays inside its buffer.
THEOREM TypeCorrect == Spec => []TypeOK
BY Invariant, PTL DEF IInv

\* media_input_fifo_push_sample never refuses a sample: its guard against a full
\* ring is never true, whatever the sizes of buffer and packet.
THEOREM PushesAreAlwaysStored == Spec => []PushesAreStored
<1>1. IInv => PushesAreStored
  <2> SUFFICES ASSUME IInv, audio.active PROVE ~Refused(fifo)
    BY DEF PushesAreStored
  <2>1. fifo.size = PacketSize
    BY FifoAssumption DEF IInv, TypeOK, Fifo, Unconfigured
  <2> QED
    BY <2>1, NeverRefused DEF IInv
<1> QED
  BY <1>1, Invariant, PTL

\* Both, for every size of buffer and packet: media_input_fifo.c needs no check
\* of its pointers, and has none that works.
THEOREM RingIsAlwaysSound == Spec => []RingIsSound
<1>1. TypeOK /\ PushesAreStored => RingIsSound
  BY DEF RingIsSound
<1> QED
  BY <1>1, TypeCorrect, PushesAreAlwaysStored, PTL

-----------------------------------------------------------------------------
(***************************************************************************)
(* The places of the ring: At(c) is the word at which packet c begins,     *)
(* Filling(m) the samples in m packets.                                    *)
(***************************************************************************)
At(c) == c * PacketSize
Places == FifoEnd \div PacketSize
Place == 0 .. Places - 1
Filling(m) == m * Samples

Succ(c) == IF c + 1 < Places THEN c + 1 ELSE 0

\* The packets from place a up to place b.
Packets(a, b) == IF a <= b THEN b - a ELSE b - a + Places

LEMMA Quotient ==
  ASSUME NEW n \in Nat, NEW p \in Nat \ {0}
  PROVE  n \div p \in Nat /\ (n \div p) * p <= n /\ n < (n \div p) * p + p
OBVIOUS

LEMMA Product ==
  ASSUME NEW i \in Nat, NEW j \in Nat, NEW p \in Nat, i <= j
  PROVE  i * p \in Nat /\ j * p \in Nat /\ i * p <= j * p
<1>1. PICK d \in Nat : j = i + d
  <2>1. j - i \in Nat /\ j = i + (j - i)
    OBVIOUS
  <2> QED
    BY <2>1
<1>2. j * p = i * p + d * p
  BY <1>1
<1>3. i * p \in Nat /\ d * p \in Nat
  BY <1>1
<1> QED
  BY <1>2, <1>3

LEMMA Distribute ==
  ASSUME NEW i \in Nat, NEW p \in Nat
  PROVE  (i + 1) * p = i * p + p /\ i * p \in Nat
OBVIOUS

LEMMA PlacesType ==
  /\ Places \in Nat /\ Places >= 1
  /\ At(Places) <= FifoEnd /\ FifoEnd < At(Places) + PacketSize
  /\ PacketSize \in Nat /\ PacketSize >= 3 /\ FifoEnd \in Nat
<1>1. FifoEnd \in Nat /\ PacketSize \in Nat \ {0} /\ PacketSize >= 3 /\ PacketSize <= FifoEnd
  BY FifoAssumption
<1>2. Places \in Nat /\ At(Places) <= FifoEnd /\ FifoEnd < At(Places) + PacketSize
  <2> HIDE DEF FifoEnd, PacketSize
  <2> QED
    BY <1>1, Quotient DEF Places, At
<1>3. Places # 0
  <2>1. SUFFICES ASSUME Places = 0 PROVE FALSE
    OBVIOUS
  <2>2. At(Places) = 0
    BY <1>1, <2>1 DEF At
  <2> QED
    BY <1>1, <1>2, <2>2
<1> QED
  BY <1>1, <1>2, <1>3

LEMMA AtStep ==
  ASSUME NEW c \in Nat PROVE At(c) \in Nat /\ At(c + 1) = At(c) + PacketSize
<1>1. PacketSize \in Nat
  BY FifoAssumption
<1> HIDE DEF PacketSize
<1> QED
  BY <1>1, Distribute DEF At

LEMMA AtGrows ==
  ASSUME NEW c \in Nat, NEW d \in Nat, c < d
  PROVE  At(c) + PacketSize <= At(d)
<1>1. PacketSize \in Nat
  BY FifoAssumption
<1>2. At(c + 1) <= At(d)
  <2> HIDE DEF PacketSize
  <2> QED
    BY <1>1, Product DEF At
<1> QED
  BY <1>2, AtStep

LEMMA AtSame ==
  ASSUME NEW c \in Nat, NEW d \in Nat, At(c) = At(d) PROVE c = d
<1>1. PacketSize \in Nat /\ PacketSize >= 3 /\ At(c) \in Nat
  BY PlacesType, AtStep
<1>2. CASE c < d
  BY <1>1, <1>2, AtGrows
<1>3. CASE d < c
  BY <1>1, <1>3, AtGrows
<1> QED
  BY <1>2, <1>3

LEMMA AtFits ==
  ASSUME NEW c \in Place
  PROVE  /\ c \in Nat /\ At(c) \in Nat /\ At(c) + PacketSize <= FifoEnd
         /\ At(c) .. At(c) + PacketSize - 1 \subseteq Word
         /\ At(c) \in Word
<1>1. c \in Nat /\ c < Places
  BY PlacesType DEF Place
<1>2. At(c) + PacketSize <= At(Places) /\ At(c) \in Nat
  BY <1>1, AtGrows, AtStep, PlacesType
<1>3. At(c) + PacketSize <= FifoEnd
  BY <1>2, PlacesType, AtStep
<1> QED
  BY <1>1, <1>2, <1>3, PlacesType

LEMMA AtZero == At(0) = 0 /\ 0 \in Place
BY PlacesType DEF At, Place

LEMMA SuccType == ASSUME NEW c \in Place PROVE Succ(c) \in Place
BY PlacesType DEF Place, Succ

\* The pointer after the packet at a place is the next place.
LEMMA AfterPlace ==
  ASSUME NEW f, f.size = PacketSize, NEW c \in Place
  PROVE  AfterPacket(f, At(c) + PacketSize) = At(Succ(c))
<1>1. c \in Nat /\ c < Places /\ c + 1 \in Nat /\ At(c + 1) = At(c) + PacketSize
      /\ At(c + 1) \in Nat
  BY AtStep, PlacesType DEF Place
<1>2. CASE c + 1 < Places
  <2>1. c + 1 \in Place
    BY <1>1, <1>2, PlacesType DEF Place
  <2>2. At(c + 1) + PacketSize <= FifoEnd
    BY <2>1, AtFits
  <2>3. ~(At(c) + PacketSize + f.size > FifoEnd)
    BY <1>1, <2>2, PlacesType
  <2>4. Succ(c) = c + 1
    BY <1>2 DEF Succ
  <2> QED
    BY <1>1, <2>3, <2>4 DEF AfterPacket
<1>3. CASE c + 1 = Places
  <2>1. At(c) + PacketSize + f.size > FifoEnd
    BY <1>1, <1>3, PlacesType
  <2>2. Succ(c) = 0
    BY <1>1, <1>3 DEF Succ
  <2> QED
    BY <2>1, <2>2, AtZero DEF AfterPacket
<1> QED
  BY <1>1, <1>2, <1>3, PlacesType

LEMMA FillingStep ==
  ASSUME NEW m \in Nat
  PROVE  Filling(m) \in Nat /\ Filling(m + 1) = Filling(m) + Samples
BY FifoAssumption, Distribute DEF Filling

LEMMA FillingGrows ==
  ASSUME NEW m \in Nat, NEW n \in Nat, m < n
  PROVE  Filling(m) + Samples <= Filling(n)
<1>1. Filling(m + 1) <= Filling(n)
  BY FifoAssumption, Product DEF Filling
<1> QED
  BY <1>1, FillingStep

LEMMA FillingZero == Filling(0) = 0
BY FifoAssumption DEF Filling

LEMMA FillingLess ==
  ASSUME NEW m \in Nat, NEW n \in Nat, Filling(m) < Filling(n) PROVE m < n
<1>1. Filling(m) \in Nat /\ Filling(n) \in Nat
  BY FillingStep
<1>2. CASE n < m
  BY <1>1, <1>2, FillingGrows, FifoAssumption
<1> QED
  BY <1>1, <1>2

LEMMA PacketsType ==
  ASSUME NEW a \in Place, NEW b \in Place
  PROVE  /\ Packets(a, b) \in 0 .. Places - 1
         /\ Packets(a, b) = 0 <=> a = b
BY PlacesType DEF Place, Packets

LEMMA PacketsAfterRead ==
  ASSUME NEW a \in Place, NEW b \in Place, a # b
  PROVE  Packets(Succ(a), b) = Packets(a, b) - 1
BY PlacesType DEF Place, Packets, Succ

LEMMA PacketsAfterWrite ==
  ASSUME NEW a \in Place, NEW b \in Place, Packets(a, b) + 1 < Places
  PROVE  Packets(a, Succ(b)) = Packets(a, b) + 1
BY PlacesType DEF Place, Packets, Succ

-----------------------------------------------------------------------------
(***************************************************************************)
(* The fill level.  media_input_fifo_fill_level walks from the read        *)
(* pointer to the packet being written: it ends, wherever in the buffer it *)
(* begins, because a walk comes to word 0, and what it returns is the      *)
(* samples of the packets between.                                         *)
(***************************************************************************)
LEMMA SetInduction ==
  ASSUME NEW S, 0 \in S, \A n \in Nat : n \in S => n + 1 \in S
  PROVE  Nat \subseteq S
<1> SUFFICES ASSUME Nat \ S # {} PROVE FALSE
  OBVIOUS
<1>1. \E x \in Nat \ S : \A y \in Nat \ S : ~(<<y, x>> \in OpToRel(<, Nat))
  <2> DEFINE T == Nat \ S
  <2>1. T \subseteq Nat /\ T # {}
    OBVIOUS
  <2> HIDE DEF T
  <2>2. \E x \in T : \A y \in T : ~(<<y, x>> \in OpToRel(<, Nat))
    BY <2>1, NatLessThanWellFounded, WFMin
  <2> QED
    BY <2>2 DEF T
<1>2. PICK x \in Nat \ S : \A y \in Nat \ S : ~(y < x)
  BY <1>1 DEF OpToRel
<1>3. x - 1 \in Nat /\ x - 1 \in S
  BY <1>2
<1>4. x - 1 + 1 \in S
  BY <1>3
<1> QED
  BY <1>2, <1>4

\* The packets read on the way from word w to word 0.
ToZero(w) == IF w + PacketSize + PacketSize > FifoEnd THEN 1
             ELSE (FifoEnd - w) \div PacketSize

LEMMA ToZeroStep ==
  ASSUME NEW w \in Word
  PROVE  /\ ToZero(w) \in Nat
         /\ w + PacketSize + PacketSize <= FifoEnd =>
              w + PacketSize \in Word /\ ToZero(w) = ToZero(w + PacketSize) + 1
<1> DEFINE P == PacketSize
           n == FifoEnd - w
<1>1. P \in Nat \ {0} /\ P >= 3 /\ n \in Nat /\ w \in Nat /\ FifoEnd \in Nat
  BY PlacesType
<1>2. n \div P \in Nat /\ (n \div P) * P <= n /\ n < (n \div P) * P + P
  <2> HIDE DEF P, n
  <2> QED
    BY <1>1, Quotient
<1>3. ASSUME w + P + P <= FifoEnd PROVE ToZero(w) = ToZero(w + P) + 1
  <2> DEFINE m == n - P
             q == n \div P
             r == m \div P
  <2>1. m \in Nat /\ n = m + P /\ m >= P /\ FifoEnd - (w + P) = m
    BY <1>1, <1>3
  <2>2. r \in Nat /\ r * P <= m /\ m < r * P + P
    <3> HIDE DEF P, m
    <3> QED
      BY <1>1, <2>1, Quotient
  <2>3. q = r + 1
    <3> HIDE DEF P, m, q, r, n
    <3>0. q \in Nat /\ q * P <= n /\ n < q * P + P
      BY <1>2 DEF q
    <3>1. (r + 1) * P = r * P + P /\ (q + 1) * P = q * P + P
      BY <1>1, <2>2, <3>0, Distribute
    <3>2. (r + 1) * P <= n /\ n < (r + 1) * P + P
      BY <1>1, <2>1, <2>2, <3>1, Distribute
    <3>3. CASE q < r + 1
      <4>1. (q + 1) * P <= (r + 1) * P
        BY <1>1, <2>2, <3>0, <3>3, Product
      <4> QED
        BY <1>1, <3>0, <3>1, <3>2, <4>1, <2>2, Distribute
    <3>4. CASE r + 1 < q
      <4>1. (r + 1 + 1) * P <= q * P
        BY <1>1, <2>2, <3>0, <3>4, Product
      <4>2. (r + 1 + 1) * P = (r + 1) * P + P /\ (r + 1) * P \in Nat /\ q * P \in Nat
        BY <1>1, <2>2, <3>0, Distribute
      <4> QED
        BY <1>1, <3>0, <3>2, <4>1, <4>2
    <3> QED
      BY <2>2, <3>0, <3>3, <3>4
  <2>4. ToZero(w) = q
    BY <1>1, <1>3 DEF ToZero
  <2>5. ToZero(w + P) = r
    <3>1. CASE w + P + P + P <= FifoEnd
      BY <1>1, <2>1, <3>1 DEF ToZero
    <3>2. CASE w + P + P + P > FifoEnd
      <4>1. m < P + P
        BY <1>1, <3>2, <2>1
      <4>2. r = 1
        <5> HIDE DEF P, m, r, q, n
        <5>1. CASE r = 0
          <6>1. r * P = 0
            BY <5>1, <1>1
          <6> QED
            BY <1>1, <2>1, <2>2, <6>1
        <5>2. CASE r > 1
          <6>1. (1 + 1) * P <= r * P
            BY <1>1, <2>2, <5>2, Product
          <6>2. (1 + 1) * P = P + P
            BY <1>1
          <6> QED
            BY <1>1, <2>1, <2>2, <4>1, <6>1, <6>2
        <5> QED
          BY <2>2, <5>1, <5>2
      <4>3. ToZero(w + P) = 1
        BY <3>2 DEF ToZero
      <4> QED
        BY <4>2, <4>3
    <3> QED
      BY <1>1, <3>1, <3>2
  <2> QED
    BY <2>3, <2>4, <2>5
<1>4. ToZero(w) \in Nat
  BY <1>2 DEF ToZero
<1> QED
  BY <1>1, <1>3, <1>4

\* What media_input_fifo_fill_level returns, from every word of the buffer,
\* when the packet being written is at place b.
OnPlace(w) == \E c \in Place : w = At(c)
PlaceOf(w) == CHOOSE c \in Place : w = At(c)
LevelFrom(w, b) == IF OnPlace(w) THEN Filling(Packets(PlaceOf(w), b))
                                 ELSE Filling(ToZero(w) + b)

LEMMA LevelAtPlace ==
  ASSUME NEW a \in Place, NEW b \in Place
  PROVE  LevelFrom(At(a), b) = Filling(Packets(a, b))
<1>1. OnPlace(At(a))
  BY DEF OnPlace
<1>2. PlaceOf(At(a)) \in Place /\ At(a) = At(PlaceOf(At(a)))
  BY DEF PlaceOf
<1>3. PlaceOf(At(a)) = a
  BY <1>2, AtSame, AtFits
<1> QED
  BY <1>1, <1>3 DEF LevelFrom

LEMMA LevelRecurs ==
  ASSUME NEW f, f.size = PacketSize, NEW b \in Place, f.start = At(b), NEW w \in Word
  PROVE  /\ AfterPacket(f, w + PacketSize) \in Word
         /\ LevelFrom(w, b) = IF w = f.start THEN 0
                              ELSE Samples + LevelFrom(AfterPacket(f, w + PacketSize), b)
<1> DEFINE next == AfterPacket(f, w + PacketSize)
<1>1. w \in Nat /\ PacketSize \in Nat /\ PacketSize >= 3 /\ FifoEnd \in Nat
  BY PlacesType
<1>2. next \in Word
  BY <1>1 DEF AfterPacket
<1>3. CASE OnPlace(w)
  <2>1. PICK a \in Place : w = At(a)
    BY <1>3 DEF OnPlace
  <2>2. LevelFrom(w, b) = Filling(Packets(a, b))
    BY <2>1, LevelAtPlace
  <2>3. CASE a = b
    BY <1>2, <2>1, <2>2, <2>3, PacketsType, FillingZero
  <2>4. CASE a # b
    <3>1. w # f.start
      BY <2>1, <2>4, AtSame, AtFits
    <3>2. next = At(Succ(a)) /\ Succ(a) \in Place
      BY <2>1, AfterPlace, SuccType
    <3>3. LevelFrom(next, b) = Filling(Packets(Succ(a), b))
      BY <3>2, LevelAtPlace
    <3>4. Packets(Succ(a), b) = Packets(a, b) - 1 /\ Packets(a, b) - 1 \in Nat
      BY <2>4, PacketsAfterRead, PacketsType, PlacesType
    <3>5. Filling(Packets(a, b)) = Filling(Packets(a, b) - 1) + Samples
      <4> DEFINE m == Packets(a, b) - 1
      <4>1. Packets(a, b) = m + 1
        BY PacketsType, PlacesType
      <4>2. m \in Nat
        BY <3>4
      <4> HIDE DEF m
      <4>3. Filling(m + 1) = Filling(m) + Samples
        BY <4>2, FillingStep
      <4> QED
        BY <4>1, <4>3 DEF m
    <3>6. Filling(Packets(a, b) - 1) \in Nat
      BY <3>4, FillingStep
    <3> QED
      BY <1>2, <2>2, <3>1, <3>3, <3>4, <3>5, <3>6, FifoAssumption
  <2> QED
    BY <2>3, <2>4
<1>4. CASE ~OnPlace(w)
  <2>1. w # f.start
    BY <1>4 DEF OnPlace
  <2>2. LevelFrom(w, b) = Filling(ToZero(w) + b) /\ ToZero(w) \in Nat /\ b \in Nat
    BY <1>4, ToZeroStep, AtFits DEF LevelFrom
  <2>3. CASE w + PacketSize + PacketSize > FifoEnd
    <3>1. next = At(0) /\ ToZero(w) = 1
      BY <2>3, AtZero DEF AfterPacket, ToZero
    <3>2. LevelFrom(next, b) = Filling(Packets(0, b))
      BY <3>1, AtZero, LevelAtPlace
    <3>3. Packets(0, b) = b /\ ToZero(w) + b = b + 1
      BY <2>2, <3>1 DEF Packets
    <3>4. Filling(b + 1) = Filling(b) + Samples /\ Filling(b) \in Nat
      BY <2>2, FillingStep
    <3> QED
      BY <1>2, <2>1, <2>2, <3>2, <3>3, <3>4, FifoAssumption
  <2>4. CASE ~(w + PacketSize + PacketSize > FifoEnd)
    <3>1. next = w + PacketSize /\ next \in Word /\ next \in Nat
      BY <1>1, <1>2, <2>4 DEF AfterPacket
    <3>2. ~OnPlace(next)
      <4>1. SUFFICES ASSUME NEW c \in Place, next = At(c) PROVE FALSE
        BY DEF OnPlace
      <4>2. c # 0
        BY <1>1, <3>1, <4>1, AtZero
      <4>3. c - 1 \in Place /\ c - 1 \in Nat /\ c = (c - 1) + 1
        BY <4>2, PlacesType DEF Place
      <4>4. At(c) = At(c - 1) + PacketSize /\ At(c - 1) \in Nat
        <5> DEFINE d == c - 1
        <5>1. d \in Nat /\ c = d + 1
          BY <4>3
        <5> HIDE DEF d
        <5>2. At(d + 1) = At(d) + PacketSize /\ At(d) \in Nat
          BY <5>1, AtStep
        <5> QED
          BY <5>1, <5>2 DEF d
      <4>5. w = At(c - 1)
        BY <1>1, <3>1, <4>1, <4>4
      <4> QED
        BY <1>4, <4>3, <4>5 DEF OnPlace
    <3>3. ToZero(w) = ToZero(next) + 1 /\ ToZero(next) \in Nat
      BY <1>1, <2>4, <3>1, ToZeroStep
    <3>4. LevelFrom(next, b) = Filling(ToZero(next) + b)
      BY <3>2 DEF LevelFrom
    <3>5. Filling(ToZero(w) + b) = Filling(ToZero(next) + b) + Samples
          /\ Filling(ToZero(next) + b) \in Nat
      <4> DEFINE m == ToZero(next) + b
      <4>1. m \in Nat /\ ToZero(w) + b = m + 1
        BY <2>2, <3>3
      <4> HIDE DEF m
      <4>2. Filling(m + 1) = Filling(m) + Samples /\ Filling(m) \in Nat
        BY <4>1, FillingStep
      <4> QED
        BY <4>1, <4>2 DEF m
    <3> HIDE DEF next
    <3>6. LevelFrom(w, b) = Samples + LevelFrom(next, b)
      BY <2>2, <3>4, <3>5, FifoAssumption
    <3> QED
      BY <2>1, <3>1, <3>6 DEF next
  <2> QED
    BY <2>3, <2>4
<1> QED
  BY <1>2, <1>3, <1>4

\* The loop of media_input_fifo_fill_level counts the samples in the packets
\* between the read pointer and the packet being written.
LEMMA FillLevelCounts ==
  ASSUME NEW f, f.size = PacketSize,
         NEW a \in Place, NEW b \in Place, f.rd = At(a), f.start = At(b)
  PROVE  FillLevel(f) = Filling(Packets(a, b))
<1> DEFINE Solves(g) ==
             g = [rd \in Word |-> IF rd = f.start THEN 0
                                  ELSE f.size - 2 + g[AfterPacket(f, rd + f.size)]]
           from == CHOOSE g : Solves(g)
           level == [w \in Word |-> LevelFrom(w, b)]
<1>1. f.size - 2 = Samples
  BY FifoAssumption
<1>2. Solves(level)
  <2>1. \A w \in Word :
          level[w] = IF w = f.start THEN 0
                     ELSE f.size - 2 + level[AfterPacket(f, w + f.size)]
    BY <1>1, LevelRecurs
  <2> QED
    BY <2>1
<1>3. Solves(from)
  <2> HIDE DEF Solves, level
  <2> QED
    BY <1>2, Zenon
<1>4. FillLevel(f) = from[f.rd]
  BY DEF FillLevel
<1>5. \A w \in Word :
        from[w] = IF w = f.start THEN 0
                  ELSE Samples + from[AfterPacket(f, w + PacketSize)]
  <2> HIDE DEF from
  <2> QED
    BY <1>1, <1>3
<1> HIDE DEF from
<1> DEFINE S == {n \in Nat : \A c \in Place : Packets(c, b) = n => from[At(c)] = Filling(n)}
<1>6. 0 \in S
  <2>1. \A c \in Place : Packets(c, b) = 0 => from[At(c)] = 0
    BY <1>5, PacketsType, AtFits
  <2> QED
    BY <2>1, FillingZero
<1>7. \A n \in Nat : n \in S => n + 1 \in S
  <2> SUFFICES ASSUME NEW n \in Nat, n \in S, NEW c \in Place, Packets(c, b) = n + 1
               PROVE  from[At(c)] = Filling(n + 1)
    OBVIOUS
  <2>1. c # b
    BY PacketsType
  <2>2. At(c) \in Word /\ At(c) # f.start
    BY <2>1, AtFits, AtSame
  <2>3. from[At(c)] = Samples + from[At(Succ(c))]
    BY <1>5, <2>2, AfterPlace
  <2>4. Succ(c) \in Place /\ Packets(Succ(c), b) = n
    BY <2>1, SuccType, PacketsAfterRead
  <2>5. from[At(Succ(c))] = Filling(n)
    BY <2>4
  <2> QED
    BY <2>3, <2>5, FillingStep, FifoAssumption
<1>8. Nat \subseteq S
  <2> HIDE DEF S
  <2> QED
    BY <1>6, <1>7, SetInduction
<1>9. Packets(a, b) \in Nat
  BY PacketsType, PlacesType
<1>10. from[At(a)] = Filling(Packets(a, b))
  BY <1>8, <1>9
<1> QED
  BY <1>4, <1>10

-----------------------------------------------------------------------------
(***************************************************************************)
(* What the ring holds.                                                    *)
(***************************************************************************)
\* The places of packets that are written and not yet released.
Full(a, b, c) == IF a <= b THEN a <= c /\ c < b ELSE a <= c \/ c < b

\* The data block count of the packet at c: one in the ring, or the one being
\* written at b.
Tag(f, c, b) == IF c = b THEN f.dbc ELSE f.buf[At(c) + 1]

\* The samples of the packet being written.
Begun(f) == IF f.count = 0 THEN 0 ELSE f.count - 2

\* The samples that were pushed since the packet at a began.
Fed(f, a, b) == Filling(Packets(a, b)) + Begun(f)

WholePacket(f, c, tag) == \A w \in At(c) .. At(c) + PacketSize - 1 : f.buf[w] = tag

\* From place a to place b there are whole packets, one after the other, and at b
\* what the count says of the packet being written.
Ring(f, a, b) ==
  /\ f.rd = At(a) /\ f.start = At(b)
  /\ f.count # 1 /\ f.count # 2
  /\ \A c \in Place : Full(a, b, c) =>
       /\ WholePacket(f, c, Tag(f, c, b))
       /\ Tag(f, Succ(c), b) = (Tag(f, c, b) + Samples) % DbcMod
  /\ \A w \in At(b) .. At(b) + f.count - 1 : f.buf[w] = f.dbc

LEMMA PlacesApart ==
  ASSUME NEW c \in Place, NEW d \in Place, c # d,
         NEW w \in At(c) .. At(c) + PacketSize - 1
  PROVE  /\ w \in Word
         /\ w \notin At(d) .. At(d) + PacketSize - 1
<1>1. /\ c \in Nat /\ d \in Nat /\ At(c) \in Nat /\ At(d) \in Nat
      /\ w \in Word
  BY AtFits
<1>2. CASE c < d
  BY <1>1, <1>2, AtGrows, PlacesType
<1>3. CASE d < c
  BY <1>1, <1>3, AtGrows, PlacesType
<1> QED
  BY <1>1, <1>2, <1>3

\* One word that tells of a packet is its second.
LEMMA TagWord ==
  ASSUME NEW c \in Place
  PROVE  At(c) + 1 \in At(c) .. At(c) + PacketSize - 1
BY AtFits, PlacesType

LEMMA FullFirst ==
  ASSUME NEW a \in Place, NEW b \in Place, a # b PROVE Full(a, b, a)
BY PlacesType DEF Full, Place

LEMMA FullBefore ==
  ASSUME NEW a \in Place, NEW b \in Place, NEW c \in Place, Full(a, b, c)
  PROVE  /\ c # b
         /\ Succ(c) = b \/ Full(a, b, Succ(c))
BY PlacesType DEF Full, Place, Succ

LEMMA FullAfterRead ==
  ASSUME NEW a \in Place, NEW b \in Place, NEW c \in Place, a # b,
         Full(Succ(a), b, c)
  PROVE  Full(a, b, c)
BY PlacesType DEF Full, Place, Succ

LEMMA FullAfterWrite ==
  ASSUME NEW a \in Place, NEW b \in Place, NEW c \in Place, Packets(a, b) + 1 < Places,
         Full(a, Succ(b), c)
  PROVE  Full(a, b, c) \/ c = b
BY PlacesType DEF Full, Place, Succ, Packets

LEMMA SuccDiffers ==
  ASSUME NEW b \in Place, Places > 1 PROVE Succ(b) # b
BY PlacesType DEF Place, Succ

\* An empty FIFO is a ring without a packet.
Clean(f) == f.rd = 0 /\ f.start = 0 /\ f.wr = 0 /\ f.count = 0 /\ f.dbc = 0

LEMMA CleanRing ==
  ASSUME NEW f, Clean(f)
  PROVE  Ring(f, 0, 0) /\ Fed(f, 0, 0) = 0 /\ Tag(f, 0, 0) = 0
<1>1. \A c \in Place : ~Full(0, 0, c)
  BY PlacesType DEF Full, Place
<1>2. \A w \in At(0) .. At(0) + f.count - 1 : f.buf[w] = f.dbc
  BY AtZero DEF Clean
<1>3. Ring(f, 0, 0)
  BY <1>1, <1>2, AtZero DEF Clean, Ring
<1>4. Packets(0, 0) = 0
  BY DEF Packets
<1> QED
  BY <1>3, <1>4, FillingZero DEF Clean, Fed, Begun, Tag

LEMMA FlushCleans == ASSUME NEW f \in Fifo PROVE Clean(Flush(f)) /\ Clean(Enable(f))
<1>1. Clean(Flush(f)) /\ Flush(f) \in Fifo
  BY FlushKeeps DEF Flush, Clean, Fifo, Pointers
<1>2. Enable(f) = [Flush(f) EXCEPT !.size = PacketSize]
  BY DEF Enable
<1> HIDE DEF PacketSize
<1> QED
  BY <1>1, <1>2 DEF Clean, Fifo

\* A clean FIFO has its pointers at place 0.
LEMMA CleanPlaces ==
  ASSUME NEW f, Clean(f), NEW a \in Place, NEW b \in Place, Ring(f, a, b)
  PROVE  a = 0 /\ b = 0 /\ Fed(f, a, b) = 0
<1>1. a = 0 /\ b = 0
  <2>1. At(a) = At(0) /\ At(b) = At(0)
    BY AtZero DEF Ring, Clean
  <2> QED
    BY <2>1, AtSame, AtFits
<1> QED
  BY <1>1, CleanRing

LEMMA BegunType ==
  ASSUME NEW f, Pointers(f), NEW a \in Place, NEW b \in Place, Ring(f, a, b)
  PROVE  Begun(f) \in 0 .. Samples - 1 /\ Fed(f, a, b) \in Nat /\ Filling(Packets(a, b)) \in Nat
<1>1. f.count \in 0 .. PacketSize - 1 /\ f.count # 1 /\ f.count # 2
  BY DEF Pointers, Fifo, Ring
<1>2. Begun(f) \in 0 .. Samples - 1
  BY <1>1, FifoAssumption DEF Begun
<1>3. Filling(Packets(a, b)) \in Nat
  BY PacketsType, PlacesType, FillingStep
<1> QED
  BY <1>2, <1>3, FifoAssumption DEF Fed

\* What media_input_fifo_get_packet hands out is the count of the packet at a.
LEMMA ReadsTag ==
  ASSUME NEW f, NEW a \in Place, NEW b \in Place, Ring(f, a, b), a # b
  PROVE  PacketDbc(f) = Tag(f, a, b)
BY DEF PacketDbc, Ring, Tag

LEMMA ReleaseMoves ==
  ASSUME NEW f, Pointers(f), f.size = PacketSize,
         NEW a \in Place, NEW b \in Place, Ring(f, a, b), a # b
  PROVE  /\ Ring(ReleasePacket(f), Succ(a), b)
         /\ Fed(ReleasePacket(f), Succ(a), b) = Fed(f, a, b) - Samples
         /\ Filling(Packets(Succ(a), b)) = Filling(Packets(a, b)) - Samples
         /\ Tag(ReleasePacket(f), Succ(a), b) = (Tag(f, a, b) + Samples) % DbcMod
<1> DEFINE h == ReleasePacket(f)
<1>1. AfterPacket(f, f.rd + f.size) = At(Succ(a)) /\ Succ(a) \in Place
  BY AfterPlace, SuccType DEF Ring
<1>2. /\ h.rd = At(Succ(a)) /\ h.start = f.start /\ h.count = f.count
      /\ h.dbc = f.dbc /\ h.buf = f.buf
  <2>1. h = [f EXCEPT !.rd = At(Succ(a))]
    BY <1>1, Zenon DEF ReleasePacket
  <2> HIDE DEF h
  <2> QED
    BY <2>1 DEF Pointers, Fifo
<1> HIDE DEF h
<1>3. \A c : Tag(h, c, b) = Tag(f, c, b)
  BY <1>2 DEF Tag
<1>4. Begun(h) = Begun(f)
  BY <1>2 DEF Begun
<1>5. Ring(h, Succ(a), b)
  <2>1. ASSUME NEW c \in Place, Full(Succ(a), b, c)
        PROVE  /\ WholePacket(h, c, Tag(h, c, b))
               /\ Tag(h, Succ(c), b) = (Tag(h, c, b) + Samples) % DbcMod
    <3>1. Full(a, b, c)
      BY <2>1, FullAfterRead
    <3>2. WholePacket(f, c, Tag(f, c, b))
          /\ Tag(f, Succ(c), b) = (Tag(f, c, b) + Samples) % DbcMod
      BY <3>1 DEF Ring
    <3> QED
      BY <1>2, <1>3, <3>2 DEF WholePacket
  <2> QED
    BY <1>2, <2>1 DEF Ring
<1>6. Filling(Packets(Succ(a), b)) = Filling(Packets(a, b)) - Samples
  <2> DEFINE m == Packets(a, b) - 1
  <2>1. m \in Nat /\ Packets(a, b) = m + 1 /\ Packets(Succ(a), b) = m
    BY PacketsType, PlacesType, PacketsAfterRead
  <2> HIDE DEF m
  <2>2. Filling(m + 1) = Filling(m) + Samples /\ Filling(m) \in Nat
    BY <2>1, FillingStep
  <2> QED
    BY <2>1, <2>2, FifoAssumption
<1>7. Fed(h, Succ(a), b) = Fed(f, a, b) - Samples
  BY <1>4, <1>6, BegunType, FifoAssumption DEF Fed
<1>8. Tag(h, Succ(a), b) = (Tag(f, a, b) + Samples) % DbcMod
  BY <1>3, FullFirst DEF Ring
<1> QED
  BY <1>5, <1>6, <1>7, <1>8 DEF h

\* The word or words that a sample adds to the packet being written: those of the
\* packets that are complete stay.
LEMMA SampleAdds ==
  ASSUME NEW f, Pointers(f), f.size = PacketSize,
         NEW a \in Place, NEW b \in Place, Ring(f, a, b),
         NEW g, g = IF f.count = 0 THEN BeginPacket(f) ELSE AddSample(f)
  PROVE  /\ g.rd = f.rd /\ g.start = f.start /\ g.size = f.size /\ g.dbc = f.dbc
         /\ g.count \in 3 .. PacketSize /\ g.count - 2 = Begun(f) + 1
         /\ \A w \in At(b) .. At(b) + g.count - 1 : g.buf[w] = f.dbc
         /\ \A c \in Place : c # b =>
              \A w \in At(c) .. At(c) + PacketSize - 1 : g.buf[w] = f.buf[w]
<1>1. /\ f \in Fifo /\ f.wr = f.start + f.count /\ f.start = At(b)
      /\ f.count \in 0 .. PacketSize - 1 /\ f.count # 1 /\ f.count # 2
      /\ f.dbc \in Dbc /\ f.buf \in [Word -> Dbc \union {Stale}]
  BY DEF Pointers, Fifo, Ring
<1>2. /\ At(b) \in Nat /\ At(b) + PacketSize <= FifoEnd
      /\ At(b) .. At(b) + PacketSize - 1 \subseteq Word
      /\ PacketSize \in Nat /\ PacketSize >= 3 /\ FifoEnd \in Nat
  BY AtFits, PlacesType
<1>3. CASE f.count = 0
  <2> DEFINE buf == [w \in Word |-> IF w \in f.start .. f.start + 2 THEN f.dbc ELSE f.buf[w]]
  <2>1. g = [f EXCEPT !.buf = buf, !.wr = f.start + 3, !.count = 3]
    BY <1>3 DEF BeginPacket
  <2>2. \A w \in At(b) .. At(b) + 2 : w \in Word /\ buf[w] = f.dbc
    BY <1>1, <1>2
  <2>3. ASSUME NEW c \in Place, c # b, NEW w \in At(c) .. At(c) + PacketSize - 1
        PROVE  buf[w] = f.buf[w]
    <3>1. w \in Word /\ w \notin At(b) .. At(b) + PacketSize - 1
      BY <2>3, PlacesApart
    <3>2. w \notin f.start .. f.start + 2
      BY <1>1, <1>2, <3>1
    <3> QED
      BY <3>1, <3>2
  <2> HIDE DEF buf
  <2>4. /\ g.rd = f.rd /\ g.start = f.start /\ g.size = f.size /\ g.dbc = f.dbc
        /\ g.count = 3 /\ g.buf = buf
    BY <2>1, <1>1 DEF Fifo
  <2>5. At(b) + g.count - 1 = At(b) + 2
    BY <1>2, <2>4
  <2>6. Begun(f) = 0
    BY <1>3 DEF Begun
  <2>7. \A w \in At(b) .. At(b) + g.count - 1 : g.buf[w] = f.dbc
    BY <2>2, <2>4, <2>5
  <2>8. \A c \in Place : c # b =>
              \A w \in At(c) .. At(c) + PacketSize - 1 : g.buf[w] = f.buf[w]
    BY <2>3, <2>4
  <2> QED
    BY <1>2, <2>4, <2>6, <2>7, <2>8
<1>4. CASE f.count # 0
  <2> DEFINE buf == [f.buf EXCEPT ![f.wr] = f.dbc]
  <2>0. f.wr \in Word /\ f.wr \in At(b) .. At(b) + PacketSize - 1
    BY <1>1, <1>2
  <2>1. g = [f EXCEPT !.buf = buf, !.wr = f.wr + 1, !.count = f.count + 1]
    BY <1>4, <1>1 DEF AddSample, Fifo
  <2>2. ASSUME NEW w \in At(b) .. At(b) + f.count PROVE buf[w] = f.dbc
    <3>1. w \in Word
      BY <1>1, <1>2
    <3>2. CASE w = f.wr
      BY <1>1, <3>1, <3>2
    <3>3. CASE w # f.wr
      <4>1. w \in At(b) .. At(b) + f.count - 1
        <5>1. w # At(b) + f.count
          BY <1>1, <3>3
        <5>2. At(b) \in Nat /\ f.count \in Nat
          BY <1>1, <1>2
        <5> HIDE DEF At
        <5> QED
          BY <2>2, <5>1, <5>2
      <4>2. f.buf[w] = f.dbc
        BY <4>1 DEF Ring
      <4> QED
        BY <1>1, <3>1, <3>3, <4>2
    <3> QED
      BY <3>2, <3>3
  <2>3. ASSUME NEW c \in Place, c # b, NEW w \in At(c) .. At(c) + PacketSize - 1
        PROVE  buf[w] = f.buf[w]
    <3>1. w \in Word /\ w # f.wr
      BY <2>0, <2>3, PlacesApart
    <3> QED
      BY <1>1, <3>1
  <2> HIDE DEF buf
  <2>4. /\ g.rd = f.rd /\ g.start = f.start /\ g.size = f.size /\ g.dbc = f.dbc
        /\ g.count = f.count + 1 /\ g.buf = buf
    BY <2>1, <1>1 DEF Fifo
  <2>5. At(b) + g.count - 1 = At(b) + f.count
    BY <1>1, <1>2, <2>4
  <2>6. Begun(f) = f.count - 2
    BY <1>4 DEF Begun
  <2>7. \A w \in At(b) .. At(b) + g.count - 1 : g.buf[w] = f.dbc
    BY <2>2, <2>4, <2>5
  <2>8. \A c \in Place : c # b =>
              \A w \in At(c) .. At(c) + PacketSize - 1 : g.buf[w] = f.buf[w]
    BY <2>3, <2>4
  <2>9. g.count \in 3 .. PacketSize /\ g.count - 2 = Begun(f) + 1
    <3>1. /\ f.count \in 0 .. PacketSize - 1 /\ f.count # 0 /\ f.count # 1 /\ f.count # 2
          /\ g.count = f.count + 1 /\ Begun(f) = f.count - 2
      BY <1>1, <1>4, <2>4, <2>6
    <3> QED
      BY <1>2, <3>1
  <2> QED
    BY <2>4, <2>7, <2>8, <2>9
<1> QED
  BY <1>3, <1>4

\* A sample pushed while there is room for one more packet between the packet
\* being written and the one being read leaves a ring that holds a sample more and
\* begins with the same packet.
LEMMA PushFills ==
  ASSUME NEW f, Pointers(f), f.size = PacketSize,
         NEW a \in Place, NEW b \in Place, Ring(f, a, b),
         Fed(f, a, b) + 1 < Filling(Places)
  PROVE  \E d \in Place :
           /\ Ring(PushSample(f), a, d)
           /\ Fed(PushSample(f), a, d) = Fed(f, a, b) + 1
           /\ Tag(PushSample(f), a, d) = Tag(f, a, b)
           /\ a # b => a # d
<1> DEFINE g == IF f.count = 0 THEN BeginPacket(f) ELSE AddSample(f)
<1>1. /\ g.rd = f.rd /\ g.start = f.start /\ g.size = f.size /\ g.dbc = f.dbc
      /\ g.count \in 3 .. PacketSize /\ g.count - 2 = Begun(f) + 1
      /\ \A w \in At(b) .. At(b) + g.count - 1 : g.buf[w] = f.dbc
      /\ \A c \in Place : c # b =>
           \A w \in At(c) .. At(c) + PacketSize - 1 : g.buf[w] = f.buf[w]
  BY SampleAdds
<1>2. PushSample(f) = IF g.count = PacketSize THEN EndPacket(g) ELSE g
  BY NeverRefused DEF PushSample
<1>3. \A c \in Place : c # b => g.buf[At(c) + 1] = f.buf[At(c) + 1]
  BY <1>1, TagWord
<1>4. f.rd = At(a) /\ f.start = At(b)
  BY DEF Ring
<1>5. Begun(f) \in 0 .. Samples - 1 /\ Filling(Packets(a, b)) \in Nat
      /\ Fed(f, a, b) = Filling(Packets(a, b)) + Begun(f)
  BY BegunType DEF Fed
<1>6. PacketSize \in Nat /\ PacketSize >= 3 /\ PacketSize - 2 = Samples
  BY PlacesType, FifoAssumption
<1> HIDE DEF g
<1>7. CASE g.count # PacketSize
  <2>1. PushSample(f) = g
    BY <1>2, <1>7
  <2>2. \A c \in Place : Tag(g, c, b) = Tag(f, c, b)
    BY <1>1, <1>3 DEF Tag
  <2>3. Begun(g) = Begun(f) + 1
    BY <1>1, <1>6 DEF Begun
  <2>4. Ring(g, a, b)
    <3>1. ASSUME NEW c \in Place, Full(a, b, c)
          PROVE  /\ WholePacket(g, c, Tag(g, c, b))
                 /\ Tag(g, Succ(c), b) = (Tag(g, c, b) + Samples) % DbcMod
      <4>1. c # b /\ Succ(c) \in Place
        BY <3>1, FullBefore, SuccType
      <4>2. WholePacket(f, c, Tag(f, c, b))
            /\ Tag(f, Succ(c), b) = (Tag(f, c, b) + Samples) % DbcMod
        BY <3>1 DEF Ring
      <4>3. WholePacket(g, c, Tag(g, c, b))
        BY <1>1, <2>2, <4>1, <4>2 DEF WholePacket
      <4> QED
        BY <2>2, <4>1, <4>2, <4>3
    <3>2. g.count # 1 /\ g.count # 2
      BY <1>1, <1>6
    <3> QED
      BY <1>1, <1>4, <3>1, <3>2 DEF Ring
  <2>5. Fed(g, a, b) = Fed(f, a, b) + 1
    BY <1>5, <2>3 DEF Fed
  <2> QED
    BY <2>1, <2>2, <2>4, <2>5
<1>8. CASE g.count = PacketSize
  <2> DEFINE h == EndPacket(g)
             d == Succ(b)
  <2>1. /\ h.rd = g.rd /\ h.start = At(d) /\ h.count = 0 /\ h.buf = g.buf
        /\ h.dbc = (g.dbc + Samples) % DbcMod
    <3>1. g.wr = At(b) + PacketSize
      <4>1. g.wr = g.start + g.count
        <5>1. f.wr = f.start + f.count /\ f \in Fifo
          BY DEF Pointers
        <5>2. f.start \in Nat /\ f.count \in Nat
          BY <5>1, <1>6 DEF Fifo
        <5>3. CASE f.count = 0
          BY <5>1, <5>2, <5>3 DEF g, BeginPacket, Fifo
        <5>4. CASE f.count # 0
          BY <5>1, <5>2, <5>4 DEF g, AddSample, Fifo
        <5> QED
          BY <5>3, <5>4
      <4> QED
        BY <1>1, <1>4, <1>8, <4>1
    <3>2. AfterPacket(g, g.wr) = At(d)
      BY <1>1, <3>1, AfterPlace
    <3>3. h = [g EXCEPT !.wr = At(d), !.start = At(d),
                        !.dbc = (@ + g.size - 2) % DbcMod, !.count = 0]
      BY <3>2, Zenon DEF EndPacket
    <3>4. g = [rd |-> g.rd, wr |-> g.wr, start |-> g.start, count |-> g.count,
               size |-> g.size, dbc |-> g.dbc, buf |-> g.buf]
      <4>1. f \in Fifo
        BY DEF Pointers
      <4>2. CASE f.count = 0
        BY <4>1, <4>2 DEF g, BeginPacket, Fifo
      <4>3. CASE f.count # 0
        BY <4>1, <4>3 DEF g, AddSample, Fifo
      <4> QED
        BY <4>2, <4>3
    <3>5. h.dbc = (g.dbc + g.size - 2) % DbcMod
          /\ h.rd = g.rd /\ h.start = At(d) /\ h.count = 0 /\ h.buf = g.buf
      <4> HIDE DEF h, d
      <4> QED
        BY <3>3, <3>4
    <3>6. g.dbc + g.size - 2 = g.dbc + Samples
      BY <1>1, <1>6, FifoAssumption DEF Pointers, Fifo, Dbc
    <3> QED
      BY <3>5, <3>6
  <2>2. PushSample(f) = h
    BY <1>2, <1>8
  <2> HIDE DEF h
  <2>3. Begun(f) + 1 = Samples
    BY <1>1, <1>6, <1>8, <1>5
  <2>4. Packets(a, b) \in Nat /\ Packets(a, b) + 1 < Places
    <3> DEFINE m == Packets(a, b)
    <3>1. m \in Nat
      BY PacketsType, PlacesType
    <3>2. Fed(f, a, b) + 1 = Filling(m + 1)
      <4>1. Filling(m + 1) = Filling(m) + Samples
        BY <3>1, FillingStep
      <4> QED
        BY <1>5, <2>3, <4>1, FifoAssumption
    <3> HIDE DEF m
    <3>3. m + 1 < Places
      BY <3>1, <3>2, FillingLess, PlacesType
    <3> QED
      BY <3>1, <3>3 DEF m
  <2>5. d \in Place /\ d # b /\ Packets(a, d) = Packets(a, b) + 1
    BY <2>4, SuccType, SuccDiffers, PacketsAfterWrite, PlacesType
  <2>6. Tag(h, d, d) = (f.dbc + Samples) % DbcMod
    BY <1>1, <2>1 DEF Tag
  <2>7. Tag(h, b, d) = f.dbc /\ WholePacket(h, b, f.dbc)
    <3>1. \A w \in At(b) .. At(b) + PacketSize - 1 : h.buf[w] = f.dbc
      BY <1>1, <1>8, <2>1
    <3> QED
      BY <2>5, <3>1, TagWord DEF Tag, WholePacket
  <2>8. \A c \in Place : c # b /\ c # d => Tag(h, c, d) = Tag(f, c, b)
    BY <1>3, <2>1 DEF Tag
  <2>9. Tag(f, b, b) = f.dbc
    BY DEF Tag
  <2>10. ASSUME NEW c \in Place, Full(a, d, c)
         PROVE  /\ WholePacket(h, c, Tag(h, c, d))
                /\ Tag(h, Succ(c), d) = (Tag(h, c, d) + Samples) % DbcMod
    <3>1. CASE c = b
      BY <2>6, <2>7, <3>1
    <3>2. CASE c # b
      <4>1. Full(a, b, c)
        BY <2>4, <2>10, <3>2, FullAfterWrite
      <4>2. c # d
        BY <2>5, <2>10, FullBefore
      <4>3. Tag(h, c, d) = Tag(f, c, b)
        BY <2>8, <3>2, <4>2
      <4>4. WholePacket(f, c, Tag(f, c, b))
            /\ Tag(f, Succ(c), b) = (Tag(f, c, b) + Samples) % DbcMod
        BY <4>1 DEF Ring
      <4>5. WholePacket(h, c, Tag(h, c, d))
        BY <1>1, <2>1, <3>2, <4>3, <4>4 DEF WholePacket
      <4>6. Succ(c) \in Place /\ Succ(c) # d
        <5>1. Succ(c) # Succ(b)
          BY <3>2, PlacesType DEF Place, Succ
        <5> QED
          BY <5>1, SuccType
      <4>7. Tag(h, Succ(c), d) = Tag(f, Succ(c), b)
        BY <2>7, <2>8, <2>9, <4>6
      <4> QED
        BY <4>3, <4>4, <4>5, <4>7
    <3> QED
      BY <3>1, <3>2
  <2>11. Ring(h, a, d)
    <3>1. \A w \in At(d) .. At(d) + h.count - 1 : h.buf[w] = h.dbc
      BY <2>1, <2>5, AtFits
    <3> HIDE DEF d
    <3> QED
      BY <1>1, <1>4, <2>1, <2>10, <3>1 DEF Ring
  <2>12. Fed(h, a, d) = Fed(f, a, b) + 1
    <3> DEFINE m == Packets(a, b)
    <3>1. Filling(m + 1) = Filling(m) + Samples
      BY <2>4, FillingStep
    <3>2. Begun(h) = 0
      BY <2>1 DEF Begun
    <3> HIDE DEF d
    <3>3. Fed(h, a, d) = Filling(m + 1)
      <4>1. Filling(m + 1) \in Nat
        BY <2>4, FillingStep
      <4> QED
        BY <2>5, <3>2, <4>1 DEF Fed
    <3> QED
      BY <1>5, <2>3, <3>1, <3>3, FifoAssumption
  <2>13. a # d
    <3>1. Packets(a, d) # 0
      BY <2>4, <2>5
    <3> QED
      BY <2>5, <3>1, PacketsType
  <2>14. Tag(h, a, d) = Tag(f, a, b)
    BY <2>7, <2>8, <2>9, <2>13
  <2> QED
    BY <2>2, <2>5, <2>11, <2>12, <2>13, <2>14
<1> QED
  BY <1>7, <1>8

LEMMA PushLeavesRead ==
  ASSUME NEW f, Pointers(f), f.size = PacketSize,
         NEW a \in Place, NEW b \in Place, Ring(f, a, b)
  PROVE  PushSample(f).rd = f.rd
<1>1. f \in Fifo /\ ~Refused(f)
  BY NeverRefused DEF Pointers
<1>2. CASE f.count = 0
  BY <1>1, <1>2 DEF PushSample, BeginPacket, EndPacket, Fifo
<1>3. CASE f.count # 0
  BY <1>1, <1>3 DEF PushSample, AddSample, EndPacket, Fifo
<1> QED
  BY <1>2, <1>3

-----------------------------------------------------------------------------
(***************************************************************************)
(* The stream, when the talker keeps up.                                   *)
(***************************************************************************)
\* The samples with which a stream starts: whole packets, StartLevel or more.
StartFill == Filling((StartLevel + Samples - 1) \div Samples)

\* A packet on the wire takes as many samples as come in the time from one to the
\* next, the FIFO is deep enough for two packets before the stream starts, and
\* there is one more packet in it than the stream starts with and the talker is
\* late for.
KeepsUp ==
  /\ \A n \in WireSamples : Period <= n
  /\ 2 * Samples <= StartLevel
  /\ StartFill + MaxLate < Filling(Places - 1)

\* The sample the audio thread has yet to push in this frame.
Due == IF audio.at = "sample" /\ audio.active THEN 1 ELSE 0

\* What the two threads know of one another.
ThreadsInv ==
  /\ ~audio.active /\ ~ind => Clean(fifo)
  /\ ~audio.active /\ audio.at = "indicate" => Clean(fifo)
  /\ audio.at = "read" => ind = audio.active
  /\ stream.active = 2 => source = "ENABLED"
  /\ source = "ENABLED" => req

\* A stream that is started finds the FIFO empty, and fills it from place 0.
Starting(a, b) ==
  /\ ~audio.active => Clean(fifo) /\ stream.initial
  /\ ~ind => stream.initial /\ Fed(fifo, a, b) <= 1 /\ (audio.at # "indicate" => Clean(fifo))
  /\ stream.initial => /\ a = 0 /\ stream.left = 0 /\ Tag(fifo, a, b) = 0
                       /\ Fed(fifo, a, b) + Due <= StartFill + late

\* A stream that was started is in packet a.  The samples that wait to be sent,
\* with those that come while the talker may not send, are those it started with
\* and those it was late for.
Flowing(a, b) ==
  ~stream.initial =>
    /\ a # b /\ stream.dbc = Tag(fifo, a, b)
    /\ stream.left + Fed(fifo, a, b) - Samples + wait + Due <= StartFill + late

StreamInv(a, b) == Ring(fifo, a, b) /\ Starting(a, b) /\ Flowing(a, b)

Streams == stream.active = 2 /\ ~hasty

TimelyInv ==
  /\ IInv /\ ThreadsInv
  /\ Streams => \E a, b \in Place : StreamInv(a, b)

LEMMA StartFillType ==
  /\ StartLevel \in Nat /\ StartFill \in Nat /\ StartLevel <= StartFill
  /\ \A m \in Nat : Filling(m) < StartLevel => Filling(m) + Samples <= StartFill
<1> DEFINE n == StartLevel + Samples - 1
           q == n \div Samples
<1>1. StartLevel \in Nat /\ Samples \in Nat \ {0} /\ n \in Nat
  BY FifoAssumption DEF StartLevel
<1>2. q \in Nat /\ Filling(q) <= n /\ n < Filling(q) + Samples
  <2> HIDE DEF n
  <2> QED
    BY <1>1, Quotient DEF Filling
<1>3. StartFill = Filling(q) /\ Filling(q) \in Nat
  BY <1>2, FillingStep DEF StartFill
<1> HIDE DEF q
<1>4. StartLevel <= StartFill
  BY <1>1, <1>2, <1>3
<1>5. ASSUME NEW m \in Nat, Filling(m) < StartLevel
      PROVE  Filling(m) + Samples <= StartFill
  <2>1. Filling(m) \in Nat
    BY FillingStep
  <2>2. m < q
    BY <1>1, <1>2, <1>3, <1>4, <1>5, <2>1, FillingLess
  <2> QED
    BY <1>2, <1>3, <2>2, FillingGrows
<1> QED
  BY <1>1, <1>3, <1>4, <1>5

\* What the types say of a stream.
LEMMA StreamTypes ==
  ASSUME IInv
  PROVE  /\ stream.left \in 0 .. Samples /\ stream.active \in 0 .. 2
         /\ stream.initial \in BOOLEAN
         /\ wait \in 0 .. Period /\ late \in 0 .. MaxLate
         /\ wait \in Nat /\ late \in Nat /\ late <= MaxLate
         /\ audio.active \in BOOLEAN /\ audio.at \in {"read", "sample", "indicate"}
         /\ ind \in BOOLEAN /\ Due \in 0 .. 1
         /\ Samples \in Nat \ {0} /\ Period \in Nat /\ MaxLate \in Nat
         /\ Pointers(fifo) /\ fifo \in Fifo
BY FifoAssumption, StreamAssumption DEF IInv, TypeOK, Stream, Due

LEMMA StreamConfigured ==
  ASSUME IInv, audio.active \/ stream.active # 0 PROVE fifo.size = PacketSize
BY FifoAssumption DEF IInv, TypeOK, Fifo, Unconfigured

\* In a stream that may be started or was, there is room for the next packet.
LEMMA StreamHasRoom ==
  ASSUME KeepsUp, IInv, NEW a \in Place, NEW b \in Place, StreamInv(a, b), Due = 1
  PROVE  Fed(fifo, a, b) + 1 < Filling(Places)
<1>1. Fed(fifo, a, b) \in Nat
  BY StreamTypes, BegunType DEF StreamInv
<1>2. Filling(Places) = Filling(Places - 1) + Samples /\ Filling(Places - 1) \in Nat
  <2> DEFINE m == Places - 1
  <2>1. m \in Nat /\ Places = m + 1
    BY PlacesType
  <2> HIDE DEF m
  <2>2. Filling(m + 1) = Filling(m) + Samples /\ Filling(m) \in Nat
    BY <2>1, FillingStep
  <2> QED
    BY <2>1, <2>2 DEF m
<1>3. StartFill + late < Filling(Places - 1) /\ StartFill \in Nat
  BY <1>2, StreamTypes, StartFillType DEF KeepsUp
<1>4. CASE stream.initial
  BY <1>1, <1>2, <1>3, <1>4, StreamTypes DEF StreamInv, Starting
<1>5. CASE ~stream.initial
  BY <1>1, <1>2, <1>3, <1>5, StreamTypes DEF StreamInv, Flowing
<1> QED
  BY <1>4, <1>5

LEMMA TimelyInit == Init => TimelyInv
<1> SUFFICES ASSUME Init PROVE TimelyInv
  OBVIOUS
<1>1. IInv
  BY IInvInit
<1>2. Clean(fifo)
  BY DEF Init, Flushed, Clean
<1>3. stream.active = 0 /\ source = "DISABLED" /\ ind = FALSE /\ audio.active = FALSE
  BY DEF Init
<1>4. ind = audio.active
  BY <1>3
<1>5. ~Streams /\ source # "ENABLED" /\ stream.active # 2
  BY <1>3 DEF Streams
<1>6. ThreadsInv
  BY <1>2, <1>4, <1>5 DEF ThreadsInv
<1> QED
  BY <1>1, <1>5, <1>6 DEF TimelyInv

-----------------------------------------------------------------------------
(***************************************************************************)
(* The talker's step.                                                      *)
(***************************************************************************)
LEMMA SendFacts ==
  ASSUME KeepsUp, TimelyInv, NEW n \in WireSamples, Send(n), ~hasty,
         NEW a \in Place, NEW b \in Place, StreamInv(a, b)
  PROVE  \E c \in Place :
           /\ StreamInv(c, b)'
           /\ ~stream'.initial
           /\ \/ fifo' = fifo
              \/ /\ ~stream.initial
                 /\ stream'.dbc = (stream.dbc + Samples) % DbcMod
           /\ stream.initial => stream'.dbc = 0 /\ fifo'.rd = 0
<1>1. IInv /\ stream.active = 2 /\ ind /\ fifo.size = PacketSize
  BY StreamConfigured DEF TimelyInv, Send, CanSend
<1>2. n \in 1 .. Samples /\ n \in Nat /\ Period <= n
  BY StreamAssumption, FifoAssumption DEF KeepsUp
<1>3. wait' \in Nat /\ wait' <= n
  <2>1. wait' \in {Period - 1, Period}
    BY Zenon DEF Send
  <2> QED
    BY <1>2, <2>1, StreamAssumption
<1>4. /\ Ring(fifo, a, b) /\ Fed(fifo, a, b) \in Nat
      /\ FillLevel(fifo) = Filling(Packets(a, b)) /\ Filling(Packets(a, b)) \in Nat
      /\ Fed(fifo, a, b) = Filling(Packets(a, b)) + Begun(fifo)
      /\ Begun(fifo) \in Nat
  <2>1. Ring(fifo, a, b) /\ Pointers(fifo)
    BY <1>1 DEF StreamInv, IInv
  <2>2. FillLevel(fifo) = Filling(Packets(a, b))
    BY <1>1, <2>1, FillLevelCounts DEF Ring
  <2> QED
    BY <2>1, <2>2, BegunType, FifoAssumption DEF Fed
<1>5. audio' = audio /\ ind' = ind /\ late' = late /\ Due' = Due
  BY DEF Send, Due
<1>6. /\ stream \in Stream /\ Samples \in Nat \ {0} /\ stream.left \in Nat
      /\ stream.left <= Samples /\ Due \in Nat /\ late \in Nat /\ StartFill \in Nat
  BY <1>1, StreamTypes, StartFillType, FifoAssumption DEF IInv, TypeOK
<1>7. audio.active \/ (stream.initial /\ Fed(fifo, a, b) = 0)
  BY <1>4, CleanPlaces DEF StreamInv, Starting
<1>8. CASE stream.initial
  <2>1. /\ fifo' = fifo
        /\ stream' = [stream EXCEPT !.initial = FALSE, !.left = Samples - n,
                                    !.dbc = PacketDbc(fifo)]
    BY <1>8 DEF Send
  <2>2. /\ ~stream'.initial /\ stream'.left = Samples - n
        /\ stream'.dbc = PacketDbc(fifo)
    BY <1>6, <2>1 DEF Stream
  <2>3. Filling(Packets(a, b)) >= 2 * Samples
    BY <1>4, <1>8, FifoAssumption DEF Send, CanSend, EnoughData
  <2>4. a # b
    <3>1. Packets(a, b) # 0
      BY <1>6, <2>3, FillingZero
    <3> QED
      BY <3>1, PacketsType
  <2>5. a = 0 /\ Tag(fifo, a, b) = 0 /\ Fed(fifo, a, b) + Due <= StartFill + late
    BY <1>8 DEF StreamInv, Starting
  <2>6. stream'.dbc = 0 /\ fifo'.rd = 0
    BY <1>4, <2>1, <2>2, <2>4, <2>5, ReadsTag, AtZero DEF Ring
  <2>7. audio.active
    BY <1>4, <1>6, <1>7, <2>3
  <2>8. Starting(a, b)'
    BY <1>1, <1>5, <2>2, <2>7 DEF Starting
  <2>9. stream'.left + Fed(fifo, a, b) - Samples + wait' + Due <= StartFill + late
    BY <1>2, <1>3, <1>4, <1>6, <2>2, <2>5
  <2>10. Flowing(a, b)'
    BY <1>5, <2>1, <2>4, <2>5, <2>6, <2>9 DEF Flowing
  <2> QED
    BY <1>4, <2>1, <2>2, <2>6, <2>8, <2>10 DEF StreamInv
<1>9. CASE ~stream.initial
  <2>1. /\ a # b /\ stream.dbc = Tag(fifo, a, b)
        /\ stream.left + Fed(fifo, a, b) - Samples + wait + Due <= StartFill + late
    BY <1>9 DEF StreamInv, Flowing
  <2>2. wait = 0
    BY <1>9 DEF Send, CanSend
  <2>3. audio.active
    BY <1>7, <1>9
  <2>4. CASE stream.left >= n
    <3>1. fifo' = fifo /\ stream' = [stream EXCEPT !.left = @ - n]
      BY <1>2, <1>6, <1>9, <2>4 DEF Send
    <3>2. ~stream'.initial /\ stream'.left = stream.left - n /\ stream'.dbc = stream.dbc
      BY <1>6, <1>9, <3>1 DEF Stream
    <3>3. Starting(a, b)'
      BY <1>1, <1>5, <2>3, <3>2 DEF Starting
    <3>4. stream'.left + Fed(fifo, a, b) - Samples + wait' + Due <= StartFill + late
      BY <1>2, <1>3, <1>4, <1>6, <2>1, <2>2, <3>2
    <3>5. Flowing(a, b)'
      BY <1>5, <2>1, <3>1, <3>2, <3>4 DEF Flowing
    <3> QED
      BY <1>4, <1>9, <3>1, <3>2, <3>3, <3>5 DEF StreamInv
  <2>5. CASE ~(stream.left >= n)
    <3>1. /\ fifo' = ReleasePacket(fifo)
          /\ stream' = [stream EXCEPT !.left = Samples - (n - @), !.dbc = PacketDbc(fifo')]
      BY <1>2, <1>6, <1>9, <2>5 DEF Send
    <3>2. /\ ~stream'.initial /\ stream'.left = Samples - (n - stream.left)
          /\ stream'.dbc = PacketDbc(fifo')
      BY <1>6, <1>9, <3>1 DEF Stream
    <3>3. Filling(Packets(a, b)) >= 2 * Samples
      BY <1>2, <1>4, <1>6, <2>5, FifoAssumption DEF Send, CanSend, EnoughData
    <3>4. /\ Succ(a) \in Place
          /\ Ring(fifo', Succ(a), b)
          /\ Fed(fifo', Succ(a), b) = Fed(fifo, a, b) - Samples
          /\ Filling(Packets(Succ(a), b)) = Filling(Packets(a, b)) - Samples
          /\ Tag(fifo', Succ(a), b) = (Tag(fifo, a, b) + Samples) % DbcMod
      BY <1>1, <1>4, <2>1, <3>1, ReleaseMoves, SuccType, StreamTypes
    <3>5. Succ(a) # b
      <4>1. Packets(Succ(a), b) # 0
        BY <1>4, <1>6, <3>3, <3>4, FillingZero
      <4> QED
        BY <3>4, <4>1, PacketsType
    <3>6. stream'.dbc = Tag(fifo', Succ(a), b)
      BY <3>2, <3>4, <3>5, ReadsTag
    <3>7. Starting(Succ(a), b)'
      BY <1>1, <1>5, <2>3, <3>2 DEF Starting
    <3>8. stream'.left + Fed(fifo', Succ(a), b) - Samples + wait' + Due <= StartFill + late
      BY <1>2, <1>3, <1>4, <1>6, <2>1, <2>2, <3>2, <3>4
    <3>9. Flowing(Succ(a), b)'
      BY <1>5, <3>5, <3>6, <3>8 DEF Flowing
    <3>10. StreamInv(Succ(a), b)'
      BY <3>4, <3>7, <3>9 DEF StreamInv
    <3>11. stream'.dbc = (stream.dbc + Samples) % DbcMod
      BY <2>1, <3>4, <3>6
    <3> QED
      BY <1>9, <3>2, <3>4, <3>10, <3>11
  <2> QED
    BY <2>4, <2>5
<1> QED
  BY <1>8, <1>9

\* Nothing is taken out of a FIFO that is empty.
LEMMA SendLeavesClean ==
  ASSUME IInv, NEW n \in WireSamples, Send(n), Clean(fifo) PROVE fifo' = fifo
<1>1. stream.active = 2 /\ fifo.size = PacketSize /\ Samples \in Nat \ {0}
  BY StreamConfigured, FifoAssumption DEF Send, CanSend
<1>2. FillLevel(fifo) = Filling(Packets(0, 0))
  <2>1. Ring(fifo, 0, 0) /\ 0 \in Place
    BY CleanRing, AtZero
  <2>2. fifo.rd = At(0) /\ fifo.start = At(0)
    BY <2>1 DEF Ring
  <2> QED
    BY <1>1, <2>1, <2>2, FillLevelCounts
<1>3. FillLevel(fifo) = 0
  BY <1>2, FillingZero DEF Packets
<1>4. ~(FillLevel(fifo) >= 2 * Samples)
  BY <1>1, <1>3
<1>5. ~stream.initial /\ ~(stream.left < n)
  BY <1>4 DEF Send, CanSend, EnoughData
<1> QED
  BY <1>5 DEF Send

-----------------------------------------------------------------------------
(***************************************************************************)
(* The steps of the three threads.                                         *)
(***************************************************************************)
LEMMA TimelySend ==
  ASSUME KeepsUp, TimelyInv, NEW n \in WireSamples, Send(n) PROVE TimelyInv'
<1>1. IInv /\ IInv'
  BY SendKeeps DEF TimelyInv
<1>2. stream.active = 2 /\ ind
  BY DEF Send, CanSend
<1>3. audio' = audio /\ ind' = ind /\ req' = req /\ source' = source /\ hasty' = hasty
  BY DEF Send
<1>4. source = "ENABLED" /\ req
  BY <1>2 DEF TimelyInv, ThreadsInv
<1>5. Clean(fifo) => Clean(fifo')
  BY <1>1, SendLeavesClean
<1>6. ThreadsInv'
  BY <1>2, <1>3, <1>4, <1>5 DEF TimelyInv, ThreadsInv
<1>7. ASSUME Streams' PROVE \E a, b \in Place : StreamInv(a, b)'
  <2>1. Streams
    BY <1>2, <1>3, <1>7 DEF Streams
  <2>2. PICK a \in Place, b \in Place : StreamInv(a, b)
    BY <2>1 DEF TimelyInv
  <2>3. \E c \in Place : StreamInv(c, b)'
    BY <2>1, <2>2, SendFacts DEF Streams
  <2> QED
    BY <2>3
<1> QED
  BY <1>1, <1>6, <1>7 DEF TimelyInv

LEMMA TimelyRead ==
  ASSUME KeepsUp, TimelyInv, ReadRequest PROVE TimelyInv'
<1>0. IInv' /\ IInv
  BY IInvNext DEF TimelyInv, Next
<1>1. /\ audio.at = "read" /\ audio'.at = "sample" /\ audio'.active = req
      /\ wait' = (IF wait = 0 THEN 0 ELSE wait - 1)
      /\ late' = (IF Held THEN late + 1 ELSE late)
      /\ source' = source /\ fifo' = fifo /\ req' = req /\ ind' = ind
      /\ stream' = stream /\ hasty' = hasty
  BY DEF ReadRequest, Requested
<1>2. ind = audio.active
  BY <1>1 DEF TimelyInv, ThreadsInv
<1>3. ThreadsInv'
  BY <1>1, <1>2 DEF TimelyInv, ThreadsInv
<1>4. ASSUME Streams, NEW a \in Place, NEW b \in Place, StreamInv(a, b)
      PROVE  StreamInv(a, b)'
  <2>1. req /\ audio'.active
    BY <1>1, <1>4 DEF TimelyInv, ThreadsInv, Streams
  <2>2. Due = 0 /\ Due' = 1
    BY <1>1, <2>1 DEF Due
  <2>3. fifo.size = PacketSize /\ stream.active = 2
    BY <1>0, <1>4, StreamConfigured DEF Streams
  <2>4. /\ Ring(fifo, a, b) /\ Fed(fifo, a, b) \in Nat
        /\ FillLevel(fifo) = Filling(Packets(a, b)) /\ Filling(Packets(a, b)) \in Nat
        /\ Fed(fifo, a, b) = Filling(Packets(a, b)) + Begun(fifo)
        /\ Begun(fifo) \in 0 .. Samples - 1
    <3>1. Ring(fifo, a, b) /\ Pointers(fifo)
      BY <1>0, <1>4 DEF StreamInv, IInv
    <3>2. FillLevel(fifo) = Filling(Packets(a, b))
      BY <2>3, <3>1, FillLevelCounts DEF Ring
    <3> QED
      BY <3>1, <3>2, BegunType DEF Fed
  <2>5. /\ Samples \in Nat \ {0} /\ StartFill \in Nat /\ StartLevel \in Nat
        /\ 2 * Samples <= StartLevel /\ StartLevel <= StartFill
        /\ late \in Nat /\ wait \in Nat /\ stream.left \in Nat
    BY <1>0, StreamTypes, StartFillType DEF KeepsUp
  <2>6. PICK n \in WireSamples : TRUE
    BY StreamAssumption
  <2>7. n \in Nat /\ n <= Samples
    BY StreamAssumption, FifoAssumption
  <2>8. late' \in Nat /\ late' >= late /\ (Held => late' = late + 1)
    BY <1>1, <2>5
  <2>9. stream.initial => Fed(fifo, a, b) + 1 <= StartFill + late'
    <3>1. SUFFICES ASSUME stream.initial PROVE Fed(fifo, a, b) + 1 <= StartFill + late'
      OBVIOUS
    <3>2. Fed(fifo, a, b) <= StartFill + late
      BY <1>4, <2>2, <2>4, <2>5, <3>1 DEF StreamInv, Starting
    <3>3. CASE Held
      BY <2>4, <2>5, <2>8, <3>2, <3>3
    <3>4. CASE ~Held /\ ind
      <4>1. ~(FillLevel(fifo) >= StartLevel)
        <5>1. ~CanSend(n)
          BY <3>4 DEF Held
        <5>2. FillLevel(fifo) >= StartLevel => FillLevel(fifo) >= 2 * Samples
          BY <2>4, <2>5
        <5> QED
          BY <2>3, <3>1, <3>4, <5>1, <5>2 DEF CanSend, EnoughData
      <4>2. Filling(Packets(a, b)) + Samples <= StartFill
        <5>1. Packets(a, b) \in Nat
          BY PacketsType, PlacesType
        <5> QED
          BY <2>4, <2>5, <4>1, <5>1, StartFillType
      <4> QED
        BY <2>4, <2>5, <2>8, <4>2
    <3>5. CASE ~ind
      <4>1. Fed(fifo, a, b) <= 1
        BY <1>4, <3>5 DEF StreamInv, Starting
      <4> QED
        BY <2>4, <2>5, <2>8, <4>1
    <3> QED
      BY <3>3, <3>4, <3>5
  <2>10. ~stream.initial =>
           stream.left + Fed(fifo, a, b) - Samples + wait' + 1 <= StartFill + late'
    <3>1. SUFFICES ASSUME ~stream.initial
          PROVE stream.left + Fed(fifo, a, b) - Samples + wait' + 1 <= StartFill + late'
      OBVIOUS
    <3>2. stream.left + Fed(fifo, a, b) - Samples + wait <= StartFill + late
      BY <1>4, <2>2, <2>4, <2>5, <3>1 DEF StreamInv, Flowing
    <3>3. ind
      BY <1>4, <3>1 DEF StreamInv, Starting
    <3>4. CASE wait # 0
      <4>1. wait' = wait - 1
        BY <1>1, <3>4
      <4> QED
        BY <2>4, <2>5, <2>8, <3>2, <4>1
    <3>5. CASE wait = 0
      <4>1. wait' = 0
        BY <1>1, <3>5
      <4>2. CASE Held
        BY <2>4, <2>5, <2>8, <3>2, <3>5, <4>1, <4>2
      <4>3. CASE ~Held
        <5>1. stream.left < n /\ ~(FillLevel(fifo) >= 2 * Samples)
          <6>1. ~CanSend(n)
            BY <4>3 DEF Held
          <6> QED
            BY <2>3, <3>1, <3>3, <3>5, <6>1 DEF CanSend, EnoughData
        <5>2. Filling(Packets(a, b)) <= Samples
          <6>1. Packets(a, b) \in Nat
            BY PacketsType, PlacesType
          <6>2. Filling(2) = 2 * Samples
            BY <2>5 DEF Filling
          <6>3. Packets(a, b) < 2
            BY <2>4, <2>5, <5>1, <6>1, <6>2, FillingLess
          <6>4. Filling(0) = 0 /\ Filling(1) = Samples
            BY <2>5 DEF Filling
          <6>5. Packets(a, b) = 0 \/ Packets(a, b) = 1
            BY <6>1, <6>3
          <6> QED
            BY <2>5, <6>4, <6>5
        <5> QED
          BY <2>4, <2>5, <2>7, <2>8, <4>1, <5>1, <5>2
      <4> QED
        BY <4>2, <4>3
    <3> QED
      BY <3>4, <3>5
  <2>11. Starting(a, b)'
    <3>1. ~ind => stream.initial /\ Fed(fifo, a, b) <= 1 /\ Clean(fifo)
      BY <1>1, <1>4 DEF StreamInv, Starting
    <3>2. stream.initial => a = 0 /\ stream.left = 0 /\ Tag(fifo, a, b) = 0
      BY <1>4 DEF StreamInv, Starting
    <3> QED
      BY <1>1, <2>1, <2>2, <2>9, <3>1, <3>2 DEF Starting
  <2>12. Flowing(a, b)'
    <3>1. ~stream.initial => a # b /\ stream.dbc = Tag(fifo, a, b)
      BY <1>4 DEF StreamInv, Flowing
    <3> QED
      BY <1>1, <2>2, <2>10, <3>1 DEF Flowing
  <2> QED
    BY <1>1, <2>4, <2>11, <2>12 DEF StreamInv
<1>5. Streams' <=> Streams
  BY <1>1 DEF Streams
<1>6. Streams' => \E a, b \in Place : StreamInv(a, b)'
  BY <1>4, <1>5 DEF TimelyInv
<1> QED
  BY <1>0, <1>3, <1>6 DEF TimelyInv

LEMMA TimelySample ==
  ASSUME KeepsUp, TimelyInv, Sample PROVE TimelyInv'
<1>0. IInv' /\ IInv
  BY SampleKeeps DEF TimelyInv
<1>1. /\ audio.at = "sample" /\ audio'.at = "indicate" /\ audio'.active = audio.active
      /\ source' = source /\ req' = req /\ ind' = ind /\ stream' = stream
      /\ wait' = wait /\ late' = late /\ hasty' = hasty
  BY <1>0 DEF Sample, IInv, TypeOK
<1>2. ~audio.active => Clean(fifo')
  BY <1>0, FlushCleans, StreamTypes DEF Sample
<1>3. ThreadsInv'
  BY <1>1, <1>2 DEF TimelyInv, ThreadsInv
<1>4. Due' = 0
  BY <1>1 DEF Due
<1>5. ASSUME Streams, NEW a \in Place, NEW b \in Place, StreamInv(a, b)
      PROVE  \E c, d \in Place : StreamInv(c, d)'
  <2>1. Ring(fifo, a, b) /\ Pointers(fifo) /\ Fed(fifo, a, b) \in Nat
    BY <1>0, <1>5, BegunType DEF StreamInv, IInv
  <2>2. stream.left \in Nat /\ Samples \in Nat /\ wait \in Nat /\ late \in Nat
        /\ StartFill \in Nat
    BY <1>0, StreamTypes, StartFillType
  <2>3. CASE audio.active
    <3>1. Due = 1 /\ fifo.size = PacketSize /\ fifo' = PushSample(fifo)
      BY <1>0, <1>1, <2>3, StreamConfigured DEF Due, Sample
    <3>2. Fed(fifo, a, b) + 1 < Filling(Places)
      BY <1>0, <1>5, <3>1, StreamHasRoom
    <3>3. PICK d \in Place :
             /\ Ring(fifo', a, d)
             /\ Fed(fifo', a, d) = Fed(fifo, a, b) + 1
             /\ Tag(fifo', a, d) = Tag(fifo, a, b)
             /\ a # b => a # d
      BY <2>1, <3>1, <3>2, PushFills
    <3>4. ~ind => stream.initial /\ Fed(fifo', a, d) <= 1
      <4>1. SUFFICES ASSUME ~ind PROVE stream.initial /\ Fed(fifo', a, d) <= 1
        OBVIOUS
      <4>2. stream.initial /\ Clean(fifo)
        BY <1>1, <1>5, <4>1 DEF StreamInv, Starting
      <4>3. Fed(fifo, a, b) = 0
        BY <2>1, <4>2, CleanPlaces
      <4> QED
        BY <3>3, <4>2, <4>3
    <3>5. stream.initial => /\ a = 0 /\ stream.left = 0 /\ Tag(fifo', a, d) = 0
                            /\ Fed(fifo', a, d) <= StartFill + late
      BY <1>5, <2>1, <2>2, <3>1, <3>3 DEF StreamInv, Starting
    <3>6. Fed(fifo', a, d) + 0 = Fed(fifo', a, d)
      BY <2>1, <3>3
    <3>7. Starting(a, d)'
      BY <1>1, <1>4, <2>3, <3>4, <3>5, <3>6 DEF Starting
    <3>8. ~stream.initial => /\ a # d /\ stream.dbc = Tag(fifo', a, d)
                             /\ stream.left + Fed(fifo', a, d) - Samples + wait + 0
                                  <= StartFill + late
      BY <1>5, <2>1, <2>2, <3>1, <3>3 DEF StreamInv, Flowing
    <3>9. Flowing(a, d)'
      BY <1>1, <1>4, <3>8 DEF Flowing
    <3> QED
      BY <3>3, <3>7, <3>9 DEF StreamInv
  <2>4. CASE ~audio.active
    <3>1. stream.initial /\ stream.left = 0
      BY <1>5, <2>4 DEF StreamInv, Starting
    <3>2. Clean(fifo')
      BY <1>2, <2>4
    <3>3. Ring(fifo', 0, 0) /\ Fed(fifo', 0, 0) = 0 /\ Tag(fifo', 0, 0) = 0 /\ 0 \in Place
      BY <3>2, CleanRing, AtZero
    <3>4. 0 + 0 <= StartFill + late /\ 0 <= 1
      BY <2>2
    <3>5. Starting(0, 0)'
      BY <1>1, <1>4, <3>1, <3>2, <3>3, <3>4 DEF Starting
    <3>6. Flowing(0, 0)'
      BY <1>1, <3>1 DEF Flowing
    <3>7. StreamInv(0, 0)'
      BY <3>3, <3>5, <3>6 DEF StreamInv
    <3> QED
      BY <3>3, <3>7
  <2> QED
    BY <2>3, <2>4
<1>6. Streams' <=> Streams
  BY <1>1 DEF Streams
<1>7. Streams' => \E a, b \in Place : StreamInv(a, b)'
  BY <1>5, <1>6 DEF TimelyInv
<1> QED
  BY <1>0, <1>3, <1>7 DEF TimelyInv

LEMMA TimelyIndicate ==
  ASSUME TimelyInv, Indicate PROVE TimelyInv'
<1>0. IInv' /\ IInv
  BY IInvNext DEF TimelyInv, Next
<1>1. /\ audio.at = "indicate" /\ audio'.at = "read" /\ audio'.active = audio.active
      /\ ind' = audio.active /\ audio.active \in BOOLEAN
      /\ source' = source /\ fifo' = fifo /\ req' = req /\ stream' = stream
      /\ wait' = wait /\ late' = late /\ hasty' = hasty
  BY <1>0 DEF Indicate, IInv, TypeOK
<1>2. ~audio.active => Clean(fifo)
  BY <1>1 DEF TimelyInv, ThreadsInv
<1>3. ThreadsInv'
  BY <1>1, <1>2 DEF TimelyInv, ThreadsInv
<1>4. ASSUME Streams, NEW a \in Place, NEW b \in Place, StreamInv(a, b)
      PROVE  StreamInv(a, b)'
  <2>1. Due = 0 /\ Due' = 0
    BY <1>1 DEF Due
  <2>2. ~audio.active => stream.initial /\ Fed(fifo, a, b) <= 1 /\ Clean(fifo)
    BY <1>2, <1>4, CleanPlaces DEF StreamInv, Starting
  <2>3. Starting(a, b)'
    BY <1>1, <1>4, <2>1, <2>2 DEF StreamInv, Starting
  <2>4. Flowing(a, b)'
    BY <1>1, <1>4, <2>1 DEF StreamInv, Flowing
  <2> QED
    BY <1>1, <1>4, <2>3, <2>4 DEF StreamInv
<1>5. Streams' <=> Streams
  BY <1>1 DEF Streams
<1>6. Streams' => \E a, b \in Place : StreamInv(a, b)'
  BY <1>4, <1>5 DEF TimelyInv
<1> QED
  BY <1>0, <1>3, <1>6 DEF TimelyInv

LEMMA TimelyControl ==
  ASSUME TimelyInv, Configure \/ Go \/ Stop("POTENTIAL") \/ Stop("DISABLED")
  PROVE  TimelyInv'
<1>0. IInv' /\ IInv
  BY ControlKeeps DEF TimelyInv
<1>1. CASE Configure
  <2>1. Clean(fifo') /\ source' = "POTENTIAL" /\ stream'.active = 1
        /\ audio' = audio /\ ind' = ind
    BY <1>0, <1>1, FlushCleans, StreamTypes DEF Configure
  <2>2. ThreadsInv' /\ ~Streams'
    BY <2>1 DEF TimelyInv, ThreadsInv, Streams
  <2> QED
    BY <1>0, <2>2 DEF TimelyInv
<1>2. CASE Go
  <2>1. /\ source' = "ENABLED" /\ req' /\ stream'.active = 2 /\ stream'.initial
        /\ stream'.left = 0 /\ late' = 0 /\ hasty' = (hasty \/ ~Noticed)
        /\ fifo' = fifo /\ ind' = ind /\ audio' = audio
    BY <1>0, <1>2 DEF Go, IInv, TypeOK, Stream
  <2>2. ThreadsInv'
    BY <2>1 DEF TimelyInv, ThreadsInv
  <2>3. ASSUME Streams' PROVE StreamInv(0, 0)'
    <3>1. ~audio.active /\ ~ind
      BY <2>1, <2>3 DEF Streams, Noticed
    <3>2. Clean(fifo')
      BY <2>1, <3>1 DEF TimelyInv, ThreadsInv
    <3>3. Ring(fifo', 0, 0) /\ Fed(fifo', 0, 0) = 0 /\ Tag(fifo', 0, 0) = 0
      BY <3>2, CleanRing
    <3>4. Due' = 0
      BY <2>1, <3>1 DEF Due
    <3>5. 0 + 0 <= StartFill + late' /\ 0 <= 1
      BY <2>1, StartFillType
    <3>6. Starting(0, 0)'
      BY <2>1, <3>2, <3>3, <3>4, <3>5 DEF Starting
    <3>7. Flowing(0, 0)'
      BY <2>1 DEF Flowing
    <3> QED
      BY <3>3, <3>6, <3>7 DEF StreamInv
  <2>4. Streams' => \E a, b \in Place : StreamInv(a, b)'
    BY <2>3, AtZero
  <2> QED
    BY <1>0, <2>2, <2>4 DEF TimelyInv
<1>3. CASE Stop("POTENTIAL") \/ Stop("DISABLED")
  <2>1. /\ source' # "ENABLED" /\ stream'.active = 1
        /\ fifo' = fifo /\ ind' = ind /\ audio' = audio
    BY <1>0, <1>3 DEF Stop, IInv, TypeOK, Stream
  <2>2. ThreadsInv' /\ ~Streams'
    BY <2>1 DEF TimelyInv, ThreadsInv, Streams
  <2> QED
    BY <1>0, <2>2 DEF TimelyInv
<1> QED
  BY <1>1, <1>2, <1>3

LEMMA TimelyNext == KeepsUp /\ TimelyInv /\ [Next]_vars => TimelyInv'
<1> SUFFICES ASSUME KeepsUp, TimelyInv, [Next]_vars PROVE TimelyInv'
  OBVIOUS
<1>1. CASE Configure \/ Go \/ Stop("POTENTIAL") \/ Stop("DISABLED")
  BY <1>1, TimelyControl
<1>2. CASE \E n \in WireSamples : Send(n)
  BY <1>2, TimelySend
<1>3. CASE ReadRequest
  BY <1>3, TimelyRead
<1>4. CASE Sample
  BY <1>4, TimelySample
<1>5. CASE Indicate
  BY <1>5, TimelyIndicate
<1>6. CASE UNCHANGED vars
  <2>1. IInv'
    BY <1>6, IInvNext DEF TimelyInv
  <2>2. ThreadsInv'
    BY <1>6 DEF vars, TimelyInv, ThreadsInv
  <2>3. \A a, b \in Place : StreamInv(a, b) => StreamInv(a, b)'
    BY <1>6 DEF vars, StreamInv, Starting, Flowing, Due
  <2>4. Streams' <=> Streams
    BY <1>6 DEF vars, Streams
  <2> QED
    BY <2>1, <2>2, <2>3, <2>4 DEF TimelyInv
<1> QED
  BY <1>1, <1>2, <1>3, <1>4, <1>5, <1>6 DEF Next

LEMMA TimelyInvariant == ASSUME KeepsUp PROVE Spec => []TimelyInv
BY TimelyInit, TimelyNext, PTL DEF Spec

-----------------------------------------------------------------------------
\* For every size of buffer, packet and period with which the talker keeps up: the
\* packet the talker reads is whole until it is released, however the audio thread's
\* pushes and stops fall between its reads.
THEOREM HeldPacketIsAlwaysWhole ==
  ASSUME KeepsUp PROVE Spec => []HeldPacketIsWhole
<1>1. TimelyInv => HeldPacketIsWhole
  <2> SUFFICES ASSUME TimelyInv, Reading, NEW w \in HeldWords(fifo)
               PROVE  fifo.buf[w] = stream.dbc
    BY DEF HeldPacketIsWhole
  <2>1. PICK a \in Place, b \in Place : StreamInv(a, b)
    BY DEF TimelyInv, Streams, Reading
  <2>2. a # b /\ stream.dbc = Tag(fifo, a, b) /\ Ring(fifo, a, b)
    BY <2>1 DEF StreamInv, Flowing, Reading
  <2>3. WholePacket(fifo, a, stream.dbc)
    BY <2>2, FullFirst DEF Ring
  <2>4. fifo.size = PacketSize
    BY StreamConfigured DEF Reading, TimelyInv
  <2>5. w \in At(a) .. At(a) + PacketSize - 1
    BY <2>2, <2>4 DEF HeldWords, Ring
  <2> QED
    BY <2>3, <2>5 DEF WholePacket
<1> QED
  BY <1>1, TimelyInvariant, PTL

\* The wait of media_input_fifo_get_packet for a packet is never entered: the fill
\* level that was checked before is of packets that are there.
THEOREM TalkerNeverHasToWait ==
  ASSUME KeepsUp PROVE Spec => TalkerNeverWaits
<1>1. ASSUME TimelyInv, TimelyInv', NEW n \in WireSamples, Send(n), ~hasty
      PROVE  ~Empty(fifo')
  <2>1. Streams
    BY <1>1 DEF Streams, Send, CanSend
  <2>2. PICK a \in Place, b \in Place : StreamInv(a, b)
    BY <1>1, <2>1 DEF TimelyInv
  <2>3. PICK c \in Place : StreamInv(c, b)' /\ ~stream'.initial
    BY <1>1, <2>2, SendFacts
  <2>4. c # b /\ fifo'.rd = At(c) /\ fifo'.start = At(b)
    BY <2>3 DEF StreamInv, Flowing, Ring
  <2> QED
    BY <2>4, AtSame, AtFits DEF Empty
<1>2. TimelyInv /\ TimelyInv' /\ [Next]_vars =>
        [\A n \in WireSamples : Send(n) => ~Empty(fifo') \/ hasty]_vars
  BY <1>1
<1> QED
  BY <1>2, TimelyInvariant, PTL DEF Spec, TalkerNeverWaits

\* A step in which a stream is being read or begins to be is the talker's, or the
\* audio thread's, which leaves the stream and its place in the FIFO alone.
LEMMA WhoMovesTheStream ==
  ASSUME KeepsUp, TimelyInv, [Next]_vars, Reading'
  PROVE  \/ \E n \in WireSamples : Send(n) /\ ~hasty
         \/ stream' = stream /\ (~stream.initial => fifo'.rd = fifo.rd)
<1>1. IInv /\ stream'.active = 2 /\ ~stream'.initial /\ ~hasty'
  BY DEF TimelyInv, Reading
<1>2. CASE Configure \/ Go \/ Stop("POTENTIAL") \/ Stop("DISABLED")
  <2>1. stream \in Stream
    BY <1>1 DEF IInv, TypeOK
  <2>2. CASE Configure \/ Stop("POTENTIAL") \/ Stop("DISABLED")
    <3>1. stream'.active = 1
      BY <2>1, <2>2 DEF Configure, Stop, Stream
    <3> QED
      BY <1>1, <3>1
  <2>3. CASE Go
    <3>1. stream'.initial
      BY <2>1, <2>3 DEF Go, Stream
    <3> QED
      BY <1>1, <3>1
  <2> QED
    BY <1>2, <2>2, <2>3
<1>3. CASE \E n \in WireSamples : Send(n)
  <2>1. PICK n \in WireSamples : Send(n)
    BY <1>3
  <2>2. hasty' = hasty
    BY <2>1 DEF Send
  <2>3. ~hasty
    BY <1>1, <2>2
  <2> QED
    BY <2>1, <2>3
<1>4. CASE ReadRequest \/ Indicate \/ UNCHANGED vars
  BY <1>4 DEF ReadRequest, Indicate, vars
<1>5. CASE Sample
  <2>1. stream' = stream /\ hasty' = hasty
    BY <1>5 DEF Sample
  <2>2. PICK a \in Place, b \in Place : StreamInv(a, b)
    BY <1>1, <2>1 DEF TimelyInv, Streams
  <2>3. audio.active
    BY <1>1, <2>1, <2>2 DEF StreamInv, Starting
  <2>4. Pointers(fifo) /\ fifo.size = PacketSize /\ Ring(fifo, a, b)
    BY <1>1, <2>2, <2>3, StreamConfigured, StreamTypes DEF StreamInv
  <2>5. PushSample(fifo).rd = fifo.rd
    BY <2>4, PushLeavesRead
  <2> QED
    BY <1>5, <2>1, <2>3, <2>5 DEF Sample
<1> QED
  BY <1>2, <1>3, <1>4, <1>5 DEF Next

\* The packets a stream reads are those that were written, in their order, with none
\* left out and none read twice.
THEOREM PacketsAreAlwaysConsecutive ==
  ASSUME KeepsUp PROVE Spec => PacketsAreConsecutive
<1>1. ASSUME TimelyInv, [Next]_vars, Reading, Reading', fifo'.rd # fifo.rd
      PROVE  stream'.dbc = (stream.dbc + Samples) % DbcMod
  <2>1. PICK n \in WireSamples : Send(n) /\ ~hasty
    BY <1>1, WhoMovesTheStream DEF Reading
  <2>2. PICK a \in Place, b \in Place : StreamInv(a, b)
    BY <1>1 DEF TimelyInv, Streams, Reading
  <2> QED
    BY <1>1, <2>1, <2>2, SendFacts
<1>2. TimelyInv /\ [Next]_vars =>
        [Reading /\ Reading' /\ fifo'.rd # fifo.rd =>
           stream'.dbc = (stream.dbc + Samples) % DbcMod]_vars
  BY <1>1
<1> QED
  BY <1>2, TimelyInvariant, PTL DEF Spec, PacketsAreConsecutive

\* A stream that was stopped and is started again begins with the first sample that
\* was pushed since.
THEOREM StreamsStartAfresh ==
  ASSUME KeepsUp PROVE Spec => StreamStartsAfresh
<1>1. ASSUME TimelyInv, [Next]_vars, stream.initial, Reading'
      PROVE  stream'.dbc = 0 /\ fifo'.rd = 0
  <2>1. PICK n \in WireSamples : Send(n) /\ ~hasty
    BY <1>1, WhoMovesTheStream DEF Reading
  <2>2. PICK a \in Place, b \in Place : StreamInv(a, b)
    BY <1>1, <2>1 DEF TimelyInv, Streams, Send, CanSend
  <2> QED
    BY <1>1, <2>1, <2>2, SendFacts
<1>2. TimelyInv /\ [Next]_vars =>
        [stream.initial /\ Reading' => stream'.dbc = 0 /\ fifo'.rd = 0]_vars
  BY <1>1
<1> QED
  BY <1>2, TimelyInvariant, PTL DEF Spec, StreamStartsAfresh
=============================================================================
