------------------------ MODULE ListenerStream_proofs ------------------------
(***************************************************************************)
(* For rings and packets of any size, and any clocks: the two threads that *)
(* share the FIFO without a lock keep its pointers and timestamps in step, *)
(* and what its users see is the bounded queue of SampleQueue.             *)
(*                                                                         *)
(* Places in the ring are compared by how far they are ahead of a pointer. *)
(***************************************************************************)
EXTENDS ListenerStream, SequenceTheorems, TLAPS

Ahead(from, to) == Wrapped(to - from)

\* A pull that nothing disturbed is at the head of the ring, which is not empty; the
\* listener changes nothing else until it has ended one that was disturbed.
PullIsAtHead ==
  /\ pull.stale => pull.busy /\ ~push.open
  /\ pull.busy /\ ~pull.stale =>
       /\ pull.at = fifo.dptr /\ fifo.dptr # fifo.wrptr
       /\ pull.sample = fifo.buf[fifo.dptr]

\* What is written and not published lies behind what is published, and is not the
\* whole ring.
PushIsInRing ==
  /\ ~push.open => push = NoPush
  /\ push.open => Ahead(fifo.dptr, fifo.wrptr) + Ahead(fifo.wrptr, push.wrptr) < Size

\* A FIFO is only heard when it is locked, or before it was ever used.
FlagsFit ==
  /\ fifo.state \in {"ZEROING", "LOCKING"} => fifo.zeroFlag
  /\ fifo.state = "DISABLED" =>
       /\ ~stream.active /\ ~push.open
       /\ talk.at = "none" \/ fifo.zeroFlag
  /\ talk.at = "adjust" => fifo.zeroFlag

StampType == [marked : Sample \union {NoSample}, timed : Sample \union {NoSample},
              room : BOOLEAN]

Timing == fifo.state \in {"LOCKING", "LOCKED"}

\* Up to where the ring is written.
Written == IF push.open THEN push.wrptr ELSE fifo.wrptr

\* Where the marked sample is, counted from the start of the packet unpacked last: it
\* may be one of the next.
Place == Packet - push.left + 1 + Ahead(Written, fifo.marker)

\* The marked sample is in the ring, or among those still to be written, with room
\* for it.
MarkedIsComing ==
  \/ /\ Ahead(fifo.dptr, fifo.marker) < Ahead(fifo.dptr, Written)
     /\ fifo.buf[fifo.marker] = stamp.marked
  \/ /\ Place <= 2 * Packet
     /\ Ahead(fifo.dptr, Written) + Ahead(Written, fifo.marker) + 1 < Size
     /\ stamp.marked = Meant(Place)

\* A mark that is awaited is not the sample being fetched.
MarkIsAwaited ==
  Timing /\ fifo.ptpTs /\ ~fifo.localTs /\ stamp.room =>
    /\ MarkedIsComing
    /\ pull.busy => fifo.marker # fifo.dptr

MarksFit ==
  /\ fifo.ptpTs <=> fifo.marker # NoMark
  /\ fifo.localTs => fifo.ptpTs
  /\ Timing /\ fifo.ptpTs => ~pull.stale
  /\ Timing /\ fifo.ptpTs /\ fifo.localTs => (stamp.room => stamp.marked = stamp.timed)

IInv == TypeOK /\ PullIsAtHead /\ PushIsInRing /\ FlagsFit /\ MarksFit /\ MarkIsAwaited


-----------------------------------------------------------------------------
(***************************************************************************)
(* The ring.                                                               *)
(***************************************************************************)
LEMMA Sizes ==
  /\ Size \in Nat /\ Packet \in Nat /\ Packet >= 1 /\ 2 * Packet <= Size
  /\ CountMod \in Nat /\ CountMod >= 1 /\ ChanLock \in Nat /\ Diffs \subseteq Int
  /\ SytInterval \in Nat /\ SytInterval >= 1 /\ SytInterval <= 2 * Packet
BY FifoAssumption, ListenerAssumption

LEMMA WrappedIs ==
  /\ \A x \in Int : Wrapped(x) \in Offset
  /\ \A x \in 0 .. 2 * Size - 1 : Wrapped(x) = IF x < Size THEN x ELSE x - Size
  /\ \A x \in 1 - Size .. Size - 1 : Wrapped(x) = IF x >= 0 THEN x ELSE x + Size
<1>1. \A x \in Int : Wrapped(x) \in Offset
  BY Sizes DEF Wrapped, Offset
<1>2. \A x \in 0 .. 2 * Size - 1 : Wrapped(x) = IF x < Size THEN x ELSE x - Size
  BY Sizes DEF Wrapped
<1>3. \A x \in 1 - Size .. Size - 1 : Wrapped(x) = IF x >= 0 THEN x ELSE x + Size
  BY Sizes DEF Wrapped
<1> QED
  BY <1>1, <1>2, <1>3

LEMMA AheadIs ==
  ASSUME NEW a \in Offset, NEW b \in Offset
  PROVE  /\ Ahead(a, b) = IF b >= a THEN b - a ELSE b - a + Size
         /\ Ahead(a, b) \in 0 .. Size - 1
         /\ Ahead(a, b) = 0 <=> a = b
<1>1. b - a \in 1 - Size .. Size - 1 /\ a \in 0 .. Size - 1 /\ b \in 0 .. Size - 1
  BY Sizes DEF Offset
<1>2. Wrapped(b - a) = IF b - a >= 0 THEN b - a ELSE b - a + Size
  BY <1>1, WrappedIs
<1> QED
  BY <1>1, <1>2, Sizes DEF Ahead

LEMMA NextIs ==
  ASSUME NEW a \in Offset
  PROVE  Wrapped(a + 1) \in Offset /\ Wrapped(a + 1) = IF a + 1 < Size THEN a + 1 ELSE 0
<1>1. a \in 0 .. Size - 1 /\ Size \in Nat /\ Size >= 2
  BY Sizes DEF Offset
<1>2. a + 1 \in 0 .. 2 * Size - 1
  BY <1>1
<1>3. Wrapped(a + 1) = IF a + 1 < Size THEN a + 1 ELSE a + 1 - Size
  BY <1>1, <1>2, WrappedIs
<1> QED
  BY <1>1, <1>3 DEF Offset

\* Three places one after the other.
LEMMA AheadAdds ==
  ASSUME NEW a \in Offset, NEW b \in Offset, NEW c \in Offset
  PROVE  /\ Ahead(a, b) + Ahead(b, c) < Size => Ahead(a, c) = Ahead(a, b) + Ahead(b, c)
         /\ Ahead(a, b) <= Ahead(a, c) => Ahead(b, c) = Ahead(a, c) - Ahead(a, b)
<1>1. /\ Ahead(a, b) = (IF b >= a THEN b - a ELSE b - a + Size)
      /\ Ahead(b, c) = (IF c >= b THEN c - b ELSE c - b + Size)
      /\ Ahead(a, c) = (IF c >= a THEN c - a ELSE c - a + Size)
  BY AheadIs
<1>2. a \in 0 .. Size - 1 /\ b \in 0 .. Size - 1 /\ c \in 0 .. Size - 1 /\ Size \in Nat
  BY Sizes DEF Offset
<1> QED
  BY <1>1, <1>2

\* The pointer a, or the place b, moves on.
LEMMA AheadMoves ==
  ASSUME NEW a \in Offset, NEW b \in Offset
  PROVE  /\ a # b => Ahead(Wrapped(a + 1), b) = Ahead(a, b) - 1
         /\ Wrapped(b + 1) # a => Ahead(a, Wrapped(b + 1)) = Ahead(a, b) + 1
         /\ Wrapped(b + 1) = a => Ahead(a, b) = Size - 1
<1> DEFINE p == Wrapped(a + 1)
           q == Wrapped(b + 1)
<1>1. /\ p \in Offset /\ p = (IF a + 1 < Size THEN a + 1 ELSE 0)
      /\ q \in Offset /\ q = (IF b + 1 < Size THEN b + 1 ELSE 0)
  BY NextIs
<1> HIDE DEF p, q
<1>2. /\ Ahead(a, b) = (IF b >= a THEN b - a ELSE b - a + Size)
      /\ Ahead(p, b) = (IF b >= p THEN b - p ELSE b - p + Size)
      /\ Ahead(a, q) = (IF q >= a THEN q - a ELSE q - a + Size)
  BY <1>1, AheadIs
<1>3. a \in 0 .. Size - 1 /\ b \in 0 .. Size - 1 /\ Size \in Nat
  BY Sizes DEF Offset
<1>4. a # b => Ahead(p, b) = Ahead(a, b) - 1
  BY <1>1, <1>2, <1>3
<1>5. q # a => Ahead(a, q) = Ahead(a, b) + 1
  BY <1>1, <1>2, <1>3
<1>6. q = a => Ahead(a, b) = Size - 1
  BY <1>1, <1>2, <1>3
<1> QED
  BY <1>4, <1>5, <1>6 DEF p, q

LEMMA AheadOfPlace ==
  ASSUME NEW a \in Offset, NEW k \in 0 .. Size - 1
  PROVE  Wrapped(a + k) \in Offset /\ Ahead(a, Wrapped(a + k)) = k
<1> DEFINE p == Wrapped(a + k)
<1>1. a + k \in 0 .. 2 * Size - 1 /\ a \in 0 .. Size - 1 /\ Size \in Nat /\ a + k \in Int
  BY Sizes DEF Offset
<1>2. p = (IF a + k < Size THEN a + k ELSE a + k - Size) /\ p \in Offset
  BY <1>1, WrappedIs
<1> HIDE DEF p
<1>3. Ahead(a, p) = IF p >= a THEN p - a ELSE p - a + Size
  BY <1>2, AheadIs
<1>4. Ahead(a, p) = k
  BY <1>1, <1>2, <1>3
<1> QED
  BY <1>2, <1>4 DEF p

-----------------------------------------------------------------------------
(***************************************************************************)
(* The operations of the FIFO.                                             *)
(***************************************************************************)
LEMMA FifoFields ==
  ASSUME NEW f \in Fifo
  PROVE  /\ f.state \in {"DISABLED", "ZEROING", "LOCKING", "LOCKED"} /\ f.zeroFlag \in BOOLEAN
         /\ f.dptr \in Offset /\ f.wrptr \in Offset /\ f.marker \in Offset \union {NoMark}
         /\ f.localTs \in BOOLEAN /\ f.ptpTs \in BOOLEAN
         /\ f.count \in 0 .. CountMod - 1 /\ f.last \in 0 .. CountMod - 1
         /\ f.zeroMarker \in Offset /\ f.pending \in BOOLEAN /\ f.buf \in [Offset -> Sample]
BY DEF Fifo

LEMMA UnmarkedIs ==
  ASSUME NEW f \in Fifo
  PROVE  LET r == Unmarked(f)
         IN  /\ r \in Fifo /\ r.marker = NoMark /\ r.localTs = FALSE /\ r.ptpTs = FALSE
             /\ r.state = f.state /\ r.zeroFlag = f.zeroFlag /\ r.dptr = f.dptr
             /\ r.wrptr = f.wrptr /\ r.buf = f.buf
BY DEF Unmarked, Fifo

LEMMA DisableIs ==
  ASSUME NEW f \in Fifo
  PROVE  LET r == Disable(f)
         IN  /\ r \in Fifo /\ r.state = "DISABLED" /\ r.zeroFlag = TRUE
             /\ r.marker = f.marker /\ r.localTs = f.localTs /\ r.ptpTs = f.ptpTs
             /\ r.dptr = f.dptr /\ r.wrptr = f.wrptr /\ r.buf = f.buf
<1>1. 0 \in Offset
  BY Sizes DEF Offset
<1> QED
  BY <1>1 DEF Disable, Fifo

LEMMA EnableIs ==
  ASSUME NEW f \in Fifo
  PROVE  LET r == Enable(f)
         IN  /\ r \in Fifo /\ r.state = "ZEROING" /\ r.zeroFlag = TRUE
             /\ r.marker = NoMark /\ r.localTs = FALSE /\ r.ptpTs = FALSE
<1>1. /\ 0 \in Offset /\ Size - 1 \in Offset /\ 1 \in Sample /\ 0 \in 0 .. CountMod - 1
      /\ f.buf \in [Offset -> Sample]
  BY Sizes, FifoFields DEF Offset, Sample, Played
<1> DEFINE buf == [f.buf EXCEPT ![Size - 1] = 1]
           u == Unmarked(f)
<1>2. buf \in [Offset -> Sample]
  BY <1>1
<1>3. u \in Fifo /\ u.marker = NoMark /\ u.localTs = FALSE /\ u.ptpTs = FALSE /\ u.buf = f.buf
  BY UnmarkedIs
<1>4. Enable(f) = [u EXCEPT
        !.state = "ZEROING", !.dptr = 0, !.wrptr = 0, !.zeroMarker = Size - 1,
        !.zeroFlag = TRUE, !.buf = buf, !.count = 0, !.pending = TRUE]
  BY <1>3 DEF Enable, Fifo
<1> HIDE DEF buf, u
<1> QED
  BY ZenonT(60), <1>1, <1>2, <1>3, <1>4 DEF Fifo

LEMMA ConsumeIs ==
  ASSUME NEW f \in Fifo, NEW o \in Offset
  PROVE  LET r == Consume(f, o)
         IN  /\ r \in Fifo /\ r.dptr = Wrapped(o + 1) /\ r.state = f.state
             /\ r.zeroFlag = f.zeroFlag /\ r.wrptr = f.wrptr /\ r.marker = f.marker
             /\ r.localTs = f.localTs /\ r.ptpTs = f.ptpTs
             /\ \A p \in Offset \ {o} : r.buf[p] = f.buf[p]
<1> DEFINE v == IF f.state = "ZEROING" /\ o = f.zeroMarker THEN f.buf[o] ELSE Played
           buf == [f.buf EXCEPT ![o] = v]
           d == Wrapped(o + 1)
<1>1. f.buf \in [Offset -> Sample] /\ Played \in Sample /\ d \in Offset
  BY Sizes, FifoFields, NextIs DEF Sample, Played
<1>2. v \in Sample
  BY <1>1
<1>3. Consume(f, o) = [f EXCEPT !.dptr = d, !.buf = buf]
  BY DEF Consume, Fifo
<1> HIDE DEF v, d
<1>4. buf \in [Offset -> Sample] /\ \A p \in Offset \ {o} : buf[p] = f.buf[p]
  BY <1>1, <1>2
<1> HIDE DEF buf
<1>5. LET r == [f EXCEPT !.dptr = d, !.buf = buf]
      IN  /\ r \in Fifo /\ r.dptr = d /\ r.state = f.state
          /\ r.zeroFlag = f.zeroFlag /\ r.wrptr = f.wrptr /\ r.marker = f.marker
          /\ r.localTs = f.localTs /\ r.ptpTs = f.ptpTs /\ r.buf = buf
  BY <1>1, <1>4 DEF Fifo
<1> QED
  BY <1>3, <1>4, <1>5 DEF d

LEMMA SetTimestampIs ==
  ASSUME NEW f \in Fifo, NEW k \in SampleNum
  PROVE  LET r == SetTimestamp(f, k)
         IN  /\ r \in Fifo /\ r.state = f.state /\ r.zeroFlag = f.zeroFlag
             /\ r.dptr = f.dptr /\ r.wrptr = f.wrptr /\ r.buf = f.buf
             /\ r.zeroMarker = f.zeroMarker /\ r.pending = f.pending
             /\ IF f.marker # NoMark
                THEN r.marker = f.marker /\ r.localTs = f.localTs /\ r.ptpTs = f.ptpTs
                ELSE r.marker = Wrapped(f.wrptr + k) /\ r.localTs = FALSE /\ r.ptpTs = TRUE
<1> DEFINE m == Wrapped(f.wrptr + k)
<1>1. m \in Offset
  <2>1. f.wrptr + k \in Int
    BY Sizes, FifoFields DEF Offset, SampleNum
  <2> QED
    BY <2>1, WrappedIs
<1>2. SetTimestamp(f, k) = IF f.marker # NoMark THEN f
                           ELSE [f EXCEPT !.marker = m, !.ptpTs = TRUE, !.localTs = FALSE]
  BY DEF SetTimestamp
<1> HIDE DEF m
<1>3. LET r == [f EXCEPT !.marker = m, !.ptpTs = TRUE, !.localTs = FALSE]
      IN  /\ r \in Fifo /\ r.state = f.state /\ r.zeroFlag = f.zeroFlag
          /\ r.dptr = f.dptr /\ r.wrptr = f.wrptr /\ r.buf = f.buf
          /\ r.zeroMarker = f.zeroMarker /\ r.pending = f.pending
          /\ r.marker = m /\ r.localTs = FALSE /\ r.ptpTs = TRUE
  BY <1>1 DEF Fifo
<1> QED
  BY <1>2, <1>3 DEF m


LEMMA MaintainIs ==
  ASSUME NEW f \in Fifo, NEW notified \in BOOLEAN
  PROVE  LET r == Maintain(f, notified)
         IN  /\ r \in Fifo /\ r.dptr = f.dptr /\ r.buf = f.buf
             /\ IF Zeroed(f)
                THEN /\ r.state = "LOCKING" /\ r.zeroFlag = TRUE /\ r.marker = NoMark
                     /\ r.localTs = FALSE /\ r.ptpTs = FALSE
                     /\ r.wrptr = Wrapped(f.dptr + Size \div 2)
                ELSE /\ r.state = f.state /\ r.zeroFlag = f.zeroFlag /\ r.marker = f.marker
                     /\ r.localTs = f.localTs /\ r.ptpTs = f.ptpTs /\ r.wrptr = f.wrptr
<1> DEFINE sent == Notification(f, notified)
           pending == (f.pending /\ sent # "new")
           last == IF sent = "info" THEN f.count ELSE f.last
           g == [f EXCEPT !.pending = pending, !.last = last]
           w == Wrapped(f.dptr + Size \div 2)
<1>1. pending \in BOOLEAN /\ last \in 0 .. CountMod - 1
  <2>1. f.pending \in BOOLEAN /\ f.last \in 0 .. CountMod - 1 /\ f.count \in 0 .. CountMod - 1
    BY FifoFields
  <2>2. pending \in BOOLEAN
    BY <2>1, Zenon
  <2> HIDE DEF sent
  <2> QED
    BY <2>1, <2>2
<1>2. Maintain(f, notified) = IF Zeroed(f) THEN BeginLocking(g) ELSE g
  BY DEF Maintain
<1> HIDE DEF pending, last
<1>3. /\ g \in Fifo /\ g.dptr = f.dptr /\ g.buf = f.buf /\ g.state = f.state
      /\ g.zeroFlag = f.zeroFlag /\ g.marker = f.marker
      /\ g.localTs = f.localTs /\ g.ptpTs = f.ptpTs /\ g.wrptr = f.wrptr
  BY <1>1 DEF Fifo
<1> HIDE DEF g
<1>4. w \in Offset /\ 0 \in Offset
  <2>1. f.dptr + Size \div 2 \in Int
    BY Sizes, FifoFields DEF Offset
  <2> QED
    BY <2>1, Sizes, WrappedIs DEF Offset
<1>5. LET r == BeginLocking(g)
      IN  /\ r \in Fifo /\ r.dptr = g.dptr /\ r.buf = g.buf /\ r.state = "LOCKING"
          /\ r.zeroFlag = TRUE /\ r.marker = NoMark /\ r.localTs = FALSE /\ r.ptpTs = FALSE
          /\ r.wrptr = w
  <2> DEFINE u == Unmarked(g)
  <2>1. /\ u \in Fifo /\ u.marker = NoMark /\ u.localTs = FALSE /\ u.ptpTs = FALSE
        /\ u.dptr = g.dptr /\ u.buf = g.buf
    BY <1>3, UnmarkedIs
  <2>2. BeginLocking(g) = [u EXCEPT !.state = "LOCKING", !.wrptr = w, !.zeroFlag = TRUE,
                                    !.zeroMarker = 0]
    BY <1>3 DEF BeginLocking
  <2> HIDE DEF u, w
  <2> QED
    BY <1>4, <2>1, <2>2 DEF Fifo
<1> QED
  BY <1>2, <1>3, <1>5

LEMMA PublishIs ==
  ASSUME NEW f \in Fifo, NEW w \in Offset
  PROVE  LET r == Publish(f, w)
         IN  /\ r \in Fifo /\ r.wrptr = w /\ r.dptr = f.dptr /\ r.buf = f.buf
             /\ r.state = f.state /\ r.zeroFlag = f.zeroFlag /\ r.marker = f.marker
             /\ r.localTs = f.localTs /\ r.ptpTs = f.ptpTs
<1> DEFINE n == (f.count + Packet) % CountMod
<1>1. n \in 0 .. CountMod - 1
  <2>1. f.count + Packet \in Int /\ CountMod \in Nat /\ CountMod >= 1
    BY Sizes, FifoFields
  <2> QED
    BY <2>1
<1>2. Publish(f, w) = [f EXCEPT !.wrptr = w, !.count = n]
  BY DEF Publish
<1> HIDE DEF n
<1> QED
  BY <1>1, <1>2 DEF Fifo

LEMMA AdjustFillIs ==
  ASSUME NEW f \in Fifo, NEW diff \in Int
  PROVE  LET r == AdjustFill(f, diff)
         IN  /\ r \in Fifo /\ r.state = "LOCKED" /\ r.zeroFlag = FALSE
             /\ r.marker = NoMark /\ r.localTs = FALSE /\ r.ptpTs = FALSE
             /\ r.dptr = f.dptr /\ r.buf = f.buf
<1> DEFINE u == Unmarked(f)
           w == Wrapped(f.wrptr - diff)
<1>1. w \in Offset /\ 0 \in Offset
  <2>1. f.wrptr - diff \in Int
    BY Sizes, FifoFields DEF Offset
  <2> QED
    BY <2>1, Sizes, WrappedIs DEF Offset
<1>2. /\ u \in Fifo /\ u.marker = NoMark /\ u.localTs = FALSE /\ u.ptpTs = FALSE
      /\ u.dptr = f.dptr /\ u.buf = f.buf
  BY UnmarkedIs
<1>3. AdjustFill(f, diff) = [u EXCEPT !.wrptr = w, !.state = "LOCKED", !.zeroFlag = FALSE,
                                      !.zeroMarker = 0]
  BY DEF AdjustFill
<1> HIDE DEF u, w
<1> QED
  BY <1>1, <1>2, <1>3 DEF Fifo

LEMMA ResetIs ==
  ASSUME NEW f \in Fifo
  PROVE  LET r == Reset(f)
         IN  /\ r \in Fifo /\ r.state = "ZEROING" /\ r.zeroFlag = TRUE
             /\ r.marker = f.marker /\ r.localTs = f.localTs /\ r.ptpTs = f.ptpTs
             /\ r.dptr = f.dptr /\ r.wrptr = f.wrptr
<1> DEFINE z == Wrapped(f.wrptr - 1)
           buf == [f.buf EXCEPT ![z] = 1]
<1>1. z \in Offset /\ 1 \in Sample /\ f.buf \in [Offset -> Sample]
  <2>1. f.wrptr - 1 \in Int
    BY Sizes, FifoFields DEF Offset
  <2> QED
    BY <2>1, Sizes, WrappedIs, FifoFields DEF Sample, Played
<1>2. Reset(f) = [f EXCEPT !.state = "ZEROING", !.zeroMarker = z, !.zeroFlag = TRUE, !.buf = buf]
  BY DEF Reset, Fifo
<1> HIDE DEF z
<1>3. buf \in [Offset -> Sample]
  BY <1>1
<1> HIDE DEF buf
<1> QED
  BY <1>1, <1>2, <1>3 DEF Fifo

\* The value of a sample of the packet.
LEMMA ValuesAre ==
  ASSUME NEW i \in 1 .. Packet
  PROVE  Values[i] \in Sample /\ (fifo.state # "ZEROING" => Values[i] = i)
BY Sizes DEF Values, Volume, Sample, Played

-----------------------------------------------------------------------------
(***************************************************************************)
(* The steps of the audio thread.                                          *)
(***************************************************************************)
LEMMA UnderflowInv ==
  ASSUME IInv, Underflow
  PROVE  IInv'
<1>1. 0 \in Sample
  BY Sizes DEF Sample, Played
<1> QED
  BY <1>1 DEF IInv, Underflow, TypeOK, PullIsAtHead, PushIsInRing, FlagsFit, MarksFit, Silence,
     MarkIsAwaited, MarkedIsComing, Place, Timing, Written, Meant, Ahead

LEMMA BeginPullInv ==
  ASSUME IInv, BeginPull
  PROVE  IInv'
<1> DEFINE hit == (fifo.dptr = fifo.marker /\ ~fifo.localTs)
           localTs == (fifo.localTs \/ hit)
           value == fifo.buf[fifo.dptr]
<1>1. /\ ~pull.busy /\ fifo.dptr # fifo.wrptr
      /\ pull' = [busy |-> TRUE, at |-> fifo.dptr, sample |-> value, stale |-> FALSE]
      /\ out' = Silence
      /\ fifo' = [fifo EXCEPT !.localTs = localTs]
      /\ stamp' = (IF hit THEN [stamp EXCEPT !.timed = value] ELSE stamp)
      /\ UNCHANGED <<stream, push, talk>>
  BY DEF BeginPull
<1>2. /\ fifo \in Fifo /\ stream \in [active : BOOLEAN, chan : 0 .. ChanLock]
      /\ push \in [left : 0 .. Packet, wrptr : Offset, open : BOOLEAN]
      /\ stamp \in StampType
      /\ PullIsAtHead /\ PushIsInRing /\ FlagsFit /\ MarksFit /\ MarkIsAwaited
  BY DEF IInv, TypeOK, StampType
<1>3. /\ fifo.dptr \in Offset /\ value \in Sample /\ localTs \in BOOLEAN /\ 0 \in Sample
      /\ fifo.wrptr \in Offset /\ fifo.marker \in Offset \union {NoMark}
  <2>1. fifo.localTs \in BOOLEAN /\ fifo.dptr \in Offset /\ fifo.buf \in [Offset -> Sample]
        /\ fifo.wrptr \in Offset /\ fifo.marker \in Offset \union {NoMark}
    BY <1>2, FifoFields
  <2>2. localTs \in BOOLEAN
    BY <2>1, Zenon
  <2> QED
    BY <2>1, <2>2, Sizes DEF Sample, Played
<1> HIDE DEF localTs
<1>4. /\ fifo' \in Fifo /\ fifo'.localTs = localTs /\ fifo'.state = fifo.state
      /\ fifo'.zeroFlag = fifo.zeroFlag /\ fifo'.dptr = fifo.dptr /\ fifo'.wrptr = fifo.wrptr
      /\ fifo'.marker = fifo.marker /\ fifo'.ptpTs = fifo.ptpTs /\ fifo'.buf = fifo.buf
  BY <1>1, <1>2, <1>3 DEF Fifo
<1>5. /\ stamp' \in StampType
      /\ stamp'.marked = stamp.marked /\ stamp'.room = stamp.room
      /\ (hit => stamp'.timed = value) /\ (~hit => stamp' = stamp)
  BY <1>1, <1>2, <1>3 DEF StampType
<1>6. TypeOK'
  BY <1>1, <1>2, <1>3, <1>4, <1>5 DEF IInv, TypeOK, StampType, Silence
<1>7. PullIsAtHead' /\ PushIsInRing' /\ FlagsFit'
  BY <1>1, <1>2, <1>4 DEF PullIsAtHead, PushIsInRing, FlagsFit, Ahead
\* The sample that is timed is the one that was marked.
<1>8. hit /\ Timing /\ fifo.ptpTs /\ stamp.room => stamp.marked = value
  <2> SUFFICES ASSUME hit, Timing, fifo.ptpTs, stamp.room
               PROVE  stamp.marked = value
    OBVIOUS
  <2>1. MarkedIsComing
    BY <1>2 DEF MarkIsAwaited
  <2> DEFINE w == Written
  <2>2. w \in Offset
    BY <1>2, <1>3 DEF Written
  <2>3. Ahead(fifo.dptr, w) # 0
    <3>1. CASE ~push.open
      BY <1>1, <1>3, <3>1, AheadIs DEF Written
    <3>2. CASE push.open
      <4>1. Ahead(fifo.dptr, fifo.wrptr) + Ahead(fifo.wrptr, push.wrptr) < Size /\ w = push.wrptr
            /\ push.wrptr \in Offset
        BY <1>2, <3>2 DEF PushIsInRing, Written
      <4>2. Ahead(fifo.dptr, w) = Ahead(fifo.dptr, fifo.wrptr) + Ahead(fifo.wrptr, w)
        BY <1>3, <4>1, AheadAdds
      <4>3. Ahead(fifo.dptr, fifo.wrptr) > 0 /\ Ahead(fifo.wrptr, w) >= 0
            /\ Ahead(fifo.dptr, fifo.wrptr) \in Int /\ Ahead(fifo.wrptr, w) \in Int
        BY <1>1, <1>3, <4>1, AheadIs, Sizes
      <4> QED
        BY <4>2, <4>3
    <3> QED
      BY <3>1, <3>2
  <2>4. ~(Ahead(fifo.dptr, w) + Ahead(w, fifo.dptr) + 1 < Size)
    <3>1. w # fifo.dptr
      BY <1>3, <2>3, AheadIs
    <3> HIDE DEF w
    <3>2. Ahead(fifo.dptr, w) = (IF w >= fifo.dptr THEN w - fifo.dptr ELSE w - fifo.dptr + Size)
          /\ Ahead(w, fifo.dptr) = (IF fifo.dptr >= w THEN fifo.dptr - w ELSE fifo.dptr - w + Size)
      BY <1>3, <2>2, AheadIs
    <3> QED
      BY <1>3, <2>2, <3>1, <3>2, Sizes DEF Offset
  <2> QED
    BY <2>1, <2>4 DEF MarkedIsComing
<1>9. MarksFit'
  <2>1. ~pull'.stale /\ (fifo'.localTs <=> fifo.localTs \/ hit)
    BY <1>1, <1>4 DEF localTs
  <2>2. fifo'.localTs => fifo'.ptpTs
    BY <1>2, <1>3, <1>4, <2>1 DEF MarksFit, NoMark, Offset
  <2>3. Timing' /\ fifo'.ptpTs /\ fifo'.localTs => (stamp'.room => stamp'.marked = stamp'.timed)
    BY <1>2, <1>4, <1>5, <1>8, <2>1 DEF MarksFit, Timing
  <2> QED
    BY <1>2, <1>4, <2>1, <2>2, <2>3 DEF MarksFit, NoMark, NoSample
<1>10. MarkIsAwaited'
  <2> SUFFICES ASSUME Timing', fifo'.ptpTs, ~fifo'.localTs, stamp'.room
               PROVE  MarkedIsComing' /\ fifo'.marker # fifo'.dptr
    BY <1>1 DEF MarkIsAwaited, NoSample
  <2>1. MarkedIsComing /\ ~hit
    BY <1>2, <1>4, <1>5 DEF MarkIsAwaited, Timing, localTs
  <2>2. MarkedIsComing'
    BY <1>1, <1>4, <1>5, <2>1 DEF MarkedIsComing, Place, Written, Ahead, Meant
  <2> QED
    BY <1>4, <2>1, <2>2 DEF localTs
<1> QED
  BY <1>6, <1>7, <1>9, <1>10 DEF IInv


\* How far the listener has written is inside the ring.
LEMMA WrittenIs ==
  ASSUME TypeOK, PullIsAtHead, PushIsInRing
  PROVE  /\ Written \in Offset /\ fifo.dptr \in Offset /\ fifo.wrptr \in Offset
         /\ push.open => Ahead(fifo.dptr, Written)
                         = Ahead(fifo.dptr, fifo.wrptr) + Ahead(fifo.wrptr, Written)
         /\ fifo.dptr # fifo.wrptr => fifo.dptr # Written
<1>1. /\ fifo.dptr \in Offset /\ fifo.wrptr \in Offset /\ push.wrptr \in Offset
  BY FifoFields DEF TypeOK
<1>2. Written \in Offset
  BY <1>1 DEF Written
<1>3. ASSUME push.open
      PROVE  /\ Ahead(fifo.dptr, Written) = Ahead(fifo.dptr, fifo.wrptr) + Ahead(fifo.wrptr, Written)
  <2>1. Written = push.wrptr /\ Ahead(fifo.dptr, fifo.wrptr) + Ahead(fifo.wrptr, push.wrptr) < Size
    BY <1>3 DEF Written, PushIsInRing
  <2> QED
    BY <1>1, <2>1, AheadAdds
<1>4. ASSUME fifo.dptr # fifo.wrptr PROVE fifo.dptr # Written
  <2>1. CASE ~push.open
    BY <1>4, <2>1 DEF Written
  <2>2. CASE push.open
    <3>1. /\ Ahead(fifo.dptr, fifo.wrptr) \in 0 .. Size - 1 /\ Ahead(fifo.dptr, fifo.wrptr) # 0
          /\ Ahead(fifo.wrptr, Written) \in 0 .. Size - 1
      BY <1>1, <1>2, <1>4, AheadIs
    <3>2. Ahead(fifo.dptr, Written) # 0
      BY <1>3, <2>2, <3>1, Sizes
    <3> QED
      BY <1>1, <1>2, <3>2, AheadIs
  <2> QED
    BY <2>1, <2>2
<1> QED
  BY <1>1, <1>2, <1>3, <1>4

LEMMA EndPullInv ==
  ASSUME IInv, EndPull
  PROVE  IInv'
<1>1. /\ pull.busy /\ fifo' = Consume(fifo, pull.at) /\ pull' = NoPull
      /\ out' = (IF fifo.zeroFlag THEN Silence ELSE pull.sample)
      /\ UNCHANGED <<stream, push, talk, stamp>>
  BY DEF EndPull
<1>2. /\ fifo \in Fifo /\ push \in [left : 0 .. Packet, wrptr : Offset, open : BOOLEAN]
      /\ pull \in [busy : BOOLEAN, at : Offset, sample : Sample, stale : BOOLEAN]
      /\ stamp \in StampType
      /\ TypeOK /\ PullIsAtHead /\ PushIsInRing /\ FlagsFit /\ MarksFit /\ MarkIsAwaited
  BY DEF IInv, TypeOK, StampType
<1>3. /\ fifo' \in Fifo /\ fifo'.dptr = Wrapped(pull.at + 1) /\ fifo'.state = fifo.state
      /\ fifo'.zeroFlag = fifo.zeroFlag /\ fifo'.wrptr = fifo.wrptr
      /\ fifo'.marker = fifo.marker
      /\ fifo'.localTs = fifo.localTs /\ fifo'.ptpTs = fifo.ptpTs
      /\ \A p \in Offset \ {pull.at} : fifo'.buf[p] = fifo.buf[p]
  BY <1>1, <1>2, ConsumeIs
<1>4. TypeOK'
  <2>1. 0 \in Offset /\ 0 \in Sample
    BY Sizes DEF Offset, Sample, Played
  <2>2. pull' \in [busy : BOOLEAN, at : Offset, sample : Sample, stale : BOOLEAN]
    BY <1>1, <2>1 DEF NoPull
  <2>3. out' \in Sample
    BY <1>1, <1>2, <2>1 DEF Silence
  <2> QED
    BY <1>1, <1>2, <1>3, <2>2, <2>3 DEF TypeOK, StampType, NoSample
<1>5. PullIsAtHead' /\ FlagsFit'
  BY <1>1, <1>2, <1>3 DEF PullIsAtHead, FlagsFit, NoPull
<1>6. /\ fifo.dptr \in Offset /\ fifo.wrptr \in Offset /\ Written \in Offset
      /\ fifo.marker \in Offset \union {NoMark}
  BY <1>2, FifoFields, WrittenIs
<1>7. PushIsInRing'
  <2> SUFFICES ASSUME push.open
               PROVE  Ahead(fifo'.dptr, fifo.wrptr) + Ahead(fifo.wrptr, push.wrptr) < Size
    BY <1>1, <1>2, <1>3 DEF PushIsInRing, NoPush, Ahead
  <2>1. pull.at = fifo.dptr /\ fifo.dptr # fifo.wrptr /\ push.wrptr \in Offset
    BY <1>1, <1>2 DEF PullIsAtHead
  <2>2. Ahead(fifo'.dptr, fifo.wrptr) = Ahead(fifo.dptr, fifo.wrptr) - 1
    BY <1>3, <1>6, <2>1, AheadMoves
  <2>3. Ahead(fifo.dptr, fifo.wrptr) + Ahead(fifo.wrptr, push.wrptr) < Size
        /\ Ahead(fifo.dptr, fifo.wrptr) \in Int /\ Ahead(fifo.wrptr, push.wrptr) \in Int
    BY <1>2, <1>6, <2>1, AheadIs, Sizes DEF PushIsInRing
  <2> QED
    BY <2>2, <2>3, Sizes
<1>8. MarksFit'
  BY <1>1, <1>2, <1>3 DEF MarksFit, Timing, NoPull, NoSample
<1>9. MarkIsAwaited'
  <2> SUFFICES ASSUME Timing, fifo.ptpTs, ~fifo.localTs, stamp.room
               PROVE  MarkedIsComing'
    BY <1>1, <1>3 DEF MarkIsAwaited, Timing, NoPull, NoSample
  <2>1. /\ MarkedIsComing /\ fifo.marker # fifo.dptr /\ fifo.marker \in Offset
        /\ pull.at = fifo.dptr /\ fifo.dptr # fifo.wrptr
    BY <1>1, <1>2, <1>6 DEF MarkIsAwaited, MarksFit, PullIsAtHead, NoMark
  <2> DEFINE w == Written
  <2>2. fifo.dptr # w /\ Written' = w
    BY <1>1, <1>2, <1>3, <2>1, WrittenIs DEF Written
  <2> HIDE DEF w
  <2>3. w = Written /\ w \in Offset
    BY <1>6 DEF w
  <2>4. /\ Ahead(fifo'.dptr, w) = Ahead(fifo.dptr, w) - 1
        /\ Ahead(fifo'.dptr, fifo.marker) = Ahead(fifo.dptr, fifo.marker) - 1
    BY <1>3, <1>6, <2>1, <2>2, <2>3, AheadMoves
  <2>5. /\ Ahead(fifo.dptr, w) \in Int /\ Ahead(fifo.dptr, fifo.marker) \in Int
        /\ Ahead(w, fifo.marker) \in Int
    BY <1>6, <2>1, <2>3, AheadIs, Sizes
  <2>6. fifo'.buf[fifo.marker] = fifo.buf[fifo.marker]
    BY <1>3, <2>1
  <2>7. CASE /\ Ahead(fifo.dptr, fifo.marker) < Ahead(fifo.dptr, w)
             /\ fifo.buf[fifo.marker] = stamp.marked
    <3>1. Ahead(fifo'.dptr, fifo.marker) < Ahead(fifo'.dptr, w)
      BY <2>4, <2>5, <2>7
    <3>2. Ahead(fifo'.dptr, fifo'.marker) < Ahead(fifo'.dptr, Written')
          /\ fifo'.buf[fifo'.marker] = stamp'.marked
      BY <1>1, <1>3, <2>2, <2>6, <2>7, <3>1
    <3> QED
      BY <3>2 DEF MarkedIsComing, Ahead
  <2>8. CASE /\ Place <= 2 * Packet
             /\ Ahead(fifo.dptr, w) + Ahead(w, fifo.marker) + 1 < Size
             /\ stamp.marked = Meant(Place)
    <3>1. Ahead(fifo'.dptr, w) + Ahead(w, fifo.marker) + 1 < Size
      BY <2>4, <2>5, <2>8, Sizes
    <3>2. Ahead(fifo'.dptr, Written') + Ahead(Written', fifo'.marker) + 1 < Size
      BY <1>3, <2>2, <3>1
    <3>3. Place' = Place
      BY <1>1, <1>3, <2>2, <2>3 DEF Place, Ahead
    <3>4. Place' <= 2 * Packet /\ stamp'.marked = Meant(Place')
      BY <1>1, <2>8, <3>3
    <3> QED
      BY <3>2, <3>4 DEF MarkedIsComing, Ahead, Meant
  <2> QED
    BY <2>1, <2>3, <2>7, <2>8 DEF MarkedIsComing
<1> QED
  BY <1>4, <1>5, <1>7, <1>8, <1>9 DEF IInv


-----------------------------------------------------------------------------
(***************************************************************************)
(* The steps of the listener thread.                                       *)
(***************************************************************************)
LEMMA Parts ==
  ASSUME IInv
  PROVE  /\ TypeOK /\ PullIsAtHead /\ PushIsInRing /\ FlagsFit /\ MarksFit /\ MarkIsAwaited
         /\ fifo \in Fifo /\ stream \in [active : BOOLEAN, chan : 0 .. ChanLock]
         /\ push \in [left : 0 .. Packet, wrptr : Offset, open : BOOLEAN]
         /\ pull \in [busy : BOOLEAN, at : Offset, sample : Sample, stale : BOOLEAN]
         /\ talk \in [at : {"none", "new", "info", "adjust", "reset", "ack"},
                      diff : Diffs \union {0}]
         /\ out \in Sample
         /\ stamp \in StampType
BY DEF IInv, TypeOK, StampType

\* A step of the control thread or the media clock, between two packets, that leaves
\* no mark a timed FIFO waits for.
LEMMA DisturbanceInv ==
  ASSUME IInv, Idle, Disturb, fifo' \in Fifo, UNCHANGED <<push, out>>,
         stream' \in [active : BOOLEAN, chan : 0 .. ChanLock],
         talk' \in [at : {"none", "new", "info", "adjust", "reset", "ack"},
                    diff : Diffs \union {0}],
         stamp' \in StampType,
         FlagsFit', fifo'.ptpTs <=> fifo'.marker # NoMark, fifo'.localTs => fifo'.ptpTs,
         ~(Timing' /\ fifo'.ptpTs)
  PROVE  IInv'
<1>1. /\ TypeOK /\ PullIsAtHead /\ PushIsInRing
      /\ pull \in [busy : BOOLEAN, at : Offset, sample : Sample, stale : BOOLEAN]
      /\ push \in [left : 0 .. Packet, wrptr : Offset, open : BOOLEAN]
      /\ out \in Sample /\ ~push.open /\ ~pull.stale
  BY Parts DEF Idle
<1>2. /\ pull' \in [busy : BOOLEAN, at : Offset, sample : Sample, stale : BOOLEAN]
      /\ pull'.stale = pull.busy /\ pull'.busy = pull.busy
  BY <1>1 DEF Disturb
<1>3. TypeOK'
  BY <1>1, <1>2 DEF TypeOK, StampType, NoSample
<1>4. PullIsAtHead' /\ PushIsInRing'
  BY <1>1, <1>2 DEF PullIsAtHead, PushIsInRing, NoPush
<1>5. MarksFit' /\ MarkIsAwaited'
  BY DEF MarksFit, MarkIsAwaited, NoMark, NoSample
<1> QED
  BY <1>3, <1>4, <1>5 DEF IInv

\* A step that leaves the FIFO as it is, but for its timestamps, which it may clear.
LEMMA QuietInv ==
  ASSUME IInv, Idle, UNCHANGED <<push, pull, out>>,
         \/ fifo' = fifo /\ stamp' = stamp
         \/ fifo' = Unmarked(fifo) /\ stamp' = NotStamped,
         stream' \in [active : BOOLEAN, chan : 0 .. ChanLock],
         talk' \in [at : {"none", "new", "info", "adjust", "reset", "ack"},
                    diff : Diffs \union {0}],
         FlagsFit'
  PROVE  IInv'
<1>1. /\ TypeOK /\ PullIsAtHead /\ PushIsInRing /\ MarksFit /\ MarkIsAwaited
      /\ fifo \in Fifo /\ out \in Sample /\ ~push.open
      /\ push \in [left : 0 .. Packet, wrptr : Offset, open : BOOLEAN]
      /\ pull \in [busy : BOOLEAN, at : Offset, sample : Sample, stale : BOOLEAN]
      /\ stamp \in StampType
  BY Parts DEF Idle
<1>2. /\ fifo' \in Fifo /\ fifo'.dptr = fifo.dptr /\ fifo'.wrptr = fifo.wrptr
      /\ fifo'.buf = fifo.buf /\ fifo'.state = fifo.state
      /\ \/ fifo'.marker = NoMark /\ fifo'.localTs = FALSE /\ fifo'.ptpTs = FALSE
         \/ fifo' = fifo /\ stamp' = stamp
  BY ZenonT(60), <1>1, UnmarkedIs
<1>3. stamp' \in StampType
  <2>1. NotStamped \in StampType
    BY DEF NotStamped, StampType
  <2> QED
    BY <1>1, <2>1, Zenon
<1>4. TypeOK'
  BY <1>1, <1>2, <1>3 DEF TypeOK, StampType, NoSample
<1>5. PullIsAtHead' /\ PushIsInRing'
  BY <1>1, <1>2 DEF PullIsAtHead, PushIsInRing, NoPush
<1>6. CASE fifo'.marker = NoMark /\ fifo'.localTs = FALSE /\ fifo'.ptpTs = FALSE
  <2>1. MarksFit' /\ MarkIsAwaited'
    BY <1>6 DEF MarksFit, MarkIsAwaited, NoMark, NoSample
  <2> QED
    BY <1>4, <1>5, <2>1 DEF IInv
<1>7. CASE fifo' = fifo /\ stamp' = stamp
  <2>1. MarksFit' /\ MarkIsAwaited'
    BY <1>1, <1>7 DEF MarksFit, MarkIsAwaited, MarkedIsComing, Place, Timing, Written, NoMark,
       NoSample, Ahead
  <2> QED
    BY <1>4, <1>5, <2>1 DEF IInv
<1> QED
  BY <1>2, <1>6, <1>7

LEMMA ConfigureInv ==
  ASSUME IInv, Configure
  PROVE  IInv'
<1>1. /\ fifo \in Fifo /\ FlagsFit
      /\ talk \in [at : {"none", "new", "info", "adjust", "reset", "ack"},
                   diff : Diffs \union {0}]
      /\ fifo' = Enable(fifo) /\ stamp' = NotStamped /\ stream' = [active |-> TRUE, chan |-> 0]
      /\ Idle /\ Disturb /\ UNCHANGED <<push, talk, out>>
  BY Parts DEF Configure
<1>2. /\ fifo' \in Fifo /\ fifo'.state = "ZEROING" /\ fifo'.zeroFlag = TRUE
      /\ fifo'.marker = NoMark /\ fifo'.localTs = FALSE /\ fifo'.ptpTs = FALSE
  BY <1>1, EnableIs
<1>3. /\ stream' \in [active : BOOLEAN, chan : 0 .. ChanLock]
      /\ stamp' \in StampType
  BY <1>1, Sizes DEF NotStamped, StampType
<1>4. FlagsFit'
  BY <1>1, <1>2 DEF FlagsFit
<1> QED
  BY <1>1, <1>2, <1>3, <1>4, DisturbanceInv DEF Timing

LEMMA DeconfigureInv ==
  ASSUME IInv, Deconfigure
  PROVE  IInv'
<1>1. /\ fifo \in Fifo /\ MarksFit
      /\ stream \in [active : BOOLEAN, chan : 0 .. ChanLock]
      /\ talk \in [at : {"none", "new", "info", "adjust", "reset", "ack"},
                   diff : Diffs \union {0}]
      /\ stamp \in StampType
      /\ fifo' = Disable(fifo) /\ stream' = [stream EXCEPT !.active = FALSE]
      /\ Idle /\ Disturb /\ UNCHANGED <<push, talk, out, stamp>>
  BY Parts DEF Deconfigure
<1>2. /\ fifo' \in Fifo /\ fifo'.state = "DISABLED" /\ fifo'.zeroFlag = TRUE
      /\ fifo'.marker = fifo.marker /\ fifo'.localTs = fifo.localTs /\ fifo'.ptpTs = fifo.ptpTs
  BY <1>1, DisableIs
<1>3. stream' \in [active : BOOLEAN, chan : 0 .. ChanLock] /\ ~stream'.active
  BY <1>1
<1>4. FlagsFit'
  BY <1>1, <1>2, <1>3 DEF FlagsFit, Idle
<1>5. (fifo'.ptpTs <=> fifo'.marker # NoMark) /\ (fifo'.localTs => fifo'.ptpTs)
  BY <1>1, <1>2 DEF MarksFit
<1> QED
  BY <1>1, <1>2, <1>3, <1>4, <1>5, DisturbanceInv DEF Timing

LEMMA ServeAdjustInv ==
  ASSUME IInv, ServeAdjust
  PROVE  IInv'
<1>1. /\ fifo \in Fifo /\ FlagsFit
      /\ stream \in [active : BOOLEAN, chan : 0 .. ChanLock]
      /\ talk \in [at : {"none", "new", "info", "adjust", "reset", "ack"},
                   diff : Diffs \union {0}]
      /\ fifo' = AdjustFill(fifo, talk.diff) /\ stamp' = NotStamped /\ talk' = NoTalk
      /\ Idle /\ Disturb /\ UNCHANGED <<stream, push, out>>
  BY Parts DEF ServeAdjust
<1>2. talk.diff \in Int
  <2>1. talk.diff \in Diffs \/ talk.diff = 0
    BY <1>1
  <2>2. \A x \in Diffs : x \in Int
    BY Sizes, Zenon
  <2>3. 0 \in Int
    OBVIOUS
  <2> QED
    BY <2>1, <2>2, <2>3, Zenon
<1>3. /\ fifo' \in Fifo /\ fifo'.state = "LOCKED"
      /\ fifo'.marker = NoMark /\ fifo'.localTs = FALSE /\ fifo'.ptpTs = FALSE
  BY <1>1, <1>2, AdjustFillIs
<1>4. stamp' \in StampType
  BY <1>1 DEF NotStamped, StampType
<1>5. /\ FlagsFit'
      /\ talk' \in [at : {"none", "new", "info", "adjust", "reset", "ack"},
                    diff : Diffs \union {0}]
  BY <1>1, <1>3 DEF FlagsFit, NoTalk
<1> QED
  BY <1>1, <1>3, <1>4, <1>5, DisturbanceInv

LEMMA ServeResetInv ==
  ASSUME IInv, ServeReset
  PROVE  IInv'
<1>1. /\ fifo \in Fifo /\ MarksFit
      /\ stream \in [active : BOOLEAN, chan : 0 .. ChanLock]
      /\ talk \in [at : {"none", "new", "info", "adjust", "reset", "ack"},
                   diff : Diffs \union {0}]
      /\ stamp \in StampType
      /\ fifo' = Reset(fifo) /\ talk' = NoTalk
      /\ Idle /\ Disturb /\ UNCHANGED <<stream, push, out, stamp>>
  BY Parts DEF ServeReset
<1>2. /\ fifo' \in Fifo /\ fifo'.state = "ZEROING" /\ fifo'.zeroFlag = TRUE
      /\ fifo'.marker = fifo.marker /\ fifo'.localTs = fifo.localTs /\ fifo'.ptpTs = fifo.ptpTs
  BY <1>1, ResetIs
<1>3. /\ FlagsFit'
      /\ talk' \in [at : {"none", "new", "info", "adjust", "reset", "ack"},
                    diff : Diffs \union {0}]
  BY <1>1, <1>2 DEF FlagsFit, NoTalk
<1>4. (fifo'.ptpTs <=> fifo'.marker # NoMark) /\ (fifo'.localTs => fifo'.ptpTs)
  BY <1>1, <1>2 DEF MarksFit
<1> QED
  BY <1>1, <1>2, <1>3, <1>4, DisturbanceInv DEF Timing

LEMMA LearnInv ==
  ASSUME IInv, Learn \/ LearnAnew
  PROVE  IInv'
<1>1. /\ FlagsFit /\ stream \in [active : BOOLEAN, chan : 0 .. ChanLock]
      /\ talk \in [at : {"none", "new", "info", "adjust", "reset", "ack"},
                   diff : Diffs \union {0}]
      /\ Idle /\ stream.chan < ChanLock
      /\ \/ stream' = [stream EXCEPT !.chan = stream.chan + 1]
         \/ stream' = [stream EXCEPT !.chan = 1]
      /\ UNCHANGED <<fifo, push, pull, talk, out, stamp>>
  BY Parts DEF Learn, LearnAnew, Learned
<1>2. stream' \in [active : BOOLEAN, chan : 0 .. ChanLock] /\ stream'.active = stream.active
  BY <1>1, Sizes
<1>3. FlagsFit'
  BY <1>1, <1>2 DEF FlagsFit
<1> QED
  BY <1>1, <1>2, <1>3, QuietInv

\* The listener and the media clock talk, and the FIFO is left alone.
LEMMA TalkInv ==
  ASSUME IInv, TellClock \/ LeaveAlone \/ ServeAck
  PROVE  IInv'
<1>1. /\ TypeOK /\ PullIsAtHead /\ PushIsInRing /\ FlagsFit /\ MarksFit /\ MarkIsAwaited
      /\ talk \in [at : {"none", "new", "info", "adjust", "reset", "ack"},
                   diff : Diffs \union {0}]
  BY Parts
<1>2. /\ UNCHANGED <<fifo, stream, push, pull, out, stamp>> /\ talk'.at # "adjust"
      /\ talk.at = "none" => talk'.at = "none"
      /\ talk' \in [at : {"none", "new", "info", "adjust", "reset", "ack"},
                    diff : Diffs \union {0}]
  BY <1>1 DEF TellClock, LeaveAlone, ServeAck, NoTalk
<1>3. TypeOK'
  BY <1>1, <1>2 DEF TypeOK, StampType, NoSample
<1>4. PullIsAtHead' /\ PushIsInRing'
  BY <1>1, <1>2 DEF PullIsAtHead, PushIsInRing, NoPush, Ahead
<1>5. FlagsFit'
  BY <1>1, <1>2 DEF FlagsFit, TellClock, LeaveAlone, ServeAck, NoTalk
<1>6. MarksFit' /\ MarkIsAwaited'
  BY <1>1, <1>2 DEF MarksFit, MarkIsAwaited, MarkedIsComing, Place, Timing, Written, NoMark,
     NoSample, Ahead
<1> QED
  BY <1>3, <1>4, <1>5, <1>6 DEF IInv

LEMMA ManageBufferInv ==
  ASSUME IInv, NEW diff \in Diffs, NEW stable \in BOOLEAN, NEW ripe \in BOOLEAN,
         ManageBuffer(diff, stable, ripe)
  PROVE  IInv'
<1> DEFINE d == Decision(FillOf(fifo), diff, stable, ripe)
<1>1. /\ fifo \in Fifo /\ FlagsFit /\ stream \in [active : BOOLEAN, chan : 0 .. ChanLock]
      /\ talk.at = "info" /\ Idle
      /\ talk' = [at |-> d, diff |-> IF d = "adjust" THEN diff ELSE 0]
      /\ fifo' = Unmarked(fifo) /\ stamp' = NotStamped
      /\ UNCHANGED <<stream, push, pull, out>>
  BY Parts DEF ManageBuffer
<1>2. d \in {"adjust", "reset", "ack"} /\ (d = "adjust" => fifo.state # "LOCKED")
  BY DEF Decision
<1> HIDE DEF d
<1>3. talk' \in [at : {"none", "new", "info", "adjust", "reset", "ack"},
                 diff : Diffs \union {0}]
  BY <1>1, <1>2
<1>4. fifo'.state = fifo.state /\ fifo'.zeroFlag = fifo.zeroFlag
  BY <1>1, UnmarkedIs
<1>5. FlagsFit'
  <2>1. fifo.state \in {"DISABLED", "ZEROING", "LOCKING", "LOCKED"}
    BY <1>1, FifoFields
  <2> QED
    BY <1>1, <1>2, <1>4, <2>1 DEF FlagsFit, Idle
<1> QED
  BY <1>1, <1>3, <1>5, QuietInv


LEMMA UnpackInv ==
  ASSUME IInv, NEW t \in BOOLEAN, NEW k \in SampleNum, Unpack(t, k)
  PROVE  IInv'
<1> DEFINE timed == IF t THEN SetTimestamp(fifo, k) ELSE fifo
           busy == talk.at # "none"
           f == Maintain(timed, busy)
           sent == Notification(timed, busy)
           meant == Values[Meant(k + 1)]
<1>1. /\ Idle /\ stream.active
      /\ fifo' = f /\ push' = [left |-> Packet, wrptr |-> f.wrptr, open |-> TRUE]
      /\ talk' = (IF sent = "none" THEN talk ELSE [talk EXCEPT !.at = sent])
      /\ stamp' = (IF f.marker = NoMark THEN NotStamped
                   ELSE IF fifo.marker = NoMark
                     THEN [marked |-> meant, timed |-> NoSample, room |-> HasRoomFor(k)]
                   ELSE stamp)
      /\ UNCHANGED <<stream, pull, out>>
  BY DEF Unpack
<1>2. /\ TypeOK /\ PullIsAtHead /\ PushIsInRing /\ FlagsFit /\ MarksFit /\ MarkIsAwaited
      /\ fifo \in Fifo /\ ~push.open /\ ~pull.stale
      /\ talk \in [at : {"none", "new", "info", "adjust", "reset", "ack"},
                   diff : Diffs \union {0}]
      /\ stamp \in StampType
      /\ push = NoPush /\ k \in Nat /\ k + 1 <= 2 * Packet
  BY <1>1, Parts, Sizes DEF Idle, SampleNum, PushIsInRing
<1>3. /\ fifo.dptr \in Offset /\ fifo.wrptr \in Offset /\ fifo.marker \in Offset \union {NoMark}
      /\ fifo.state \in {"DISABLED", "ZEROING", "LOCKING", "LOCKED"}
  BY <1>2, FifoFields
<1>4. /\ timed \in Fifo /\ timed.state = fifo.state /\ timed.zeroFlag = fifo.zeroFlag
      /\ timed.dptr = fifo.dptr /\ timed.wrptr = fifo.wrptr /\ timed.buf = fifo.buf
      /\ IF t /\ fifo.marker = NoMark
         THEN timed.marker = Wrapped(fifo.wrptr + k) /\ timed.localTs = FALSE /\ timed.ptpTs = TRUE
         ELSE timed.marker = fifo.marker /\ timed.localTs = fifo.localTs /\ timed.ptpTs = fifo.ptpTs
  BY <1>2, SetTimestampIs
<1> HIDE DEF timed
<1>5. busy \in BOOLEAN
  OBVIOUS
<1>6. /\ f \in Fifo /\ f.dptr = fifo.dptr /\ f.buf = fifo.buf
      /\ IF Zeroed(timed)
         THEN /\ f.state = "LOCKING" /\ f.zeroFlag = TRUE /\ f.marker = NoMark
              /\ f.localTs = FALSE /\ f.ptpTs = FALSE
              /\ f.wrptr = Wrapped(fifo.dptr + Size \div 2)
         ELSE /\ f.state = fifo.state /\ f.zeroFlag = fifo.zeroFlag /\ f.marker = timed.marker
              /\ f.localTs = timed.localTs /\ f.ptpTs = timed.ptpTs /\ f.wrptr = fifo.wrptr
  <2> HIDE DEF busy
  <2>1. /\ f \in Fifo /\ f.dptr = timed.dptr /\ f.buf = timed.buf
        /\ IF Zeroed(timed)
           THEN /\ f.state = "LOCKING" /\ f.zeroFlag = TRUE /\ f.marker = NoMark
                /\ f.localTs = FALSE /\ f.ptpTs = FALSE
                /\ f.wrptr = Wrapped(timed.dptr + Size \div 2)
           ELSE /\ f.state = timed.state /\ f.zeroFlag = timed.zeroFlag /\ f.marker = timed.marker
                /\ f.localTs = timed.localTs /\ f.ptpTs = timed.ptpTs /\ f.wrptr = timed.wrptr
    BY <1>4, <1>5, MaintainIs
  <2> QED
    BY <1>4, <2>1
<1>7. sent \in {"none", "new", "info"} /\ (sent # "none" => talk.at = "none")
  BY DEF Notification
<1>8. f.wrptr \in Offset /\ (Zeroed(timed) => f.wrptr # f.dptr)
  <2>1. f.wrptr \in Offset
    BY <1>6, FifoFields
  <2>2. ASSUME Zeroed(timed) PROVE f.wrptr # f.dptr
    <3>1. f.wrptr = Wrapped(fifo.dptr + Size \div 2)
      BY <1>6, <2>2
    <3>2. Size \div 2 \in 0 .. Size - 1 /\ Size \div 2 # 0
      <4>1. Size \in Nat /\ Size >= 2
        BY Sizes
      <4> QED
        BY <4>1
    <3>3. Ahead(fifo.dptr, f.wrptr) = Size \div 2
      BY <1>3, <3>1, <3>2, AheadOfPlace
    <3> QED
      BY <1>3, <1>6, <2>1, <3>2, <3>3, AheadIs
  <2> QED
    BY <2>1, <2>2
<1> HIDE DEF f, sent, busy, meant
\* The timestamp is of a sample ahead of the write pointer.
<1>9. ASSUME t, fifo.marker = NoMark
      PROVE  /\ timed.marker \in Offset /\ Ahead(fifo.wrptr, timed.marker) = k
             /\ meant \in Sample /\ HasRoomFor(k) \in BOOLEAN
             /\ fifo.state # "ZEROING" => meant = Meant(k + 1)
             /\ HasRoomFor(k) => Ahead(fifo.dptr, fifo.wrptr) + k + 1 < Size
  <2>1. k \in 0 .. Size - 1
    BY <1>2, Sizes
  <2>2. timed.marker \in Offset /\ Ahead(fifo.wrptr, timed.marker) = k
    BY <1>3, <1>4, <1>9, <2>1, AheadOfPlace
  <2>3. Meant(k + 1) \in 1 .. Packet
    BY <1>2, Sizes DEF Meant
  <2>4. meant \in Sample /\ (fifo.state # "ZEROING" => meant = Meant(k + 1))
    BY <2>3, ValuesAre DEF meant
  <2>5. HasRoomFor(k) <=> Ahead(fifo.dptr, fifo.wrptr) + k + 1 < Size
    BY DEF HasRoomFor, FillOf, Ahead
  <2>6. HasRoomFor(k) \in BOOLEAN
    BY DEF HasRoomFor
  <2> QED
    BY <2>2, <2>4, <2>5, <2>6
<1>10. NoMark \notin Offset
  BY Sizes DEF NoMark, Offset
<1>11. stamp' \in StampType
  <2>1. CASE f.marker = NoMark
    BY <1>1, <2>1 DEF NotStamped, StampType
  <2>2. CASE f.marker # NoMark /\ fifo.marker = NoMark
    <3>1. t
      BY <1>4, <1>6, <2>2
    <3> QED
      BY <1>1, <1>9, <2>2, <3>1 DEF StampType
  <2>3. CASE f.marker # NoMark /\ fifo.marker # NoMark
    BY <1>1, <1>2, <2>3
  <2> QED
    BY <2>1, <2>2, <2>3
<1>12. TypeOK'
  <2>1. talk' \in [at : {"none", "new", "info", "adjust", "reset", "ack"},
                   diff : Diffs \union {0}]
    BY <1>1, <1>2, <1>7
  <2>2. push' \in [left : 0 .. Packet, wrptr : Offset, open : BOOLEAN]
    BY <1>1, <1>8, Sizes
  <2> QED
    BY <1>1, <1>2, <1>6, <1>11, <2>1, <2>2 DEF TypeOK, StampType, NoSample
<1>13. PullIsAtHead'
  BY <1>1, <1>2, <1>6, <1>8 DEF PullIsAtHead
<1>14. PushIsInRing'
  <2>1. Ahead(f.dptr, f.wrptr) \in 0 .. Size - 1 /\ Ahead(f.wrptr, f.wrptr) = 0
    BY <1>3, <1>6, <1>8, AheadIs
  <2>2. push'.open /\ Ahead(fifo'.dptr, fifo'.wrptr) + Ahead(fifo'.wrptr, push'.wrptr) < Size
    BY <1>1, <2>1, Sizes
  <2> QED
    BY <2>2 DEF PushIsInRing, Ahead
<1>15. FlagsFit'
  <2>1. fifo'.state # "DISABLED" /\ (fifo'.state \in {"ZEROING", "LOCKING"} => fifo'.zeroFlag)
    BY <1>1, <1>2, <1>6 DEF FlagsFit
  <2>2. talk'.at = "adjust" => talk.at = "adjust"
    BY <1>1, <1>2, <1>7
  <2>3. talk'.at = "adjust" => fifo'.zeroFlag
    BY <1>1, <1>2, <1>6, <2>2 DEF FlagsFit
  <2> QED
    BY <2>1, <2>3 DEF FlagsFit
<1>16. MarksFit'
  <2>1. fifo'.ptpTs <=> fifo'.marker # NoMark
    BY <1>1, <1>2, <1>4, <1>6, <1>9, <1>10 DEF MarksFit
  <2>2. fifo'.localTs => fifo'.ptpTs
    BY <1>1, <1>2, <1>4, <1>6 DEF MarksFit
  <2>3. Timing' /\ fifo'.ptpTs /\ fifo'.localTs => (stamp'.room => stamp'.marked = stamp'.timed)
    BY <1>1, <1>2, <1>4, <1>6 DEF MarksFit, Timing
  <2> QED
    BY <1>1, <1>2, <2>1, <2>2, <2>3 DEF MarksFit, NoMark, NoSample
<1>17. MarkIsAwaited'
  <2> SUFFICES ASSUME Timing', fifo'.ptpTs, ~fifo'.localTs, stamp'.room
               PROVE  MarkedIsComing' /\ (pull'.busy => fifo'.marker # fifo'.dptr)
    BY DEF MarkIsAwaited, NoSample
  <2>1. ~Zeroed(timed) /\ fifo'.marker # NoMark /\ Timing /\ fifo.state # "ZEROING"
    BY <1>1, <1>6, <1>10, <1>16 DEF Timing, MarksFit
  <2>2. /\ f.marker = timed.marker /\ f.wrptr = fifo.wrptr /\ Written' = fifo.wrptr
        /\ Written = fifo.wrptr /\ fifo'.dptr = fifo.dptr /\ fifo'.marker = timed.marker
        /\ fifo'.buf = fifo.buf /\ f.localTs = timed.localTs
    BY <1>1, <1>2, <1>6, <2>1 DEF Written
  <2>3. CASE fifo.marker = NoMark
    <3>1. t /\ stamp'.marked = meant /\ HasRoomFor(k)
      BY <1>1, <1>4, <2>1, <2>2, <2>3
    <3>2. /\ timed.marker \in Offset /\ Ahead(fifo.wrptr, timed.marker) = k
          /\ meant = Meant(k + 1) /\ Ahead(fifo.dptr, fifo.wrptr) + k + 1 < Size
      BY <1>9, <2>1, <2>3, <3>1
    <3>3. /\ Place' = k + 1
          /\ Ahead(fifo'.dptr, Written') + Ahead(Written', fifo'.marker) + 1 < Size
      <4>1. Ahead(Written', fifo'.marker) = k /\ Ahead(fifo'.dptr, Written') + k + 1 < Size
        BY <2>2, <3>2
      <4>2. Place' = Packet - push'.left + 1 + Ahead(Written', fifo'.marker)
        BY DEF Place, Ahead
      <4>3. push'.left = Packet
        BY <1>1
      <4> QED
        BY <1>2, <4>1, <4>2, <4>3, Sizes
    <3>4. pull.busy => timed.marker # fifo.dptr
      <4> SUFFICES ASSUME pull.busy, timed.marker = fifo.dptr PROVE FALSE
        OBVIOUS
      <4>1. fifo.dptr # fifo.wrptr
        BY <1>2 DEF PullIsAtHead
      <4>2. /\ Ahead(fifo.dptr, fifo.wrptr) \in 0 .. Size - 1 /\ Ahead(fifo.dptr, fifo.wrptr) # 0
            /\ Ahead(fifo.dptr, fifo.dptr) = 0
        BY <1>3, <4>1, AheadIs
      <4>3. Ahead(fifo.dptr, fifo.wrptr) + Ahead(fifo.wrptr, fifo.dptr) < Size
        BY <1>2, <3>2, <4>2, Sizes
      <4>4. Ahead(fifo.dptr, fifo.dptr)
            = Ahead(fifo.dptr, fifo.wrptr) + Ahead(fifo.wrptr, fifo.dptr)
        BY <1>3, <4>3, AheadAdds
      <4> QED
        BY <1>2, <3>2, <4>2, <4>4, Sizes
    <3>5. Place' <= 2 * Packet /\ stamp'.marked = Meant(Place')
      BY <1>2, <3>1, <3>2, <3>3
    <3> QED
      BY <1>1, <2>2, <3>3, <3>4, <3>5 DEF MarkedIsComing, Ahead, Meant
  <2>4. CASE fifo.marker # NoMark
    <3>1. /\ stamp' = stamp /\ timed.marker = fifo.marker /\ timed.localTs = fifo.localTs
          /\ timed.ptpTs = fifo.ptpTs
      BY <1>1, <1>4, <2>1, <2>2, <2>4
    <3>2. MarkedIsComing /\ (pull.busy => fifo.marker # fifo.dptr)
      BY <1>1, <1>2, <1>6, <2>1, <2>2, <3>1 DEF MarkIsAwaited
    <3>3. CASE /\ Ahead(fifo.dptr, fifo.marker) < Ahead(fifo.dptr, Written)
               /\ fifo.buf[fifo.marker] = stamp.marked
      <4>1. Ahead(fifo'.dptr, fifo'.marker) < Ahead(fifo'.dptr, Written')
            /\ fifo'.buf[fifo'.marker] = stamp'.marked
        BY <2>2, <3>1, <3>3
      <4> QED
        BY <1>1, <2>2, <3>1, <3>2, <4>1 DEF MarkedIsComing, Ahead
\* The mark of the packet before is for a sample of this one.
    <3>4. CASE /\ Place <= 2 * Packet /\ stamp.marked = Meant(Place)
               /\ Ahead(fifo.dptr, Written) + Ahead(Written, fifo.marker) + 1 < Size
      <4>1. fifo.marker \in Offset /\ Written \in Offset
        BY <1>3, <2>2, <2>4 DEF NoMark
      <4>2. Ahead(Written, fifo.marker) \in 0 .. Size - 1
        BY <4>1, AheadIs
      <4>3. Place = Packet + 1 + Ahead(Written, fifo.marker)
        BY <1>2, <4>2, Sizes DEF Place, NoPush
      <4>4. /\ Ahead(Written', fifo'.marker) = Ahead(Written, fifo.marker)
            /\ Ahead(fifo'.dptr, Written') = Ahead(fifo.dptr, Written)
        BY <2>2, <3>1
      <4>5. Place' = 1 + Ahead(Written, fifo.marker)
        <5>1. Place' = Packet - push'.left + 1 + Ahead(Written', fifo'.marker)
          BY DEF Place, Ahead
        <5>2. push'.left = Packet
          BY <1>1
        <5> QED
          BY <4>2, <4>4, <5>1, <5>2, Sizes
      <4>6. Place' <= 2 * Packet /\ Meant(Place') = Meant(Place)
        <5>1. Place = Packet + Place' /\ Place' \in 1 .. Packet
          BY <3>4, <4>2, <4>3, <4>5, Sizes
        <5>2. \A i \in 1 .. Packet : Meant(Packet + i) = i /\ Meant(i) = i
          BY Sizes DEF Meant
        <5> HIDE DEF Place
        <5> QED
          BY <5>1, <5>2, Sizes
      <4>7. stamp'.marked = Meant(Place')
        BY <3>1, <3>4, <4>6
      <4> QED
        BY <1>1, <2>2, <3>1, <3>2, <3>4, <4>4, <4>6, <4>7 DEF MarkedIsComing, Ahead, Meant
    <3> QED
      BY <3>2, <3>3, <3>4 DEF MarkedIsComing
  <2> QED
    BY <2>3, <2>4
<1> QED
  BY <1>12, <1>13, <1>14, <1>15, <1>16, <1>17 DEF IInv

LEMMA PushSampleInv ==
  ASSUME IInv, PushSample
  PROVE  IInv'
<1> DEFINE v == Values[Packet - push.left + 1]
           w == push.wrptr
           next == Wrapped(w + 1)
           buf == [fifo.buf EXCEPT ![w] = v]
           d == fifo.dptr
           m == fifo.marker
<1>1. /\ push.open /\ push.left > 0 /\ UNCHANGED <<stream, pull, talk, out, stamp>>
      /\ \/ /\ HasRoom(fifo, w) /\ fifo' = [fifo EXCEPT !.buf[w] = v]
            /\ push' = [push EXCEPT !.left = @ - 1, !.wrptr = Wrapped(@ + 1)]
         \/ /\ ~HasRoom(fifo, w) /\ fifo' = fifo
            /\ push' = [push EXCEPT !.left = @ - 1]
  BY DEF PushSample
<1>2. /\ TypeOK /\ PullIsAtHead /\ PushIsInRing /\ FlagsFit /\ MarksFit /\ MarkIsAwaited
      /\ fifo \in Fifo /\ push \in [left : 0 .. Packet, wrptr : Offset, open : BOOLEAN]
  BY Parts
<1>3. /\ d \in Offset /\ fifo.wrptr \in Offset /\ m \in Offset \union {NoMark}
      /\ fifo.buf \in [Offset -> Sample] /\ w \in Offset /\ push.left \in 0 .. Packet
  BY <1>2, FifoFields
<1>4. v \in Sample /\ (fifo.state # "ZEROING" => v = Packet - push.left + 1)
  <2>1. Packet - push.left + 1 \in 1 .. Packet
    BY <1>1, <1>3, Sizes
  <2> QED
    BY <2>1, ValuesAre
<1>5. /\ push'.left = push.left - 1 /\ push'.open
      /\ push' \in [left : 0 .. Packet, wrptr : Offset, open : BOOLEAN]
      /\ push'.wrptr = IF HasRoom(fifo, w) THEN next ELSE w
  <2>1. next \in Offset /\ push.left - 1 \in 0 .. Packet
    BY <1>1, <1>3, NextIs, Sizes
  <2> QED
    BY <1>1, <1>2, <2>1
<1>6. [fifo EXCEPT !.buf[w] = v] = [fifo EXCEPT !.buf = buf]
  BY <1>2 DEF Fifo
<1> HIDE DEF v, w
<1>7. buf \in [Offset -> Sample] /\ buf[w] = v /\ \A p \in Offset \ {w} : buf[p] = fifo.buf[p]
  BY <1>3, <1>4
<1> HIDE DEF buf
<1>8. /\ fifo' \in Fifo /\ fifo'.dptr = d /\ fifo'.wrptr = fifo.wrptr /\ fifo'.marker = m
      /\ fifo'.state = fifo.state /\ fifo'.zeroFlag = fifo.zeroFlag
      /\ fifo'.localTs = fifo.localTs /\ fifo'.ptpTs = fifo.ptpTs
      /\ fifo'.buf = IF HasRoom(fifo, w) THEN buf ELSE fifo.buf
  <2>1. LET r == [fifo EXCEPT !.buf = buf]
        IN  /\ r \in Fifo /\ r.dptr = d /\ r.wrptr = fifo.wrptr /\ r.marker = m
            /\ r.state = fifo.state /\ r.zeroFlag = fifo.zeroFlag
            /\ r.localTs = fifo.localTs /\ r.ptpTs = fifo.ptpTs /\ r.buf = buf
    BY <1>2, <1>7 DEF Fifo
  <2> QED
    BY <1>1, <1>2, <1>6, <2>1
<1>9. /\ Written = w /\ Ahead(d, w) = Ahead(d, fifo.wrptr) + Ahead(fifo.wrptr, w)
      /\ d # fifo.wrptr => d # w
      /\ Ahead(d, fifo.wrptr) \in 0 .. Size - 1 /\ Ahead(fifo.wrptr, w) \in 0 .. Size - 1
      /\ Ahead(d, w) \in 0 .. Size - 1
  <2>1. Written = w
    BY <1>1 DEF Written, w
  <2> QED
    BY <1>1, <1>2, <1>3, <2>1, WrittenIs, AheadIs
<1>10. HasRoom(fifo, w) => /\ next # d /\ next \in Offset
                           /\ Ahead(d, next) = Ahead(d, w) + 1
                           /\ Ahead(d, next) \in 0 .. Size - 1
                           /\ Ahead(fifo.wrptr, next) = Ahead(fifo.wrptr, w) + 1
  <2> SUFFICES ASSUME HasRoom(fifo, w)
               PROVE  /\ next # d /\ next \in Offset
                      /\ Ahead(d, next) = Ahead(d, w) + 1
                      /\ Ahead(d, next) \in 0 .. Size - 1
                      /\ Ahead(fifo.wrptr, next) = Ahead(fifo.wrptr, w) + 1
    OBVIOUS
  <2>1. next # d /\ next \in Offset
    BY <1>3, NextIs DEF HasRoom
  <2>2. Ahead(d, next) = Ahead(d, w) + 1 /\ Ahead(d, next) \in 0 .. Size - 1
    BY <1>3, <2>1, AheadMoves, AheadIs
  <2>3. next # fifo.wrptr
    <3> SUFFICES ASSUME next = fifo.wrptr PROVE FALSE
      OBVIOUS
    <3>1. Ahead(fifo.wrptr, w) = Size - 1
      BY <1>3, AheadMoves
    <3>2. Ahead(d, fifo.wrptr) = 0
      BY <1>9, <3>1, Sizes
    <3>3. d = fifo.wrptr
      BY <1>3, <3>2, AheadIs
    <3> QED
      BY <2>1, <3>3
  <2> QED
    BY <1>3, <2>1, <2>2, <2>3, AheadMoves
<1>11. ~HasRoom(fifo, w) => Ahead(d, w) = Size - 1
  BY <1>3, AheadMoves DEF HasRoom
<1> HIDE DEF next, d, m
<1>12. TypeOK'
  BY <1>1, <1>2, <1>5, <1>8 DEF TypeOK, StampType, NoSample
<1>13. PullIsAtHead'
  BY <1>1, <1>2, <1>3, <1>5, <1>7, <1>8, <1>9 DEF PullIsAtHead, d
<1>14. PushIsInRing'
  <2>1. Ahead(d, fifo.wrptr) + Ahead(fifo.wrptr, push'.wrptr) < Size
    BY <1>5, <1>9, <1>10, Sizes
  <2> QED
    BY <1>5, <1>8, <2>1 DEF PushIsInRing, Ahead
<1>15. FlagsFit' /\ MarksFit'
  BY <1>1, <1>2, <1>5, <1>8 DEF FlagsFit, MarksFit, Timing, NoMark, NoSample, m
<1>16. MarkIsAwaited'
  <2> SUFFICES ASSUME Timing, fifo.ptpTs, ~fifo.localTs, stamp.room
               PROVE  MarkedIsComing' /\ (pull.busy => m # d)
    BY <1>1, <1>8 DEF MarkIsAwaited, Timing, NoSample
  <2>1. /\ MarkedIsComing /\ (pull.busy => m # d) /\ m \in Offset /\ fifo.state # "ZEROING"
    BY <1>2, <1>3 DEF MarkIsAwaited, MarksFit, NoMark, m, d, Timing
  <2>2. Ahead(d, m) \in 0 .. Size - 1 /\ Ahead(w, m) \in 0 .. Size - 1
        /\ (Ahead(w, m) = 0 <=> w = m)
    BY <1>3, <2>1, AheadIs DEF d
  <2>3. Written' = push'.wrptr
    BY <1>5 DEF Written
  <2>4. \/ Ahead(d, m) < Ahead(d, w) /\ fifo.buf[m] = stamp.marked
        \/ /\ Place <= 2 * Packet /\ Ahead(d, w) + Ahead(w, m) + 1 < Size
           /\ stamp.marked = Meant(Place)
    BY <1>9, <2>1 DEF MarkedIsComing, d, m
  <2>5. CASE Ahead(d, m) < Ahead(d, w) /\ fifo.buf[m] = stamp.marked
    <3>1. m # w
      BY <2>2, <2>5
    <3>2. fifo'.buf[m] = stamp.marked
      BY <1>7, <1>8, <2>1, <2>5, <3>1
    <3>3. Ahead(d, m) < Ahead(d, push'.wrptr)
      BY <1>5, <1>9, <1>10, <2>2, <2>5, Sizes
    <3>4. Ahead(fifo'.dptr, fifo'.marker) < Ahead(fifo'.dptr, Written')
          /\ fifo'.buf[fifo'.marker] = stamp'.marked
      BY <1>1, <1>8, <2>3, <3>2, <3>3
    <3> QED
      BY <2>1, <3>4 DEF MarkedIsComing, Ahead
  <2>6. CASE /\ Place <= 2 * Packet /\ Ahead(d, w) + Ahead(w, m) + 1 < Size
             /\ stamp.marked = Meant(Place)
    <3>1. HasRoom(fifo, w) /\ Place = Packet - push.left + 1 + Ahead(w, m)
      BY <1>9, <1>11, <2>2, <2>6, Sizes DEF Place, m
    <3>2. CASE w = m
      <4>1. Place \in 1 .. Packet /\ Place = v
        BY <1>1, <1>3, <1>4, <2>1, <2>2, <3>1, <3>2, Sizes
      <4>2. Meant(Place) = v
        BY <4>1, Sizes DEF Meant
      <4>3. Ahead(d, m) < Ahead(d, next) /\ fifo'.buf[m] = stamp.marked
        BY <1>3, <1>7, <1>8, <1>9, <1>10, <2>6, <3>1, <3>2, <4>2, Sizes
      <4>4. Ahead(fifo'.dptr, fifo'.marker) < Ahead(fifo'.dptr, Written')
            /\ fifo'.buf[fifo'.marker] = stamp'.marked
        BY <1>1, <1>5, <1>8, <2>3, <3>1, <4>3
      <4> QED
        BY <2>1, <4>4 DEF MarkedIsComing, Ahead
    <3>3. CASE w # m
      <4>1. Ahead(next, m) = Ahead(w, m) - 1
        BY <1>3, <2>1, <3>3, AheadMoves DEF next
      <4>2. /\ Ahead(d, next) + Ahead(next, m) + 1 < Size
            /\ Place = Packet - (push.left - 1) + 1 + Ahead(next, m)
        BY <1>3, <1>9, <1>10, <2>2, <2>6, <3>1, <4>1, Sizes
      <4>3. Ahead(fifo'.dptr, Written') + Ahead(Written', fifo'.marker) + 1 < Size
        BY <1>5, <1>8, <2>3, <3>1, <4>2
      <4>4. Place' = Place
        <5>1. Place' = Packet - push'.left + 1 + Ahead(Written', fifo'.marker)
          BY DEF Place, Ahead
        <5>2. Place' = Packet - (push.left - 1) + 1 + Ahead(next, m)
          BY <1>5, <1>8, <2>3, <3>1, <5>1
        <5> QED
          BY <4>2, <5>2
      <4>5. Place' <= 2 * Packet /\ stamp'.marked = Meant(Place')
        BY <1>1, <2>6, <4>4
      <4> QED
        BY <2>1, <4>3, <4>5 DEF MarkedIsComing, Ahead, Meant
    <3> QED
      BY <3>2, <3>3
  <2> QED
    BY <2>4, <2>5, <2>6
<1> QED
  BY <1>12, <1>13, <1>14, <1>15, <1>16 DEF IInv

LEMMA EndPushInv ==
  ASSUME IInv, EndPush
  PROVE  IInv'
<1>1. /\ push.open /\ push.left = 0 /\ fifo' = Publish(fifo, push.wrptr)
      /\ push' = NoPush /\ UNCHANGED <<stream, pull, talk, out, stamp>>
  BY DEF EndPush
<1>2. /\ TypeOK /\ PullIsAtHead /\ PushIsInRing /\ FlagsFit /\ MarksFit /\ MarkIsAwaited
      /\ fifo \in Fifo /\ push \in [left : 0 .. Packet, wrptr : Offset, open : BOOLEAN]
  BY Parts
<1>3. push.wrptr \in Offset /\ fifo.dptr \in Offset /\ fifo.marker \in Offset \union {NoMark}
  BY <1>2, FifoFields
<1>4. /\ fifo' \in Fifo /\ fifo'.wrptr = push.wrptr /\ fifo'.dptr = fifo.dptr
      /\ fifo'.buf = fifo.buf
      /\ fifo'.state = fifo.state /\ fifo'.zeroFlag = fifo.zeroFlag
      /\ fifo'.marker = fifo.marker
      /\ fifo'.localTs = fifo.localTs /\ fifo'.ptpTs = fifo.ptpTs
  BY <1>1, <1>2, <1>3, PublishIs
<1>5. Written = push.wrptr /\ Written' = push.wrptr
  BY <1>1, <1>4 DEF Written, NoPush
<1>6. TypeOK'
  <2>1. push' \in [left : 0 .. Packet, wrptr : Offset, open : BOOLEAN]
    BY <1>1, Sizes DEF NoPush, Offset
  <2> QED
    BY <1>1, <1>2, <1>4, <2>1 DEF TypeOK, StampType, NoSample
<1>7. PullIsAtHead'
  <2>1. fifo.dptr # fifo.wrptr => fifo.dptr # push.wrptr
    BY <1>2, <1>5, WrittenIs
  <2> QED
    BY <1>1, <1>2, <1>4, <2>1 DEF PullIsAtHead, NoPush
<1>8. PushIsInRing' /\ FlagsFit' /\ MarksFit'
  BY <1>1, <1>2, <1>4 DEF PushIsInRing, FlagsFit, MarksFit, Timing, NoMark, NoSample, NoPush
<1>9. MarkIsAwaited'
  <2> SUFFICES ASSUME Timing, fifo.ptpTs, ~fifo.localTs, stamp.room
               PROVE  MarkedIsComing' /\ (pull.busy => fifo.marker # fifo.dptr)
    BY <1>1, <1>4 DEF MarkIsAwaited, Timing, NoSample
  <2>1. /\ MarkedIsComing /\ (pull.busy => fifo.marker # fifo.dptr) /\ fifo.marker \in Offset
    BY <1>2, <1>3 DEF MarkIsAwaited, MarksFit, NoMark
  <2>2. Ahead(Written, fifo.marker) \in 0 .. Size - 1
    BY <1>3, <1>5, <2>1, AheadIs
  <2>3. push'.left = push.left
    BY <1>1 DEF NoPush
  <2>4. Place' = Place
    BY <1>4, <1>5, <2>3 DEF Place, Ahead
  <2>5. MarkedIsComing'
    BY <1>1, <1>4, <1>5, <2>1, <2>4 DEF MarkedIsComing, Ahead, Meant
  <2> QED
    BY <2>1, <2>5
<1> QED
  BY <1>6, <1>7, <1>8, <1>9 DEF IInv

-----------------------------------------------------------------------------
LEMMA NextInv ==
  ASSUME IInv, [Next]_vars
  PROVE  IInv'
<1>1. CASE Pull
  BY <1>1, UnderflowInv, BeginPullInv, EndPullInv DEF Pull
<1>2. CASE Configure \/ Deconfigure
  BY <1>2, ConfigureInv, DeconfigureInv
<1>3. CASE Receive
  BY <1>3, LearnInv, UnpackInv DEF Receive
<1>4. CASE PushSample \/ EndPush
  BY <1>4, PushSampleInv, EndPushInv
<1>5. CASE Serve
  BY <1>5, TalkInv, ServeAdjustInv, ServeResetInv, ManageBufferInv DEF Serve
<1>6. CASE UNCHANGED vars
  BY <1>6 DEF vars, IInv, TypeOK, PullIsAtHead, PushIsInRing, FlagsFit, MarksFit,
              MarkIsAwaited, MarkedIsComing, Place, Timing, Written, Meant, Ahead
<1> QED
  BY <1>1, <1>2, <1>3, <1>4, <1>5, <1>6 DEF Next

LEMMA InitialIs ==
  ASSUME NEW flag \in BOOLEAN
  PROVE  LET r == Initial(flag)
         IN  /\ r \in Fifo /\ r.state = "DISABLED" /\ r.dptr = 0 /\ r.wrptr = 0
             /\ r.marker = NoMark /\ r.localTs = FALSE /\ r.ptpTs = FALSE
<1>1. 0 \in Offset /\ 0 \in 0 .. CountMod - 1 /\ 0 \in Sample
  BY Sizes DEF Offset, Sample, Played
<1> DEFINE buf == [o \in Offset |-> 0]
<1>2. buf \in [Offset -> Sample]
  BY <1>1
<1>3. Initial(flag) = [state |-> "DISABLED", zeroFlag |-> flag, dptr |-> 0, wrptr |-> 0,
        marker |-> NoMark, localTs |-> FALSE, ptpTs |-> FALSE, count |-> 0,
        last |-> 0, zeroMarker |-> 0, pending |-> FALSE, buf |-> buf]
  BY DEF Initial
<1> HIDE DEF buf
<1> QED
  BY <1>1, <1>2, <1>3 DEF Fifo

LEMMA InitInv == Init => IInv
<1> SUFFICES ASSUME Init PROVE IInv
  OBVIOUS
<1>1. /\ fifo \in Fifo /\ fifo.state = "DISABLED" /\ fifo.marker = NoMark
      /\ fifo.localTs = FALSE /\ fifo.ptpTs = FALSE
  BY InitialIs DEF Init
<1>2. 0 \in Offset /\ 0 \in Sample
  BY Sizes DEF Offset, Sample, Played, NoSample
<1>3. TypeOK
  BY <1>1, <1>2, Sizes DEF Init, TypeOK, NoPush, NoPull, NoTalk, NotStamped, Silence
<1> QED
  BY <1>1, <1>3 DEF Init, IInv, PullIsAtHead, PushIsInRing, FlagsFit, MarksFit, MarkIsAwaited,
                    Timing, NoPush, NoPull, NoTalk

\* Type correctness and what the pointers, the flags, the mark and the two stamps
\* have to do with each other, in every state: the inductive invariant of the
\* listener thread (avb_1722_listener.xc) and the audio thread
\* (media_output_fifo_pull_sample).
THEOREM Invariance == Spec => []IInv
<1>1. Init => IInv
  BY InitInv
<1>2. IInv /\ [Next]_vars => IInv'
  BY NextInv
<1> QED
  BY <1>1, <1>2, PTL DEF Spec

\* The two timestamps the media clock is told are those of one sample:
\* media_output_fifo_pull_sample times the sample that
\* media_output_fifo_set_ptp_timestamp marked.
THEOREM InfoIsAlwaysOfOneSample == Spec => []InfoIsOfOneSample
<1>1. IInv => InfoIsOfOneSample
  BY DEF IInv, MarksFit, Timing, InfoIsOfOneSample, MarkIsForItsSample
<1> QED
  BY <1>1, Invariance, PTL


-----------------------------------------------------------------------------
(***************************************************************************)
(* The queue that the two users of the FIFO see.                           *)
(***************************************************************************)
QueueNow == IF Live THEN Slice(fifo.dptr, FillOf(fifo)) ELSE <<>>

HeldNow == IF Live /\ push.open
           THEN Slice(fifo.wrptr, Wrapped(push.wrptr - fifo.wrptr)) ELSE <<>>

InputNow == IF Live /\ push.open
            THEN SubSeq(Values, Packet - push.left + 1, Packet) ELSE <<>>

Unseen == UNCHANGED <<Mode, QueueNow, HeldNow, InputNow>>

Holding(s, max) == Len(s) <= max /\ \A i \in DOMAIN s : s[i] \in Sample

\* The actions of the queue, in these terms.
LEMMA QueueStarts ==
  Queue!Init <=>
    /\ Mode \in {"muted", "live"} /\ out = Silence
    /\ QueueNow = <<>> /\ HeldNow = <<>> /\ InputNow = <<>>
BY DEF Queue!Init, Queue!Empty, QueueNow, HeldNow, InputNow

LEMMA QueueStutters == Unseen /\ out' = out => UNCHANGED Queue!vars
BY DEF Queue!vars, Unseen, QueueNow, HeldNow, InputNow

LEMMA QueueMovesOn ==
  ASSUME \/ /\ Mode # "settling" /\ out' = Silence /\ Unseen
         \/ /\ Mode = "muted" \/ (Mode = "live" /\ QueueNow = <<>>)
            /\ out' = Silence /\ Unseen
         \/ /\ Mode = "live" /\ QueueNow # <<>> /\ out' = Head(QueueNow)
            /\ QueueNow' = Tail(QueueNow) /\ UNCHANGED <<Mode, HeldNow, InputNow>>
  PROVE  Queue!Next
BY DEF Queue!Next, Queue!Fetch, Queue!PlaySilence, Queue!Play, Unseen, QueueNow, HeldNow, InputNow


LEMMA QueueTurns ==
  ASSUME \/ /\ Mode = "muted" /\ Mode' = "live" /\ out' = out
            /\ Holding(QueueNow', Size - 1) /\ HeldNow' = <<>> /\ InputNow' = <<>>
         \/ /\ Mode # "settling" /\ Mode' \in {"muted", "settling"} /\ out' = out
            /\ QueueNow' = <<>> /\ HeldNow' = <<>> /\ InputNow' = <<>>
         \/ /\ Mode = "settling" /\ out' \in Sample
            /\ HeldNow' = <<>> /\ InputNow' = <<>>
            /\ \/ Mode' = "live" /\ Holding(QueueNow', Size - 1)
               \/ Mode' = "muted" /\ QueueNow' = <<>>
  PROVE  Queue!Next
BY DEF Queue!Next, Queue!Start, Queue!Stop, Queue!Settle, Queue!Begin, Queue!End, Queue!Holds,
       Holding, QueueNow, HeldNow, InputNow

LEMMA QueueFills ==
  ASSUME Mode = "live", out' = out, UNCHANGED Mode,
         \/ /\ HeldNow = <<>> /\ InputNow = <<>> /\ Holding(InputNow', Packet)
            /\ UNCHANGED <<QueueNow, HeldNow>>
         \/ /\ InputNow # <<>> /\ Len(QueueNow) + Len(HeldNow) < Size - 1
            /\ HeldNow' = Append(HeldNow, Head(InputNow)) /\ InputNow' = Tail(InputNow)
            /\ UNCHANGED QueueNow
         \/ /\ InputNow # <<>> /\ Len(QueueNow) + Len(HeldNow) = Size - 1
            /\ InputNow' = Tail(InputNow)
            /\ UNCHANGED <<QueueNow, HeldNow>>
         \/ /\ InputNow = <<>> /\ QueueNow' = QueueNow \o HeldNow /\ HeldNow' = <<>>
            /\ UNCHANGED InputNow
  PROVE  Queue!Next
BY DEF Queue!Next, Queue!Arrive, Queue!Take, Queue!Drop, Queue!Publish, Queue!Holds,
       Holding, QueueNow, HeldNow, InputNow

\* Part of the ring, as a sequence.
Part(buf, from, len) == [i \in 1 .. len |-> buf[Wrapped(from + i - 1)]]

\* The samples of a packet that are left, when they are not silenced.
Rest(left) == SubSeq([i \in 1 .. Packet |-> i], Packet - left + 1, Packet)

LEMMA SeenIs ==
  ASSUME IInv
  PROVE  /\ QueueNow = IF Live THEN Part(fifo.buf, fifo.dptr, Ahead(fifo.dptr, fifo.wrptr))
                       ELSE <<>>
         /\ HeldNow = IF Live /\ push.open
                      THEN Part(fifo.buf, fifo.wrptr, Ahead(fifo.wrptr, push.wrptr)) ELSE <<>>
         /\ InputNow = IF Live /\ push.open THEN Rest(push.left) ELSE <<>>
         /\ Live => fifo.state \notin {"ZEROING", "LOCKING"} /\ ~pull.stale /\ ~fifo.zeroFlag
<1>1. Live => fifo.state \notin {"ZEROING", "LOCKING"} /\ ~pull.stale /\ ~fifo.zeroFlag
  BY DEF IInv, FlagsFit, Live, Mode
<1>2. Live => Values = [i \in 1 .. Packet |-> i]
  BY <1>1 DEF Values, Volume
<1> QED
  BY <1>1, <1>2 DEF QueueNow, HeldNow, InputNow, Part, Rest, Slice, FillOf, Ahead

LEMMA SeenNextIs ==
  ASSUME IInv'
  PROVE  /\ QueueNow' = IF Live' THEN Part(fifo'.buf, fifo'.dptr, Ahead(fifo'.dptr, fifo'.wrptr))
                        ELSE <<>>
         /\ HeldNow' = IF Live' /\ push'.open
                       THEN Part(fifo'.buf, fifo'.wrptr, Ahead(fifo'.wrptr, push'.wrptr)) ELSE <<>>
         /\ InputNow' = IF Live' /\ push'.open THEN Rest(push'.left) ELSE <<>>
<1>1. Live' => fifo'.state \notin {"ZEROING", "LOCKING"}
  BY DEF IInv, FlagsFit, Live, Mode
<1>2. Live' => Values' = [i \in 1 .. Packet |-> i]
  BY <1>1 DEF Values, Volume
<1> QED
  BY <1>1, <1>2 DEF QueueNow, HeldNow, InputNow, Part, Rest, Slice, FillOf, Ahead

-----------------------------------------------------------------------------
LEMMA PlaceAdds ==
  ASSUME NEW a \in Offset, NEW j \in Nat, NEW k \in Nat, j + k < Size
  PROVE  Wrapped(Wrapped(a + j) + k) = Wrapped(a + (j + k)) /\ Wrapped(a + j) \in Offset
<1> DEFINE p == Wrapped(a + j)
<1>1. a \in 0 .. Size - 1 /\ Size \in Nat /\ j \in 0 .. Size - 1 /\ j + k \in 0 .. Size - 1
  BY Sizes DEF Offset
<1>2. p \in Offset /\ p = IF a + j < Size THEN a + j ELSE a + j - Size
  <2>1. a + j \in 0 .. 2 * Size - 1 /\ a + j \in Int
    BY <1>1
  <2> QED
    BY <1>1, <2>1, WrappedIs
<1> HIDE DEF p
<1>3. p + k \in 0 .. 2 * Size - 1 /\ a + (j + k) \in 0 .. 2 * Size - 1
  BY <1>1, <1>2
<1>4. /\ Wrapped(p + k) = (IF p + k < Size THEN p + k ELSE p + k - Size)
      /\ Wrapped(a + (j + k)) = (IF a + (j + k) < Size THEN a + (j + k) ELSE a + (j + k) - Size)
  <2>1. Wrapped(p + k) = (IF p + k < Size THEN p + k ELSE p + k - Size)
    <3> DEFINE x == p + k
    <3>1. x \in 0 .. 2 * Size - 1
      BY <1>3
    <3> HIDE DEF x
    <3>2. Wrapped(x) = (IF x < Size THEN x ELSE x - Size)
      BY <1>1, <3>1, WrappedIs
    <3>3. p \in Int
      BY <1>2 DEF Offset
    <3> QED
      BY <1>1, <3>2, <3>3 DEF x
  <2>2. Wrapped(a + (j + k)) = (IF a + (j + k) < Size THEN a + (j + k) ELSE a + (j + k) - Size)
    BY <1>1, <1>3, WrappedIs
  <2> QED
    BY <2>1, <2>2
<1>5. Wrapped(p + k) = Wrapped(a + (j + k))
  BY <1>1, <1>2, <1>4
<1> QED
  BY <1>2, <1>5 DEF p

LEMMA PartIs ==
  ASSUME NEW buf \in [Offset -> Sample], NEW a \in Offset, NEW n \in Nat
  PROVE  /\ Part(buf, a, n) \in Seq(Sample) /\ Len(Part(buf, a, n)) = n
         /\ \A i \in 1 .. n : Part(buf, a, n)[i] = buf[Wrapped(a + i - 1)]
         /\ n = 0 <=> Part(buf, a, n) = <<>>
         /\ Holding(Part(buf, a, n), n)
<1>1. \A i \in 1 .. n : buf[Wrapped(a + i - 1)] \in Sample
  <2> SUFFICES ASSUME NEW i \in 1 .. n PROVE buf[Wrapped(a + i - 1)] \in Sample
    OBVIOUS
  <2>1. a + i - 1 \in Int
    BY Sizes DEF Offset
  <2>2. Wrapped(a + i - 1) \in Offset
    BY <2>1, WrappedIs
  <2> QED
    BY <2>2
<1>2. Part(buf, a, n) \in Seq(Sample) /\ Len(Part(buf, a, n)) = n
      /\ DOMAIN Part(buf, a, n) = 1 .. n
  BY <1>1 DEF Part
<1>3. \A i \in 1 .. n : Part(buf, a, n)[i] = buf[Wrapped(a + i - 1)]
  BY DEF Part
<1>4. n = 0 <=> Part(buf, a, n) = <<>>
  BY <1>2, EmptySeq
<1>5. Holding(Part(buf, a, n), n)
  BY <1>1, <1>2, <1>3 DEF Holding
<1> QED
  BY <1>2, <1>3, <1>4, <1>5


\* Parts that agree place by place.
LEMMA PartsAgree ==
  ASSUME NEW b \in [Offset -> Sample], NEW c \in [Offset -> Sample],
         NEW a \in Offset, NEW n \in Nat, n <= Size,
         \A k \in 0 .. n - 1 : c[Wrapped(a + k)] = b[Wrapped(a + k)]
  PROVE  Part(c, a, n) = Part(b, a, n)
<1>1. \A i \in 1 .. n : c[Wrapped(a + i - 1)] = b[Wrapped(a + i - 1)]
  <2> SUFFICES ASSUME NEW i \in 1 .. n PROVE c[Wrapped(a + i - 1)] = b[Wrapped(a + i - 1)]
    OBVIOUS
  <2>1. i - 1 \in 0 .. n - 1 /\ a + (i - 1) = a + i - 1
    BY Sizes DEF Offset
  <2> QED
    BY <2>1
<1> QED
  BY <1>1 DEF Part

\* A place k ahead of a is not the place j ahead of it.
LEMMA PlacesDiffer ==
  ASSUME NEW a \in Offset, NEW j \in 0 .. Size - 1, NEW k \in 0 .. Size - 1, j # k
  PROVE  Wrapped(a + j) # Wrapped(a + k)
BY AheadOfPlace

LEMMA AheadPlace ==
  ASSUME NEW a \in Offset, NEW b \in Offset
  PROVE  Wrapped(a + Ahead(a, b)) = b
<1> DEFINE x == Ahead(a, b)
<1>1. x = (IF b >= a THEN b - a ELSE b - a + Size)
  BY AheadIs
<1>2. a \in 0 .. Size - 1 /\ b \in 0 .. Size - 1 /\ Size \in Nat
  BY Sizes DEF Offset
<1> HIDE DEF x
<1> DEFINE y == a + x
<1>3. y = (IF b >= a THEN b ELSE b + Size) /\ y \in 0 .. 2 * Size - 1
  BY <1>1, <1>2
<1> HIDE DEF y
<1>4. Wrapped(y) = IF y < Size THEN y ELSE y - Size
  BY <1>2, <1>3, WrappedIs
<1>5. Wrapped(y) = b
  BY <1>2, <1>3, <1>4
<1> QED
  BY <1>5 DEF x, y

\* The first sample is played: what becomes of its place does not matter.
LEMMA PartTail ==
  ASSUME NEW b \in [Offset -> Sample], NEW c \in [Offset -> Sample],
         NEW a \in Offset, NEW n \in Nat, n > 0, n < Size,
         \A p \in Offset \ {a} : c[p] = b[p]
  PROVE  /\ Part(b, a, n) # <<>> /\ Head(Part(b, a, n)) = b[a]
         /\ Tail(Part(b, a, n)) = Part(c, Wrapped(a + 1), n - 1)
<1> DEFINE s == Part(b, a, n)
           t == Part(c, Wrapped(a + 1), n - 1)
<1>1. n - 1 \in Nat /\ Wrapped(a + 1) \in Offset /\ Wrapped(a) = a /\ a + 1 - 1 = a
  <2>1. a \in 0 .. Size - 1 /\ a \in 0 .. 2 * Size - 1 /\ Size \in Nat
    BY Sizes DEF Offset
  <2>2. Wrapped(a) = a
    BY <2>1, WrappedIs
  <2> QED
    BY <2>1, <2>2, NextIs
<1>2. /\ s \in Seq(Sample) /\ Len(s) = n /\ s # <<>>
      /\ \A i \in 1 .. n : s[i] = b[Wrapped(a + i - 1)]
  <2>1. /\ s \in Seq(Sample) /\ Len(s) = n
        /\ \A i \in 1 .. n : s[i] = b[Wrapped(a + i - 1)]
    BY PartIs
  <2>2. n = 0 <=> s = <<>>
    BY PartIs
  <2> QED
    BY <2>1, <2>2
<1>3. /\ t \in Seq(Sample) /\ Len(t) = n - 1
      /\ \A i \in 1 .. n - 1 : t[i] = c[Wrapped(Wrapped(a + 1) + i - 1)]
  BY <1>1, PartIs
<1> HIDE DEF s, t
<1>4. /\ Tail(s) \in Seq(Sample) /\ Len(Tail(s)) = n - 1
      /\ \A i \in 1 .. n - 1 : Tail(s)[i] = s[i + 1]
  BY <1>2, HeadTailProperties
<1>5. Head(s) = b[a]
  <2>1. Head(s) = s[1]
    BY <1>2
  <2>2. 1 \in 1 .. n
    OBVIOUS
  <2> QED
    BY <1>1, <1>2, <2>1, <2>2
<1>6. ASSUME NEW i \in 1 .. n - 1 PROVE Tail(s)[i] = t[i]
  <2>1. i + 1 \in 1 .. n /\ i \in 0 .. Size - 1 /\ 0 \in 0 .. Size - 1 /\ i # 0
        /\ a + (i + 1) - 1 = a + i /\ i - 1 \in Nat /\ 1 + (i - 1) = i /\ i < Size
    BY Sizes DEF Offset
  <2>2. Tail(s)[i] = b[Wrapped(a + i)]
    BY <1>2, <1>4, <2>1
  <2>3. Wrapped(Wrapped(a + 1) + (i - 1)) = Wrapped(a + (1 + (i - 1)))
    BY <2>1, PlaceAdds
  <2>4. Wrapped(a + 1) + i - 1 = Wrapped(a + 1) + (i - 1)
    BY <1>1, Sizes DEF Offset
  <2>5. t[i] = c[Wrapped(a + i)]
    BY <1>3, <2>1, <2>3, <2>4
  <2>6. Wrapped(a + 0) # Wrapped(a + i) /\ Wrapped(a + i) \in Offset
    BY <2>1, PlacesDiffer, AheadOfPlace
  <2>7. a + 0 = a
    BY Sizes DEF Offset
  <2>8. c[Wrapped(a + i)] = b[Wrapped(a + i)]
    BY <1>1, <2>6, <2>7
  <2> QED
    BY <2>2, <2>5, <2>8
<1>7. Tail(s) = t
  BY <1>3, <1>4, <1>6, SeqEqual
<1> QED
  BY <1>2, <1>5, <1>7 DEF s, t

\* A sample is written behind the others.
LEMMA PartAppend ==
  ASSUME NEW b \in [Offset -> Sample], NEW c \in [Offset -> Sample],
         NEW a \in Offset, NEW n \in Nat, n + 1 < Size, NEW v \in Sample,
         c[Wrapped(a + n)] = v, \A p \in Offset \ {Wrapped(a + n)} : c[p] = b[p]
  PROVE  Append(Part(b, a, n), v) = Part(c, a, n + 1)
<1> DEFINE s == Part(b, a, n)
           t == Part(c, a, n + 1)
<1>1. n + 1 \in Nat /\ n \in 0 .. Size - 1
  BY Sizes
<1>2. s \in Seq(Sample) /\ Len(s) = n /\ \A i \in 1 .. n : s[i] = b[Wrapped(a + i - 1)]
  BY PartIs
<1>3. t \in Seq(Sample) /\ Len(t) = n + 1 /\ \A i \in 1 .. n + 1 : t[i] = c[Wrapped(a + i - 1)]
  BY <1>1, PartIs
<1> HIDE DEF s, t
<1>4. /\ Append(s, v) \in Seq(Sample) /\ Len(Append(s, v)) = n + 1
      /\ \A i \in 1 .. n : Append(s, v)[i] = s[i]
      /\ Append(s, v)[n + 1] = v
  BY <1>2, AppendProperties
<1>5. ASSUME NEW i \in 1 .. n + 1 PROVE Append(s, v)[i] = t[i]
  <2>1. CASE i = n + 1
    <3>1. a + i - 1 = a + n
      BY <2>1, Sizes DEF Offset
    <3> QED
      BY <1>3, <1>4, <2>1, <3>1
  <2>2. CASE i # n + 1
    <3>1. i \in 1 .. n /\ i - 1 \in 0 .. Size - 1 /\ i - 1 # n /\ a + i - 1 = a + (i - 1)
      BY <2>2, Sizes DEF Offset
    <3>2. Wrapped(a + (i - 1)) # Wrapped(a + n) /\ Wrapped(a + (i - 1)) \in Offset
      BY <1>1, <3>1, PlacesDiffer, AheadOfPlace
    <3> QED
      BY <1>2, <1>3, <1>4, <3>1, <3>2
  <2> QED
    BY <2>1, <2>2
<1> QED
  BY <1>1, <1>3, <1>4, <1>5, SeqEqual DEF s, t

\* What was written is published.
LEMMA PartJoin ==
  ASSUME NEW b \in [Offset -> Sample], NEW a \in Offset, NEW m \in Nat, NEW n \in Nat, m + n < Size
  PROVE  Part(b, a, m) \o Part(b, Wrapped(a + m), n) = Part(b, a, m + n)
<1> DEFINE r == Wrapped(a + m)
           s == Part(b, a, m)
           t == Part(b, r, n)
           u == Part(b, a, m + n)
<1>1. m + n \in Nat /\ r \in Offset
  <2>1. m \in 0 .. Size - 1
    BY Sizes
  <2> QED
    BY <2>1, AheadOfPlace
<1>2. s \in Seq(Sample) /\ Len(s) = m /\ \A i \in 1 .. m : s[i] = b[Wrapped(a + i - 1)]
  BY PartIs
<1>3. t \in Seq(Sample) /\ Len(t) = n /\ \A i \in 1 .. n : t[i] = b[Wrapped(r + i - 1)]
  BY <1>1, PartIs
<1>4. u \in Seq(Sample) /\ Len(u) = m + n /\ \A i \in 1 .. m + n : u[i] = b[Wrapped(a + i - 1)]
  BY <1>1, PartIs
<1> HIDE DEF s, t, u, r
<1>5. /\ s \o t \in Seq(Sample) /\ Len(s \o t) = m + n
      /\ \A i \in 1 .. m + n : (s \o t)[i] = IF i <= m THEN s[i] ELSE t[i - m]
  BY <1>2, <1>3, ConcatProperties
<1>6. ASSUME NEW i \in 1 .. m + n PROVE (s \o t)[i] = u[i]
  <2>1. CASE i <= m
    <3>1. i \in 1 .. m
      BY <2>1
    <3> QED
      BY <1>2, <1>4, <1>5, <2>1, <3>1
  <2>2. CASE ~(i <= m)
    <3>1. i - m \in 1 .. n /\ i - m - 1 \in Nat /\ m + (i - m - 1) = i - 1 /\ i - 1 < Size
          /\ a + (i - 1) = a + i - 1
      BY <2>2, Sizes DEF Offset
    <3>2. Wrapped(r + (i - m - 1)) = Wrapped(a + (m + (i - m - 1)))
      BY <3>1, PlaceAdds DEF r
    <3>3. r + (i - m) - 1 = r + (i - m - 1)
      BY <1>1, <3>1, Sizes DEF Offset
    <3>4. t[i - m] = b[Wrapped(a + (i - 1))]
      BY <1>3, <3>1, <3>2, <3>3
    <3> QED
      BY <1>4, <1>5, <2>2, <3>1, <3>4
  <2> QED
    BY <2>1, <2>2
<1> QED
  BY <1>1, <1>4, <1>5, <1>6, SeqEqual DEF s, t, u, r

LEMMA RestIs ==
  ASSUME NEW left \in 0 .. Packet
  PROVE  /\ Holding(Rest(left), Packet)
         /\ left = 0 <=> Rest(left) = <<>>
         /\ left > 0 => /\ Head(Rest(left)) = Packet - left + 1
                        /\ Tail(Rest(left)) = Rest(left - 1)
<1> DEFINE all == [i \in 1 .. Packet |-> i]
           m == Packet - left + 1
<1>1. \A i \in 1 .. Packet : i \in Sample
  BY Sizes DEF Sample, Played
<1>2. all \in Seq(Sample) /\ Len(all) = Packet /\ (\A i \in 1 .. Packet : all[i] = i)
      /\ Packet \in Nat /\ m \in 1 .. Packet + 1
  BY <1>1, Sizes
<1> HIDE DEF all
<1>3. /\ SubSeq(all, m, Packet) \in Seq(Sample)
      /\ Len(SubSeq(all, m, Packet)) = left
  <2>1. m \in Int /\ Packet \in Int /\ \A i \in m .. Packet : all[i] \in Sample
    BY <1>1, <1>2
  <2>2. /\ SubSeq(all, m, Packet) \in Seq(Sample)
        /\ Len(SubSeq(all, m, Packet)) = IF m <= Packet THEN Packet - m + 1 ELSE 0
    BY <2>1, SubSeqProperties
  <2> QED
    BY <1>2, <2>2
<1>4. Rest(left) = SubSeq(all, m, Packet)
  BY DEF Rest, all
<1>5. left > 0 => /\ Head(SubSeq(all, m, Packet)) = m
                  /\ Tail(SubSeq(all, m, Packet)) = SubSeq(all, m + 1, Packet)
  <2> SUFFICES ASSUME left > 0
               PROVE  /\ Head(SubSeq(all, m, Packet)) = m
                      /\ Tail(SubSeq(all, m, Packet)) = SubSeq(all, m + 1, Packet)
    OBVIOUS
  <2>1. m \in 1 .. Len(all) /\ Packet \in m .. Len(all)
    BY <1>2
  <2>2. /\ Head(SubSeq(all, m, Packet)) = all[m]
        /\ Tail(SubSeq(all, m, Packet)) = SubSeq(all, m + 1, Packet)
    BY <1>2, <2>1, HeadTailOfSubSeq
  <2> QED
    BY <1>2, <2>1, <2>2
<1>6. left > 0 => Rest(left - 1) = SubSeq(all, m + 1, Packet)
  <2>1. Packet - (left - 1) + 1 = m + 1
    BY Sizes
  <2> QED
    BY <2>1 DEF Rest, all
<1> HIDE DEF m
<1>7. Holding(Rest(left), Packet) /\ (left = 0 <=> Rest(left) = <<>>)
  <2>1. \A s \in Seq(Sample) : /\ DOMAIN s = 1 .. Len(s) /\ \A i \in DOMAIN s : s[i] \in Sample
                               /\ (Len(s) = 0 <=> s = <<>>)
    BY EmptySeq, LenProperties
  <2> QED
    BY <1>2, <1>3, <1>4, <2>1, Sizes DEF Holding
<1> QED
  BY <1>4, <1>5, <1>6, <1>7 DEF m


-----------------------------------------------------------------------------
(***************************************************************************)
(* Each step of the two threads is one of the queue, or none.              *)
(***************************************************************************)
LEMMA ModeIs ==
  ASSUME IInv, IInv'
  PROVE  /\ Mode \in {"settling", "muted", "live"} /\ (Live <=> Mode = "live")
         /\ Mode = "settling" <=> pull.stale
         /\ Mode = "muted" <=> ~pull.stale /\ fifo.zeroFlag
         /\ Mode' \in {"settling", "muted", "live"} /\ (Live' <=> Mode' = "live")
         /\ Mode' = "settling" <=> pull'.stale
         /\ Mode' = "muted" <=> ~pull'.stale /\ fifo'.zeroFlag
BY DEF Mode, Live

\* Nobody sees what changes neither the ring nor whether it is heard.
LEMMA NothingSeen ==
  ASSUME IInv, IInv', fifo'.buf = fifo.buf, fifo'.dptr = fifo.dptr, fifo'.wrptr = fifo.wrptr,
         fifo'.zeroFlag = fifo.zeroFlag, pull'.stale = pull.stale, push' = push
  PROVE  Unseen
<1>1. Mode' = Mode /\ Live' = Live
  BY DEF Mode, Live
<1>2. /\ QueueNow = IF Live THEN Part(fifo.buf, fifo.dptr, Ahead(fifo.dptr, fifo.wrptr))
                    ELSE <<>>
      /\ HeldNow = IF Live /\ push.open
                   THEN Part(fifo.buf, fifo.wrptr, Ahead(fifo.wrptr, push.wrptr)) ELSE <<>>
      /\ InputNow = IF Live /\ push.open THEN Rest(push.left) ELSE <<>>
  BY SeenIs
<1>3. /\ QueueNow' = IF Live' THEN Part(fifo'.buf, fifo'.dptr, Ahead(fifo'.dptr, fifo'.wrptr))
                     ELSE <<>>
      /\ HeldNow' = IF Live' /\ push'.open
                    THEN Part(fifo'.buf, fifo'.wrptr, Ahead(fifo'.wrptr, push'.wrptr)) ELSE <<>>
      /\ InputNow' = IF Live' /\ push'.open THEN Rest(push'.left) ELSE <<>>
  BY SeenNextIs
<1> QED
  BY <1>1, <1>2, <1>3 DEF Unseen

\* Nothing is seen of a ring that is not heard.
LEMMA SilentIsEmpty ==
  ASSUME IInv, IInv'
  PROVE  /\ Mode # "live" => QueueNow = <<>> /\ HeldNow = <<>> /\ InputNow = <<>>
         /\ ~push.open => HeldNow = <<>> /\ InputNow = <<>>
         /\ Mode' # "live" => QueueNow' = <<>> /\ HeldNow' = <<>> /\ InputNow' = <<>>
         /\ ~push'.open => HeldNow' = <<>> /\ InputNow' = <<>>
BY ModeIs, SeenIs, SeenNextIs

LEMMA SilentStutters ==
  ASSUME IInv, IInv', Mode # "live", Mode' = Mode
  PROVE  Unseen
BY SilentIsEmpty DEF Unseen

\* What is in the ring is a queue with room for one more place than it may take.
LEMMA QueueFits ==
  ASSUME IInv
  PROVE  LET n == Ahead(fifo.dptr, fifo.wrptr)
             q == Part(fifo.buf, fifo.dptr, n)
         IN  /\ n \in 0 .. Size - 1 /\ Len(q) = n /\ Holding(q, Size - 1)
             /\ q = <<>> <=> fifo.dptr = fifo.wrptr
<1> DEFINE n == Ahead(fifo.dptr, fifo.wrptr)
           q == Part(fifo.buf, fifo.dptr, n)
<1>1. fifo.dptr \in Offset /\ fifo.wrptr \in Offset /\ fifo.buf \in [Offset -> Sample]
  BY Parts, FifoFields
<1>2. n \in 0 .. Size - 1 /\ n \in Nat /\ (n = 0 <=> fifo.dptr = fifo.wrptr)
  BY <1>1, AheadIs
<1> HIDE DEF n
<1>3. Len(q) = n /\ (n = 0 <=> q = <<>>) /\ Holding(q, n)
  BY <1>1, <1>2, PartIs
<1> HIDE DEF q
<1>4. Holding(q, Size - 1)
  BY <1>2, <1>3, Sizes DEF Holding
<1> QED
  BY <1>2, <1>3, <1>4 DEF n, q

LEMMA QueueFitsNext ==
  ASSUME IInv'
  PROVE  LET n == Ahead(fifo'.dptr, fifo'.wrptr)
         IN  Holding(Part(fifo'.buf, fifo'.dptr, n), Size - 1)
<1> DEFINE n == Ahead(fifo'.dptr, fifo'.wrptr)
           q == Part(fifo'.buf, fifo'.dptr, n)
<1>1. fifo'.dptr \in Offset /\ fifo'.wrptr \in Offset /\ fifo'.buf \in [Offset -> Sample]
  BY DEF IInv, TypeOK, Fifo
<1>2. n \in 0 .. Size - 1 /\ n \in Nat
  BY <1>1, AheadIs
<1> HIDE DEF n
<1>3. Len(q) = n /\ Holding(q, n)
  BY <1>1, <1>2, PartIs
<1> HIDE DEF q
<1>4. Holding(q, Size - 1)
  BY <1>2, <1>3, Sizes DEF Holding
<1> QED
  BY <1>4 DEF n, q

LEMMA UnderflowMaps ==
  ASSUME IInv, IInv', Underflow
  PROVE  Queue!Next
<1>1. /\ ~pull.busy /\ fifo.dptr = fifo.wrptr /\ out' = Silence
      /\ UNCHANGED <<fifo, push, pull>> /\ ~pull.stale
  BY Parts DEF Underflow, PullIsAtHead
<1>2. Unseen
  BY <1>1, NothingSeen
<1>3. Mode \in {"muted", "live"} /\ (Mode = "live" => QueueNow = <<>>)
  BY <1>1, ModeIs, SeenIs, QueueFits
<1> QED
  BY <1>1, <1>2, <1>3, QueueMovesOn

LEMMA BeginPullMaps ==
  ASSUME IInv, IInv', BeginPull
  PROVE  Queue!Next
<1> DEFINE localTs == (fifo.localTs \/ (fifo.dptr = fifo.marker /\ ~fifo.localTs))
<1>1. /\ ~pull.busy /\ ~pull'.stale /\ out' = Silence /\ push' = push
      /\ fifo' = [fifo EXCEPT !.localTs = localTs] /\ fifo \in Fifo /\ ~pull.stale
  BY Parts DEF BeginPull, PullIsAtHead
<1> HIDE DEF localTs
<1>2. /\ fifo'.buf = fifo.buf /\ fifo'.dptr = fifo.dptr /\ fifo'.wrptr = fifo.wrptr
      /\ fifo'.zeroFlag = fifo.zeroFlag
  BY <1>1 DEF Fifo
<1>3. pull'.stale = pull.stale
  <2>1. pull.stale \in BOOLEAN /\ pull'.stale \in BOOLEAN
    BY Parts DEF IInv, TypeOK
  <2> QED
    BY <1>1, <2>1
<1>4. Unseen
  BY <1>1, <1>2, <1>3, NothingSeen
<1>5. Mode # "settling"
  BY <1>1, ModeIs
<1> QED
  BY <1>1, <1>4, <1>5, QueueMovesOn


\* A pull that ends plays the head of the queue, unless the ring is not heard or was
\* changed under it.
LEMMA EndPullMaps ==
  ASSUME IInv, IInv', EndPull
  PROVE  Queue!Next
<1>1. /\ pull.busy /\ fifo' = Consume(fifo, pull.at) /\ push' = push
      /\ out' = (IF fifo.zeroFlag THEN Silence ELSE pull.sample) /\ ~pull'.stale
  BY DEF EndPull, NoPull
<1>2. /\ fifo \in Fifo /\ pull.at \in Offset /\ PullIsAtHead /\ PushIsInRing
      /\ push \in [left : 0 .. Packet, wrptr : Offset, open : BOOLEAN]
  BY Parts DEF TypeOK
<1>3. /\ fifo'.dptr = Wrapped(pull.at + 1) /\ fifo'.zeroFlag = fifo.zeroFlag
      /\ fifo'.wrptr = fifo.wrptr /\ \A p \in Offset \ {pull.at} : fifo'.buf[p] = fifo.buf[p]
  BY <1>1, <1>2, ConsumeIs
<1>4. /\ fifo.dptr \in Offset /\ fifo.wrptr \in Offset /\ fifo.buf \in [Offset -> Sample]
      /\ fifo'.buf \in [Offset -> Sample] /\ fifo'.dptr \in Offset
  BY <1>2, FifoFields DEF IInv, TypeOK, Fifo
<1>5. CASE pull.stale
  <2>1. Mode = "settling" /\ Mode' \in {"muted", "live"} /\ ~push'.open
    BY <1>1, <1>2, <1>5, ModeIs DEF PullIsAtHead
  <2>2. out' \in Sample
    BY DEF IInv, TypeOK, StampType
  <2>3. HeldNow' = <<>> /\ InputNow' = <<>> /\ (Mode' = "muted" => QueueNow' = <<>>)
    BY <2>1, SilentIsEmpty
  <2>4. Mode' = "live" => Holding(QueueNow', Size - 1)
    BY ModeIs, SeenNextIs, QueueFitsNext
  <2> QED
    BY <2>1, <2>2, <2>3, <2>4, QueueTurns
<1>6. CASE ~pull.stale /\ fifo.zeroFlag
  <2>1. Mode = "muted" /\ Mode' = "muted" /\ out' = Silence
    BY <1>1, <1>3, <1>6, ModeIs
  <2> QED
    BY <2>1, SilentStutters, QueueMovesOn
<1>7. CASE ~pull.stale /\ ~fifo.zeroFlag
  <2> DEFINE d == fifo.dptr
             n == Ahead(fifo.dptr, fifo.wrptr)
             m == Ahead(fifo.wrptr, push.wrptr)
  <2>1. /\ Mode = "live" /\ Mode' = "live" /\ Live /\ Live'
        /\ pull.at = d /\ d # fifo.wrptr /\ out' = fifo.buf[d]
    <3>1. Mode = "live" /\ Mode' = "live" /\ Live /\ Live'
      BY <1>1, <1>3, <1>7, ModeIs
    <3> QED
      BY <1>1, <1>2, <1>7, <3>1 DEF PullIsAtHead
  <2>2. n \in Nat /\ n > 0 /\ n < Size /\ m \in Nat /\ m < Size
    BY <1>2, <1>4, <2>1, AheadIs, Sizes
  <2>3. Ahead(fifo'.dptr, fifo'.wrptr) = n - 1
    BY <1>3, <1>4, <2>1, AheadMoves
  <2> HIDE DEF n
  <2>4. /\ Part(fifo.buf, d, n) # <<>> /\ Head(Part(fifo.buf, d, n)) = fifo.buf[d]
        /\ Tail(Part(fifo.buf, d, n)) = Part(fifo'.buf, Wrapped(d + 1), n - 1)
    <3>1. d \in Offset /\ \A p \in Offset \ {d} : fifo'.buf[p] = fifo.buf[p]
      BY <1>3, <1>4, <2>1
    <3>2. n \in Nat /\ n > 0 /\ n < Size
      BY <2>2
    <3> HIDE DEF d
    <3> QED
      BY <1>4, <3>1, <3>2, PartTail
  <2>5. QueueNow = Part(fifo.buf, d, n)
        /\ QueueNow' = Part(fifo'.buf, Wrapped(d + 1), n - 1)
    <3>1. QueueNow = Part(fifo.buf, d, n)
      BY <2>1, SeenIs DEF n
    <3>2. QueueNow' = Part(fifo'.buf, fifo'.dptr, Ahead(fifo'.dptr, fifo'.wrptr))
      BY <2>1, SeenNextIs
    <3> QED
      BY <1>3, <2>1, <2>3, <3>1, <3>2
  <2>6. InputNow' = InputNow
    BY <1>1, <2>1, SeenIs, SeenNextIs
  <2>7. HeldNow' = HeldNow
    <3>1. CASE ~push.open
      BY <1>1, <3>1, SilentIsEmpty
    <3>2. CASE push.open
      <4>1. n + m < Size /\ push.wrptr \in Offset
        BY <1>2, <3>2 DEF PushIsInRing, n
      <4>2. ASSUME NEW k \in 0 .. m - 1
            PROVE  fifo'.buf[Wrapped(fifo.wrptr + k)] = fifo.buf[Wrapped(fifo.wrptr + k)]
        <5>1. k \in Nat /\ n + k < Size /\ n + k \in 0 .. Size - 1 /\ n + k # 0
              /\ k \in 0 .. Size - 1 /\ 0 \in 0 .. Size - 1
          BY <2>2, <4>1, Sizes
        <5>2. Wrapped(d + n) = fifo.wrptr
          BY <1>4, AheadPlace DEF n
        <5>3. Wrapped(fifo.wrptr + k) = Wrapped(d + (n + k))
          BY <1>4, <2>2, <5>1, <5>2, PlaceAdds
        <5>4. Wrapped(d + (n + k)) # Wrapped(d + 0) /\ Wrapped(fifo.wrptr + k) \in Offset
          BY <1>4, <5>1, PlacesDiffer, AheadOfPlace
        <5>5. Wrapped(d + 0) = d
          <6>1. d + 0 = d /\ d \in 0 .. Size - 1 /\ d \in 0 .. 2 * Size - 1 /\ Size \in Nat
            BY <1>4, Sizes DEF Offset
          <6> QED
            BY <6>1, WrappedIs
        <5> QED
          BY <1>3, <2>1, <5>3, <5>4, <5>5
      <4> HIDE DEF m
      <4>3. m <= Size
        BY <2>2, Sizes
      <4>4. Part(fifo'.buf, fifo.wrptr, m) = Part(fifo.buf, fifo.wrptr, m)
        BY <1>4, <2>2, <4>2, <4>3, PartsAgree
      <4>5. HeldNow = Part(fifo.buf, fifo.wrptr, m)
        BY <2>1, <3>2, SeenIs DEF m
      <4>6. HeldNow' = Part(fifo'.buf, fifo'.wrptr, Ahead(fifo'.wrptr, push'.wrptr))
        BY <1>1, <2>1, <3>2, SeenNextIs
      <4> QED
        BY <1>1, <1>3, <4>4, <4>5, <4>6 DEF m
    <3> QED
      BY <3>1, <3>2
  <2>8. QueueNow # <<>> /\ out' = Head(QueueNow) /\ QueueNow' = Tail(QueueNow)
    BY <2>1, <2>4, <2>5
  <2>9. UNCHANGED <<Mode, HeldNow, InputNow>>
    BY <2>1, <2>6, <2>7
  <2> QED
    BY <2>1, <2>8, <2>9, QueueMovesOn
<1> QED
  BY <1>5, <1>6, <1>7

\* What mutes the FIFO ends the queue, at once or with the sample being fetched.
LEMMA MutingMaps ==
  ASSUME IInv, IInv', Idle, Disturb, fifo'.zeroFlag, UNCHANGED <<push, out>>
  PROVE  Queue!Next
<1>1. ~push.open /\ ~push'.open /\ Mode # "settling" /\ Mode' \in {"muted", "settling"}
  BY ModeIs DEF Idle
<1> QED
  BY <1>1, SilentIsEmpty, QueueTurns

LEMMA ConfigureMaps ==
  ASSUME IInv, IInv', Configure \/ Deconfigure
  PROVE  Queue!Next
<1>1. fifo'.zeroFlag
  BY ZenonT(60), Parts, EnableIs, DisableIs DEF Configure, Deconfigure
<1> QED
  BY <1>1, MutingMaps DEF Configure, Deconfigure

LEMMA ServeResetMaps ==
  ASSUME IInv, IInv', ServeReset
  PROVE  Queue!Next
<1>1. fifo'.zeroFlag
  BY Parts, ResetIs DEF ServeReset
<1> QED
  BY <1>1, MutingMaps DEF ServeReset

\* The fill level is adjusted of a FIFO that is not heard, and it is heard from then
\* on.
LEMMA ServeAdjustMaps ==
  ASSUME IInv, IInv', ServeAdjust
  PROVE  Queue!Next
<1>1. /\ Idle /\ Disturb /\ UNCHANGED <<push, out>> /\ fifo.zeroFlag
      /\ fifo' = AdjustFill(fifo, talk.diff) /\ fifo \in Fifo
  BY Parts DEF ServeAdjust, FlagsFit
<1>2. Mode = "muted" /\ ~push'.open
  BY <1>1, ModeIs DEF Idle
<1>3. talk.diff \in Int
  <2>1. talk.diff \in Diffs \union {0}
    BY Parts
  <2>2. CASE talk.diff \in Diffs
    BY <2>2, Sizes
  <2>3. CASE talk.diff = 0
    BY <2>3
  <2> QED
    BY <2>1, <2>2, <2>3
<1>4. fifo'.zeroFlag = FALSE
  BY <1>1, <1>3, AdjustFillIs
<1>5. CASE pull'.stale
  <2>1. Mode' = "settling"
    BY <1>5, ModeIs
  <2> QED
    BY <1>1, <1>2, <2>1, SilentIsEmpty, QueueTurns
<1>6. CASE ~pull'.stale
  <2>1. Mode' = "live" /\ Live'
    BY <1>4, <1>6, ModeIs
  <2>2. Holding(QueueNow', Size - 1)
    BY <2>1, SeenNextIs, QueueFitsNext
  <2>3. HeldNow' = <<>> /\ InputNow' = <<>>
    BY <1>2, SilentIsEmpty
  <2> QED
    BY <1>1, <1>2, <2>1, <2>2, <2>3, QueueTurns
<1> QED
  BY <1>5, <1>6

\* Counting channels and talking to the media clock leave the queue alone.
LEMMA TalkStutters ==
  ASSUME IInv, IInv',
         \/ Learn \/ LearnAnew \/ TellClock \/ LeaveAlone \/ ServeAck
         \/ \E diff \in Diffs, stable \in BOOLEAN, ripe \in BOOLEAN :
              ManageBuffer(diff, stable, ripe)
  PROVE  UNCHANGED Queue!vars
<1>1. UNCHANGED <<push, pull, out>> /\ (fifo' = fifo \/ fifo' = Unmarked(fifo)) /\ fifo \in Fifo
  BY Parts DEF Learn, LearnAnew, Learned, TellClock, LeaveAlone, ServeAck, ManageBuffer
<1>2. /\ fifo'.buf = fifo.buf /\ fifo'.dptr = fifo.dptr /\ fifo'.wrptr = fifo.wrptr
      /\ fifo'.zeroFlag = fifo.zeroFlag
  BY <1>1, UnmarkedIs
<1>3. Unseen
  BY <1>1, <1>2, NothingSeen
<1> QED
  BY <1>1, <1>3, QueueStutters


\* A packet arrives at a FIFO that is heard, which is not one that fills with zeros.
LEMMA UnpackMaps ==
  ASSUME IInv, IInv', NEW t \in BOOLEAN, NEW k \in SampleNum, Unpack(t, k)
  PROVE  Queue!Next \/ UNCHANGED Queue!vars
<1> DEFINE timed == IF t THEN SetTimestamp(fifo, k) ELSE fifo
           busy == talk.at # "none"
           f == Maintain(timed, busy)
<1>1. /\ Idle /\ pull' = pull /\ out' = out /\ fifo' = f
      /\ push' = [left |-> Packet, wrptr |-> f.wrptr, open |-> TRUE]
  BY DEF Unpack
<1>2. timed \in Fifo /\ timed.state = fifo.state /\ timed.zeroFlag = fifo.zeroFlag
      /\ timed.dptr = fifo.dptr /\ timed.wrptr = fifo.wrptr /\ timed.buf = fifo.buf
  BY Parts, SetTimestampIs
<1> HIDE DEF timed
<1>3. busy \in BOOLEAN
  OBVIOUS
<1> HIDE DEF busy
<1>4. /\ f.dptr = fifo.dptr /\ f.buf = fifo.buf /\ (Zeroed(timed) => f.zeroFlag = TRUE)
      /\ ~Zeroed(timed) => f.zeroFlag = fifo.zeroFlag /\ f.wrptr = fifo.wrptr
  BY <1>2, <1>3, MaintainIs
<1>5. Zeroed(timed) => fifo.state = "ZEROING" /\ fifo.zeroFlag
  BY <1>2, Parts DEF Zeroed, FlagsFit
<1> HIDE DEF f
<1>6. CASE fifo.zeroFlag
  <2>1. fifo'.zeroFlag
    BY <1>1, <1>4, <1>6
  <2>2. Mode = "muted" /\ Mode' = "muted"
    BY <1>1, <1>6, <2>1, ModeIs DEF Idle
  <2> QED
    BY <1>1, <2>2, SilentStutters, QueueStutters
<1>7. CASE ~fifo.zeroFlag
  <2>1. /\ fifo'.dptr = fifo.dptr /\ fifo'.buf = fifo.buf /\ fifo'.wrptr = fifo.wrptr
        /\ fifo'.zeroFlag = fifo.zeroFlag /\ push'.left = Packet /\ push'.open
        /\ push'.wrptr = fifo.wrptr
    BY <1>1, <1>4, <1>5, <1>7
  <2>2. Mode = "live" /\ Mode' = "live" /\ Live /\ Live' /\ ~push.open
    BY <1>1, <1>7, <2>1, ModeIs DEF Idle
  <2>3. HeldNow = <<>> /\ InputNow = <<>>
    BY <2>2, SilentIsEmpty
  <2>4. QueueNow' = QueueNow
    BY <2>1, <2>2, SeenIs, SeenNextIs
  <2>5. HeldNow' = <<>>
    <3>1. HeldNow' = Part(fifo'.buf, fifo'.wrptr, Ahead(fifo'.wrptr, push'.wrptr))
      BY <2>1, <2>2, SeenNextIs
    <3>2. fifo.wrptr \in Offset /\ fifo.buf \in [Offset -> Sample]
      BY Parts, FifoFields
    <3>3. Ahead(fifo.wrptr, fifo.wrptr) = 0
      BY <3>2, AheadIs
    <3>4. Part(fifo.buf, fifo.wrptr, 0) = <<>>
      BY <3>2, PartIs
    <3> QED
      BY <2>1, <3>1, <3>3, <3>4
  <2>6. Holding(InputNow', Packet)
    <3>1. InputNow' = Rest(Packet)
      BY <2>1, <2>2, SeenNextIs
    <3>2. Packet \in 0 .. Packet
      BY Sizes
    <3> QED
      BY <3>1, <3>2, RestIs
  <2>7. UNCHANGED Mode /\ UNCHANGED <<QueueNow, HeldNow>>
    BY <2>2, <2>3, <2>4, <2>5
  <2> QED
    BY <1>1, <2>2, <2>3, <2>6, <2>7, QueueFills
<1> QED
  BY <1>6, <1>7

\* A sample is taken behind those that were, if there is a place that is neither the
\* last nor being read.
LEMMA PushSampleMaps ==
  ASSUME IInv, IInv', PushSample
  PROVE  Queue!Next \/ UNCHANGED Queue!vars
<1> DEFINE v == Values[Packet - push.left + 1]
           w == push.wrptr
           d == fifo.dptr
           e == fifo.wrptr
           n == Ahead(d, e)
           m == Ahead(e, w)
           buf == [fifo.buf EXCEPT ![w] = v]
<1>1. /\ push.open /\ push.left > 0 /\ UNCHANGED <<pull, out>> /\ push'.open
      /\ \/ /\ HasRoom(fifo, w) /\ fifo' = [fifo EXCEPT !.buf[w] = v]
            /\ push' = [push EXCEPT !.left = @ - 1, !.wrptr = Wrapped(@ + 1)]
         \/ /\ ~HasRoom(fifo, w) /\ fifo' = fifo
            /\ push' = [push EXCEPT !.left = @ - 1]
  BY Parts DEF PushSample
<1>2. /\ fifo \in Fifo /\ push \in [left : 0 .. Packet, wrptr : Offset, open : BOOLEAN]
      /\ PullIsAtHead /\ PushIsInRing
  BY Parts
<1>3. /\ d \in Offset /\ e \in Offset /\ w \in Offset /\ fifo.buf \in [Offset -> Sample]
      /\ push.left \in 0 .. Packet
  BY <1>2, FifoFields
<1>4. push'.left = push.left - 1
      /\ push'.wrptr = IF HasRoom(fifo, w) THEN Wrapped(w + 1) ELSE w
  BY <1>1, <1>2
<1>5. [fifo EXCEPT !.buf[w] = v] = [fifo EXCEPT !.buf = buf]
  BY <1>2 DEF Fifo
<1>6. v \in Sample /\ (fifo.state # "ZEROING" => v = Packet - push.left + 1)
  <2>1. Packet - push.left + 1 \in 1 .. Packet
    BY <1>1, <1>3, Sizes
  <2> QED
    BY <2>1, ValuesAre
<1> HIDE DEF v
<1>7. buf \in [Offset -> Sample] /\ buf[w] = v /\ \A p \in Offset \ {w} : buf[p] = fifo.buf[p]
  BY <1>3, <1>6
<1> HIDE DEF buf
<1>8. /\ fifo'.dptr = d /\ fifo'.wrptr = e /\ fifo'.zeroFlag = fifo.zeroFlag
      /\ fifo'.buf = IF HasRoom(fifo, w) THEN buf ELSE fifo.buf
  <2>1. LET r == [fifo EXCEPT !.buf = buf]
        IN  /\ r.dptr = d /\ r.wrptr = e /\ r.zeroFlag = fifo.zeroFlag /\ r.buf = buf
    BY <1>2 DEF Fifo
  <2> QED
    BY <1>1, <1>5, <2>1
<1>9. ~pull.stale /\ ~pull'.stale
  BY <1>1, <1>2 DEF PullIsAtHead
<1>10. CASE fifo.zeroFlag
  <2>1. Mode = "muted" /\ Mode' = "muted"
    BY <1>8, <1>9, <1>10, ModeIs
  <2> QED
    BY <1>1, <2>1, SilentStutters, QueueStutters
<1>11. CASE ~fifo.zeroFlag
  <2>1. Mode = "live" /\ Mode' = "live" /\ Live /\ Live' /\ fifo.state # "ZEROING"
    <3>1. Mode = "live" /\ Mode' = "live" /\ Live /\ Live'
      BY <1>8, <1>9, <1>11, ModeIs
    <3> QED
      BY <3>1, SeenIs
  <2>2. /\ n \in Nat /\ m \in Nat /\ n + m < Size /\ Ahead(d, w) = n + m
        /\ (d # e => d # w)
    <3>1. n + m < Size
      BY <1>1, <1>2 DEF PushIsInRing
    <3>2. Ahead(d, w) = n + m
      BY <1>3, <3>1, AheadAdds
    <3>3. n \in Nat /\ m \in Nat /\ n + m \in Nat /\ (Ahead(d, w) = 0 <=> d = w)
          /\ (n = 0 <=> d = e)
      BY <1>3, AheadIs
    <3>4. d # e => d # w
      BY <3>2, <3>3
    <3> QED
      BY <3>1, <3>2, <3>3, <3>4
  <2>3. /\ QueueNow = Part(fifo.buf, d, n) /\ HeldNow = Part(fifo.buf, e, m)
        /\ InputNow = Rest(push.left)
    BY <1>1, <2>1, SeenIs
  <2>4. /\ QueueNow' = Part(fifo'.buf, d, n) /\ HeldNow' = Part(fifo'.buf, e, Ahead(e, push'.wrptr))
        /\ InputNow' = Rest(push.left - 1)
    BY <1>1, <1>4, <1>8, <2>1, SeenNextIs
  <2>5. /\ InputNow # <<>> /\ InputNow' = Tail(InputNow) /\ Head(InputNow) = v
    BY <1>1, <1>3, <1>6, <2>1, <2>3, <2>4, RestIs
  <2>6. Len(QueueNow) = n /\ Len(HeldNow) = m
    BY <1>3, <2>2, <2>3, PartIs
  <2> HIDE DEF n
  <2>7. CASE HasRoom(fifo, w)
    <3>1. Wrapped(w + 1) # d /\ fifo'.buf = buf /\ push'.wrptr = Wrapped(w + 1)
      BY <1>4, <1>8, <2>7 DEF HasRoom
    <3>2. Ahead(d, Wrapped(w + 1)) = n + m + 1 /\ Ahead(d, Wrapped(w + 1)) < Size
          /\ Wrapped(w + 1) \in Offset
      <4>1. Wrapped(w + 1) \in Offset
        BY <1>3, NextIs
      <4>2. Ahead(d, Wrapped(w + 1)) = n + m + 1
        BY <1>3, <2>2, <3>1, AheadMoves
      <4> QED
        BY <1>3, <4>1, <4>2, AheadIs, Sizes
    <3>3. Ahead(e, Wrapped(w + 1)) = m + 1
      <4>1. Wrapped(w + 1) # e
        <5> SUFFICES ASSUME Wrapped(w + 1) = e PROVE FALSE
          OBVIOUS
        <5>1. m = Size - 1
          BY <1>3, AheadMoves
        <5> QED
          BY <2>2, <3>2, <5>1, Sizes
      <4> QED
        BY <1>3, <4>1, AheadMoves
    <3>4. m + 1 < Size /\ Wrapped(e + m) = w
      BY <1>3, <2>2, <3>2, AheadPlace, Sizes
    <3> HIDE DEF m, w
    <3>5. Append(HeldNow, v) = HeldNow'
      <4>1. /\ m \in Nat /\ m + 1 < Size /\ buf[Wrapped(e + m)] = v
            /\ \A p \in Offset \ {Wrapped(e + m)} : buf[p] = fifo.buf[p]
        BY <1>7, <2>2, <3>4
      <4>2. Append(Part(fifo.buf, e, m), v) = Part(buf, e, m + 1)
        BY <1>3, <1>6, <1>7, <4>1, PartAppend
      <4> QED
        BY <2>3, <2>4, <3>1, <3>3, <4>2
    <3>6. QueueNow' = QueueNow
      <4>1. ASSUME NEW i \in 0 .. n - 1
            PROVE  buf[Wrapped(d + i)] = fifo.buf[Wrapped(d + i)]
        <5>1. i \in 0 .. Size - 1 /\ n + m \in 0 .. Size - 1 /\ i # n + m
          BY <2>2, Sizes
        <5>2. Wrapped(d + (n + m)) = w
          BY <1>3, <2>2, AheadPlace
        <5>3. Wrapped(d + i) # w /\ Wrapped(d + i) \in Offset
          BY <1>3, <5>1, <5>2, PlacesDiffer, AheadOfPlace
        <5> QED
          BY <1>7, <5>3
      <4>2. n <= Size
        BY <2>2, Sizes
      <4>3. Part(buf, d, n) = Part(fifo.buf, d, n)
        BY <1>3, <1>7, <2>2, <4>1, <4>2, PartsAgree
      <4> QED
        BY <2>3, <2>4, <3>1, <4>3
    <3>7. Len(QueueNow) + Len(HeldNow) < Size - 1
      BY <2>2, <2>6, <3>2, Sizes
    <3>8. UNCHANGED Mode /\ UNCHANGED QueueNow /\ HeldNow' = Append(HeldNow, Head(InputNow))
      BY <2>1, <2>5, <3>5, <3>6
    <3> QED
      BY <1>1, <2>1, <2>5, <3>7, <3>8, QueueFills
  <2>8. CASE ~HasRoom(fifo, w)
    <3>1. Len(QueueNow) + Len(HeldNow) = Size - 1
      <4>1. Ahead(d, w) = Size - 1
        BY <1>3, <2>8, AheadMoves DEF HasRoom
      <4> QED
        BY <2>2, <2>6, <4>1
    <3>2. UNCHANGED Mode /\ UNCHANGED <<QueueNow, HeldNow>>
      BY <1>4, <1>8, <2>1, <2>3, <2>4, <2>8
    <3> QED
      BY <1>1, <2>1, <2>5, <3>1, <3>2, QueueFills
  <2> QED
    BY <2>7, <2>8
<1> QED
  BY <1>10, <1>11

LEMMA EndPushMaps ==
  ASSUME IInv, IInv', EndPush
  PROVE  Queue!Next \/ UNCHANGED Queue!vars
<1> DEFINE w == push.wrptr
           d == fifo.dptr
           e == fifo.wrptr
           n == Ahead(d, e)
           m == Ahead(e, w)
<1>1. /\ push.open /\ push.left = 0 /\ UNCHANGED <<pull, out>> /\ ~push'.open
      /\ fifo' = Publish(fifo, w)
  BY DEF EndPush, NoPush
<1>2. /\ fifo \in Fifo /\ push \in [left : 0 .. Packet, wrptr : Offset, open : BOOLEAN]
      /\ PullIsAtHead /\ PushIsInRing
  BY Parts
<1>3. /\ d \in Offset /\ e \in Offset /\ w \in Offset /\ fifo.buf \in [Offset -> Sample]
  BY <1>2, FifoFields
<1>4. /\ fifo'.dptr = d /\ fifo'.wrptr = w /\ fifo'.zeroFlag = fifo.zeroFlag
      /\ fifo'.buf = fifo.buf
  BY <1>1, <1>2, <1>3, PublishIs
<1>5. ~pull.stale /\ ~pull'.stale
  BY <1>1, <1>2 DEF PullIsAtHead
<1>6. CASE fifo.zeroFlag
  <2>1. Mode = "muted" /\ Mode' = "muted"
    BY <1>4, <1>5, <1>6, ModeIs
  <2> QED
    BY <1>1, <2>1, SilentStutters, QueueStutters
<1>7. CASE ~fifo.zeroFlag
  <2>1. Mode = "live" /\ Mode' = "live" /\ Live /\ Live'
    BY <1>4, <1>5, <1>7, ModeIs
  <2>2. n \in Nat /\ m \in Nat /\ n + m < Size /\ Ahead(d, w) = n + m
    <3>1. n + m < Size
      BY <1>1, <1>2 DEF PushIsInRing
    <3>2. Ahead(d, w) = n + m
      BY <1>3, <3>1, AheadAdds
    <3>3. n \in Nat /\ m \in Nat
      BY <1>3, AheadIs
    <3> QED
      BY <3>1, <3>2, <3>3
  <2>3. /\ QueueNow = Part(fifo.buf, d, n) /\ HeldNow = Part(fifo.buf, e, m)
        /\ InputNow = <<>>
    <3>1. InputNow = Rest(0)
      BY <1>1, <2>1, SeenIs
    <3>2. Rest(0) = <<>>
      BY RestIs, Sizes
    <3>3. QueueNow = Part(fifo.buf, d, n) /\ HeldNow = Part(fifo.buf, e, m)
      BY <1>1, <2>1, SeenIs
    <3> QED
      BY <3>1, <3>2, <3>3
  <2>4. HeldNow' = <<>> /\ InputNow' = <<>> /\ QueueNow' = Part(fifo.buf, d, n + m)
    <3>1. HeldNow' = <<>> /\ InputNow' = <<>>
      BY <1>1, SilentIsEmpty
    <3>2. QueueNow' = Part(fifo'.buf, fifo'.dptr, Ahead(fifo'.dptr, fifo'.wrptr))
      BY <2>1, SeenNextIs
    <3> QED
      BY <1>4, <2>2, <3>1, <3>2
  <2>5. Wrapped(d + n) = e
    BY <1>3, AheadPlace
  <2> HIDE DEF n, m
  <2>6. Part(fifo.buf, d, n) \o Part(fifo.buf, Wrapped(d + n), m) = Part(fifo.buf, d, n + m)
    BY <1>3, <2>2, PartJoin
  <2>7. QueueNow' = QueueNow \o HeldNow /\ UNCHANGED Mode /\ UNCHANGED InputNow
    BY <2>1, <2>3, <2>4, <2>5, <2>6
  <2> QED
    BY <1>1, <2>1, <2>3, <2>4, <2>7, QueueFills
<1> QED
  BY <1>6, <1>7

LEMMA StepMaps ==
  ASSUME IInv, IInv', [Next]_vars
  PROVE  [Queue!Next]_(Queue!vars)
<1>1. CASE Pull
  BY <1>1, UnderflowMaps, BeginPullMaps, EndPullMaps DEF Pull
<1>2. CASE Configure \/ Deconfigure
  BY <1>2, ConfigureMaps
<1>3. CASE Receive
  BY <1>3, TalkStutters, UnpackMaps DEF Receive
<1>4. CASE PushSample \/ EndPush
  BY <1>4, PushSampleMaps, EndPushMaps
<1>5. CASE Serve
  <2>1. CASE ServeAdjust \/ ServeReset
    BY <2>1, ServeAdjustMaps, ServeResetMaps
  <2>2. CASE ~(ServeAdjust \/ ServeReset)
    BY <1>5, <2>2, TalkStutters DEF Serve
  <2> QED
    BY <2>1, <2>2
<1>6. CASE UNCHANGED vars
  <2>1. Unseen /\ out' = out
    BY <1>6, NothingSeen DEF vars
  <2> QED
    BY <2>1, QueueStutters
<1> QED
  BY <1>1, <1>2, <1>3, <1>4, <1>5, <1>6 DEF Next

LEMMA InitMaps == Init => Queue!Init
<1> SUFFICES ASSUME Init PROVE Queue!Init
  OBVIOUS
<1>1. IInv
  BY InitInv
<1>2. /\ fifo.dptr = 0 /\ fifo.wrptr = 0 /\ ~pull.stale /\ ~push.open /\ out = Silence
  BY InitialIs DEF Init, NoPull, NoPush
<1>3. Mode \in {"muted", "live"}
  BY <1>2 DEF Mode
<1>4. HeldNow = <<>> /\ InputNow = <<>>
  BY <1>1, <1>2, SeenIs
<1>5. QueueNow = <<>>
  BY <1>1, <1>2, SeenIs, QueueFits
<1> QED
  BY <1>2, <1>3, <1>4, <1>5, QueueStarts

\* While it plays, the FIFO is the bounded queue of SampleQueue: the audio thread
\* (media_output_fifo_pull_sample) and the listener (media_output_fifo_strided_push,
\* media_output_fifo_handle_buf_ctl), who share pointers and no lock, lose, repeat or
\* reorder no sample.
THEOREM AlwaysPlaysInOrder == Spec => PlaysInOrder
<1>1. Init => Queue!Init
  BY InitMaps
<1>2. IInv /\ IInv' /\ [Next]_vars => [Queue!Next]_(Queue!vars)
  BY StepMaps
<1> QED
  BY <1>1, <1>2, Invariance, PTL DEF Spec, PlaysInOrder, Queue!Spec

=============================================================================
